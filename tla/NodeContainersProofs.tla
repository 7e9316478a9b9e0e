------------------------ MODULE NodeContainersProofs ------------------------
(***************************************************************************)
(* Proofs about NodeContainers, for every set of nodes, every bound and    *)
(* every kind of container.  The first half is about the memory that the   *)
(* libraries leave: chains, and the search trees with the oldest node of   *)
(* each subtree as its root.  The second half follows the walks: over any  *)
(* memory for the types and the recursion, and over intact memory for what *)
(* they find.                                                              *)
(***************************************************************************)
EXTENDS NodeContainers, NumberLemmas, FunctionTheorems, SequenceTheorems

-----------------------------------------------------------------------------
(* Natural numbers *)

(* A finite set of natural numbers can be enumerated in order *)
IsSorted(s, S) == s \in [1 .. Cardinality(S) -> S] /\ \A i, j \in DOMAIN s : i < j => s[i] < s[j]

(* The first of the numbers goes before an enumeration of the others *)
LEMMA SortedExtends ==
  ASSUME NEW S \in SUBSET Nat, IsFiniteSet(S), NEW a \in S, \A x \in S : a <= x,
         NEW r, IsSorted(r, S \ {a})
  PROVE  \E s : IsSorted(s, S)
<1> DEFINE n == Cardinality(S)
           s == [i \in 1 .. n |-> IF i = 1 THEN a ELSE r[i - 1]]
<1>1. n \in Nat /\ Cardinality(S \ {a}) = n - 1 /\ Cardinality(S \ {a}) \in Nat
  BY FS_RemoveElement, FS_CardinalityType
<1>2. /\ r \in [1 .. n - 1 -> S \ {a}]
      /\ \A i, j \in 1 .. n - 1 : i < j => r[i] < r[j]
  BY <1>1 DEF IsSorted
<1> HIDE DEF n
<1>3. \A i \in 1 .. n : i # 1 => i - 1 \in 1 .. n - 1
  BY <1>1
<1>4. s \in [1 .. n -> S]
  BY <1>2, <1>3
<1>5. ASSUME NEW i \in 1 .. n, NEW j \in 1 .. n, i < j
      PROVE  s[i] < s[j]
  <2>1. j # 1 /\ j - 1 \in 1 .. n - 1 /\ s[j] = r[j - 1] /\ r[j - 1] \in S \ {a}
    BY <1>1, <1>2, <1>3, <1>5
  <2>2. CASE i = 1
    <3>1. s[i] = a /\ a <= s[j] /\ a # s[j]
      BY <2>1, <2>2
    <3>2. a \in Nat /\ s[j] \in Nat
      BY <2>1
    <3>3. QED
      BY <3>1, <3>2
  <2>3. CASE i # 1
    <3>1. i - 1 \in 1 .. n - 1 /\ s[i] = r[i - 1] /\ i - 1 < j - 1
      BY <1>1, <1>3, <1>5, <2>3
    <3>2. QED
      BY <1>2, <2>1, <3>1
  <2>4. QED
    BY <2>2, <2>3
<1>6. DOMAIN s = 1 .. n
  OBVIOUS
<1> HIDE DEF s
<1>7. IsSorted(s, S)
  BY <1>4, <1>5, <1>6 DEF IsSorted, n
<1>8. QED
  BY <1>7

(* Every finite set of natural numbers has an enumeration in order *)
LEMMA SortedExists ==
  ASSUME NEW S \in SUBSET Nat, IsFiniteSet(S)
  PROVE  \E s : IsSorted(s, S)
<1> DEFINE Stuck == {n \in Nat : \E A \in SUBSET Nat : /\ IsFiniteSet(A) /\ Cardinality(A) = n
                                                       /\ ~ \E s : IsSorted(s, A)}
<1> SUFFICES ASSUME Stuck # {} PROVE FALSE
  <2>1. Cardinality(S) \in Nat
    BY FS_CardinalityType
  <2>2. QED
    BY <2>1
<1>1. PICK n \in Stuck : \A m \in Stuck : n <= m
  <2>1. Stuck \in SUBSET Nat
    OBVIOUS
  <2> HIDE DEF Stuck
  <2>2. QED
    BY <2>1, Smallest
<1>2. PICK A \in SUBSET Nat : IsFiniteSet(A) /\ Cardinality(A) = n /\ ~ \E s : IsSorted(s, A)
  OBVIOUS
<1>3. A # {}
  <2> SUFFICES ASSUME A = {} PROVE FALSE
    OBVIOUS
  <2>1. Cardinality(A) = 0
    BY FS_EmptySet
  <2> DEFINE s == [i \in 1 .. 0 |-> 0]
  <2>2. s \in [1 .. 0 -> A] /\ DOMAIN s = 1 .. 0 /\ \A i, j \in 1 .. 0 : i < j => s[i] < s[j]
    OBVIOUS
  <2> HIDE DEF s
  <2>3. IsSorted(s, A)
    BY <2>1, <2>2 DEF IsSorted
  <2>4. QED
    BY <1>2, <2>3
<1>4. PICK a \in A : \A x \in A : a <= x
  BY <1>3, Smallest
<1>5. IsFiniteSet(A \ {a}) /\ Cardinality(A \ {a}) = n - 1 /\ A \ {a} \in SUBSET Nat
  BY <1>2, FS_RemoveElement
<1>6. n \in Nat /\ n - 1 \in Nat
  BY <1>5, FS_CardinalityType
<1>7. \E r : IsSorted(r, A \ {a})
  <2>1. n - 1 \notin Stuck
    <3>1. ~(n <= n - 1)
      BY <1>6
    <3> HIDE DEF Stuck
    <3>2. QED
      BY <1>1, <3>1
  <2>2. QED
    BY <1>5, <1>6, <2>1
<1>8. QED
  BY <1>2, <1>4, <1>7, SortedExtends

(* What Sorted returns: all the numbers of the set, each once, in order *)
LEMMA SortedFacts ==
  ASSUME NEW S \in SUBSET Nodes
  PROVE  /\ Sorted(S) \in Seq(S) /\ Sorted(S) \in Seq(Nodes)
         /\ Len(Sorted(S)) = Cardinality(S) /\ Cardinality(S) \in Nat
         /\ \A i, j \in 1 .. Len(Sorted(S)) : i < j => Sorted(S)[i] < Sorted(S)[j]
         /\ \A x \in S : \E i \in 1 .. Len(Sorted(S)) : Sorted(S)[i] = x
<1> DEFINE s == Sorted(S)
           n == Cardinality(S)
<1>1. S \in SUBSET Nat /\ IsFiniteSet(S) /\ n \in Nat
  BY NodesAssumption, FS_Subset, FS_CardinalityType
<1>2. IsSorted(s, S)
  BY <1>1, SortedExists DEF Sorted, IsSorted
<1>3. s \in [1 .. n -> S] /\ \A i, j \in 1 .. n : i < j => s[i] < s[j]
  BY <1>2 DEF IsSorted
<1> HIDE DEF s, n
<1>4. s \in Seq(S) /\ Len(s) = n
  BY <1>1, <1>3
<1>5. s \in Seq(Nodes)
  BY <1>4
<1>6. \A x \in S : \E i \in 1 .. n : s[i] = x
  <2>1. IsFiniteSet(1 .. n) /\ Cardinality(1 .. n) = n
    BY <1>1, FS_Interval
  <2>2. \A i, j \in 1 .. n : s[i] = s[j] => i = j
    <3> SUFFICES ASSUME NEW i \in 1 .. n, NEW j \in 1 .. n, s[i] = s[j], i # j PROVE FALSE
      OBVIOUS
    <3>1. i < j \/ j < i
      BY <1>1
    <3>2. s[i] \in Nat /\ s[j] \in Nat
      BY <1>1, <1>3
    <3>3. QED
      BY <1>3, <3>1, <3>2
  <2>3. s \in Injection(1 .. n, S)
    BY <1>3, <2>2 DEF Injection, IsInjective
  <2>4. s \in Surjection(1 .. n, S)
    BY <1>1, <2>1, <2>3, FS_Injection DEF n
  <2>5. QED
    BY <2>4 DEF Surjection
<1>7. QED
  BY <1>1, <1>3, <1>4, <1>5, <1>6 DEF s, n

-----------------------------------------------------------------------------
(* Chains *)

Chains == {"list", "forward_list", "hash"}

EndOf(k) == IF k = "list" THEN Header ELSE Null

(* The node at position n of a chain, or its end *)
NodeAt(k, s, n) == IF n < Len(s) THEN s[n + 1] ELSE EndOf(k)

(* The pointers a cell has *)
LEMMA LinksOf ==
  ASSUME NEW k
  PROVE  \A c \in Cells : \A f \in {"next", "left", "right", "parent", "begin"} :
            <<c, f>> \in Links(k) <=> f \in Fields(k, c)
BY DEF Links

(* A chain links the header to the first node and each node to the next *)
LEMMA ChainLinks ==
  ASSUME NEW k \in Chains, NEW s \in Seq(Nodes),
         \A i, j \in 1 .. Len(s) : i < j => s[i] < s[j]
  PROVE  /\ Chain(k, s) \in [Links(k) -> Ptr]
         /\ <<Header, "next">> \in Links(k)
         /\ Chain(k, s)[<<Header, "next">>] = NodeAt(k, s, 0)
         /\ \A i \in 1 .. Len(s) : /\ <<s[i], "next">> \in Links(k)
                                   /\ Chain(k, s)[<<s[i], "next">>] = NodeAt(k, s, i)
<1> DEFINE At(c) == {i \in DOMAIN s : s[i] = c}
           I(c) == IF c = Header THEN 0 ELSE CHOOSE j \in At(c) : TRUE
           V(c) == IF c # Header /\ At(c) = {} THEN Null
                   ELSE IF I(c) < Len(s) THEN s[I(c) + 1]
                   ELSE IF k = "list" THEN Header ELSE Null
<1>1. Chain(k, s) = [l \in Links(k) |-> V(l[1])]
  BY DEF Chain
<1>2. Len(s) \in Nat /\ DOMAIN s = 1 .. Len(s) /\ \A i \in 1 .. Len(s) : s[i] \in Nodes
  OBVIOUS
<1>3. \A c : c # Header /\ At(c) # {} => I(c) \in 1 .. Len(s)
  BY <1>2
<1>4. I(Header) = 0
  OBVIOUS
<1>5. \A c : I(c) \in Nat \/ (c # Header /\ At(c) = {})
  BY <1>2, <1>3, <1>4
<1> HIDE DEF I, At
<1>6. \A c : V(c) \in Ptr
  <2> SUFFICES ASSUME NEW c PROVE V(c) \in Ptr
    OBVIOUS
  <2>1. CASE c # Header /\ At(c) = {}
    BY <2>1 DEF Ptr
  <2>2. CASE ~(c # Header /\ At(c) = {})
    <3>1. I(c) \in Nat
      BY <1>5, <2>2
    <3>2. I(c) < Len(s) => I(c) + 1 \in 1 .. Len(s)
      BY <1>2, <3>1
    <3>3. I(c) < Len(s) => s[I(c) + 1] \in Ptr
      BY <1>2, <3>2 DEF Ptr, Cells
    <3>4. QED
      BY <2>2, <3>3 DEF Ptr, Cells
  <2>3. QED
    BY <2>1, <2>2
<1>7. \A c \in Cells : <<c, "next">> \in Links(k)
  <2>1. \A c : "next" \in Fields(k, c)
    BY DEF Fields, Chains
  <2>2. QED
    BY <2>1, LinksOf
<1>8. ASSUME NEW c \in Cells
      PROVE  Chain(k, s)[<<c, "next">>] = V(c)
  <2>1. <<c, "next">>[1] = c
    OBVIOUS
  <2> HIDE DEF V
  <2>2. QED
    BY <1>1, <1>7, <2>1
<1>9. V(Header) = NodeAt(k, s, 0)
  BY <1>2, <1>4 DEF NodeAt, EndOf
<1>10. ASSUME NEW i \in 1 .. Len(s)
       PROVE  V(s[i]) = NodeAt(k, s, i)
  <2>1. At(s[i]) = {i}
    <3>1. i \in At(s[i])
      BY <1>2 DEF At
    <3>2. \A j \in At(s[i]) : j = i
      <4> SUFFICES ASSUME NEW j \in 1 .. Len(s), s[j] = s[i], j # i PROVE FALSE
        BY <1>2 DEF At
      <4>1. i < j \/ j < i
        BY <1>2
      <4>2. s[i] \in Nat /\ s[j] \in Nat
        BY <1>2, NodesAssumption
      <4>3. QED
        BY <4>1, <4>2
    <3>3. QED
      BY <3>1, <3>2
  <2>2. s[i] # Header
    BY <1>2, NodesAssumption
  <2>3. I(s[i]) = i
    BY <2>1, <2>2 DEF I
  <2>4. QED
    BY <2>1, <2>2, <2>3 DEF NodeAt, EndOf
<1>11. Header \in Cells /\ \A i \in 1 .. Len(s) : s[i] \in Cells
  BY <1>2 DEF Cells
<1>12. Chain(k, s) \in [Links(k) -> Ptr]
  <2> HIDE DEF V
  <2>1. QED
    BY <1>1, <1>6
<1> HIDE DEF V
<1>13. QED
  BY <1>7, <1>8, <1>9, <1>10, <1>11, <1>12

-----------------------------------------------------------------------------
(* Search trees *)

(* Ages tell the nodes of a tree apart *)
LEMMA AgeFacts ==
  ASSUME NEW S \in SUBSET Nodes, NEW age \in Ages(S)
  PROVE  /\ DOMAIN age = S /\ S \subseteq Nat /\ IsFiniteSet(S)
         /\ \A x \in S : age[x] \in Nat
         /\ \A x, y \in S : age[x] = age[y] => x = y
<1>1. S \subseteq Nat /\ IsFiniteSet(S)
  BY NodesAssumption, FS_Subset
<1>2. Cardinality(S) \in Nat
  BY <1>1, FS_CardinalityType
<1>3. \A i \in 1 .. Cardinality(S) : i \in Nat
  BY <1>2
<1>4. QED
  BY <1>1, <1>3 DEF Ages

(* A set of nodes has an oldest one *)
LEMMA OldestFacts ==
  ASSUME NEW S \in SUBSET Nodes, NEW age \in Ages(S), NEW T \in SUBSET S
  PROVE  /\ T = {} => Oldest(age, T) = Null
         /\ T # {} => Oldest(age, T) \in T /\ \A y \in T : age[Oldest(age, T)] <= age[y]
<1>1. ASSUME T # {}
      PROVE  \E x \in T : \A y \in T : age[x] <= age[y]
  <2> DEFINE A == {age[x] : x \in T}
  <2>1. A \in SUBSET Nat /\ A # {}
    BY <1>1, AgeFacts
  <2>2. PICK a \in A : \A b \in A : a <= b
    <3> HIDE DEF A
    <3>1. QED
      BY <2>1, Smallest
  <2>3. QED
    BY <2>2
<1>2. QED
  BY <1>1 DEF Oldest

(* Between two nodes *)
LEMMA BetweenFacts ==
  ASSUME NEW m \in Nodes, NEW n \in Nodes, NEW x \in Nodes
  PROVE  x \in Between(m, n) <=> ((m <= x /\ x <= n) \/ (n <= x /\ x <= m))
BY DEF Between

(* What it means to be in the subtree of a node *)
LEMMA SubtreeFacts ==
  ASSUME NEW S \in SUBSET Nodes, NEW age \in Ages(S), NEW n \in S
  PROVE  /\ Subtree(age, n) \subseteq S /\ n \in Subtree(age, n)
         /\ \A x \in S : x \in Subtree(age, n) <=>
               \A z \in S : (n <= z /\ z <= x) \/ (x <= z /\ z <= n) => age[n] <= age[z]
<1>1. DOMAIN age = S /\ S \subseteq Nat /\ \A x \in S : age[x] \in Nat
  BY AgeFacts
<1>2. ASSUME NEW x \in S
      PROVE  Between(n, x) \cap S = {z \in S : (n <= z /\ z <= x) \/ (x <= z /\ z <= n)}
  BY DEF Between
<1>3. \A x \in S : x \in Subtree(age, n) <=> \A z \in Between(n, x) \cap S : age[n] <= age[z]
  BY <1>1 DEF Subtree, Above
<1>4. \A x \in S : x \in Subtree(age, n) <=>
               \A z \in S : (n <= z /\ z <= x) \/ (x <= z /\ z <= n) => age[n] <= age[z]
  BY <1>2, <1>3
<1>5. \A z \in S : (n <= z /\ z <= n) => z = n
  BY <1>1
<1>6. n \in Subtree(age, n)
  BY <1>1, <1>4, <1>5
<1>7. Subtree(age, n) \subseteq S
  BY <1>1 DEF Subtree
<1>8. QED
  BY <1>4, <1>6, <1>7

(* A subtree has no gaps *)
LEMMA SubtreeConvex ==
  ASSUME NEW S \in SUBSET Nodes, NEW age \in Ages(S), NEW n \in S,
         NEW x \in Subtree(age, n), NEW y \in S,
         (n <= y /\ y <= x) \/ (x <= y /\ y <= n)
  PROVE  y \in Subtree(age, n)
<1>1. S \subseteq Nat /\ x \in S
  BY AgeFacts, SubtreeFacts
<1>2. \A z \in S : (n <= z /\ z <= x) \/ (x <= z /\ z <= n) => age[n] <= age[z]
  BY <1>1, SubtreeFacts
<1>3. \A z \in S : (n <= z /\ z <= y) \/ (y <= z /\ z <= n)
         => (n <= z /\ z <= x) \/ (x <= z /\ z <= n)
  BY <1>1
<1>4. QED
  BY <1>2, <1>3, SubtreeFacts

LeftPart(age, n)  == {x \in Subtree(age, n) : x < n}
RightPart(age, n) == {x \in Subtree(age, n) : x > n}

(* The subtree of the oldest node of a part without gaps is that part *)
LEMMA PartSubtree ==
  ASSUME NEW S \in SUBSET Nodes, NEW age \in Ages(S), NEW n \in S,
         NEW T \in {LeftPart(age, n), RightPart(age, n)}, T # {}
  PROVE  Oldest(age, T) \in T /\ Subtree(age, Oldest(age, T)) = T
<1> DEFINE r == Oldest(age, T)
<1>0. /\ DOMAIN age = S /\ S \subseteq Nat /\ (\A x \in S : age[x] \in Nat)
      /\ \A x, y \in S : age[x] = age[y] => x = y
  BY AgeFacts
<1>1. T \subseteq Subtree(age, n) /\ Subtree(age, n) \subseteq S /\ n \notin T
      /\ (T = LeftPart(age, n) \/ T = RightPart(age, n))
  BY <1>0, SubtreeFacts DEF LeftPart, RightPart
<1>2. r \in T /\ \A y \in T : age[r] <= age[y]
  BY <1>1, OldestFacts
<1>3. r \in S /\ r # n /\ r \in Nat /\ n \in Nat
  BY <1>0, <1>1, <1>2
<1>4. T \subseteq Subtree(age, r)
  <2> SUFFICES ASSUME NEW x \in T PROVE x \in Subtree(age, r)
    OBVIOUS
  <2>1. x \in S /\ x \in Nat /\ x \in Subtree(age, n) /\ r \in Subtree(age, n)
    BY <1>0, <1>1, <1>2
  <2>2. ASSUME NEW z \in S, (r <= z /\ z <= x) \/ (x <= z /\ z <= r)
        PROVE  age[r] <= age[z]
    <3>1. z \in T
      <4>1. z \in Nat
        BY <1>0
      <4>2. CASE T = LeftPart(age, n)
        <5>1. x < n /\ r < n
          BY <1>2, <4>2 DEF LeftPart
        <5>2. z < n /\ ((x <= z /\ z <= n) \/ (r <= z /\ z <= n))
          BY <1>3, <2>1, <2>2, <4>1, <5>1
        <5>3. z \in Subtree(age, n)
          BY <2>1, <5>2, SubtreeConvex
        <5>4. QED
          BY <4>2, <5>2, <5>3 DEF LeftPart
      <4>3. CASE T = RightPart(age, n)
        <5>1. x > n /\ r > n
          BY <1>2, <4>3 DEF RightPart
        <5>2. z > n /\ ((n <= z /\ z <= x) \/ (n <= z /\ z <= r))
          BY <1>3, <2>1, <2>2, <4>1, <5>1
        <5>3. z \in Subtree(age, n)
          BY <2>1, <5>2, SubtreeConvex
        <5>4. QED
          BY <4>3, <5>2, <5>3 DEF RightPart
      <4>4. QED
        BY <1>1, <4>2, <4>3
    <3>2. QED
      BY <1>2, <3>1
  <2>3. QED
    BY <1>3, <2>1, <2>2, SubtreeFacts
<1>5. Subtree(age, r) \subseteq T
  <2> SUFFICES ASSUME NEW x \in Subtree(age, r) PROVE x \in T
    OBVIOUS
  <2>1. x \in S /\ x \in Nat
    BY <1>0, <1>3, SubtreeFacts
  <2>2. \A z \in S : (r <= z /\ z <= x) \/ (x <= z /\ z <= r) => age[r] <= age[z]
    BY <1>3, <2>1, SubtreeFacts
  <2>3. age[n] < age[r] /\ ~(age[r] <= age[n])
    <3>1. age[n] <= age[r]
      <4>1. r \in Subtree(age, n)
        BY <1>1, <1>2
      <4>2. \A z \in S : (n <= z /\ z <= r) \/ (r <= z /\ z <= n) => age[n] <= age[z]
        BY <1>3, <4>1, SubtreeFacts
      <4>3. (n <= r /\ r <= r) \/ (r <= r /\ r <= n)
        BY <1>3
      <4>4. QED
        BY <1>3, <4>2, <4>3
    <3>2. age[n] # age[r] /\ age[n] \in Nat /\ age[r] \in Nat
      BY <1>0, <1>3
    <3>3. QED
      BY <3>1, <3>2
  <2>4. ~((r <= n /\ n <= x) \/ (x <= n /\ n <= r))
    BY <2>2, <2>3
  <2>5. ASSUME NEW z \in S, (n <= z /\ z <= x) \/ (x <= z /\ z <= n)
        PROVE  age[n] <= age[z]
    <3>1. z \in Nat
      BY <1>0
    <3>2. ((n <= z /\ z <= r) \/ (r <= z /\ z <= n)) \/ ((r <= z /\ z <= x) \/ (x <= z /\ z <= r))
      BY <1>3, <2>1, <2>4, <2>5, <3>1
    <3>3. CASE (n <= z /\ z <= r) \/ (r <= z /\ z <= n)
      <4>1. r \in Subtree(age, n)
        BY <1>1, <1>2
      <4>2. QED
        BY <1>3, <3>3, <4>1, SubtreeFacts
    <3>4. CASE (r <= z /\ z <= x) \/ (x <= z /\ z <= r)
      <4>1. age[r] <= age[z] /\ age[n] < age[r]
        BY <2>2, <2>3, <3>4
      <4>2. age[r] \in Nat /\ age[z] \in Nat /\ age[n] \in Nat
        BY <1>0, <1>3
      <4>3. QED
        BY <4>1, <4>2
    <3>5. QED
      BY <3>2, <3>3, <3>4
  <2>6. x \in Subtree(age, n)
    BY <2>1, <2>5, SubtreeFacts
  <2>7. CASE T = LeftPart(age, n)
    <3>1. r < n
      BY <1>2, <2>7 DEF LeftPart
    <3>2. x < n
      BY <1>3, <2>1, <2>4, <3>1
    <3>3. QED
      BY <2>6, <2>7, <3>2 DEF LeftPart
  <2>8. CASE T = RightPart(age, n)
    <3>1. r > n
      BY <1>2, <2>8 DEF RightPart
    <3>2. x > n
      BY <1>3, <2>1, <2>4, <3>1
    <3>3. QED
      BY <2>6, <2>8, <3>2 DEF RightPart
  <2>9. QED
    BY <1>1, <2>7, <2>8
<1>6. QED
  BY <1>2, <1>4, <1>5

(* The subtree of the root is the tree *)
LEMMA RootFacts ==
  ASSUME NEW S \in SUBSET Nodes, NEW age \in Ages(S), S # {}
  PROVE  Oldest(age, S) \in S /\ Subtree(age, Oldest(age, S)) = S
<1> DEFINE r == Oldest(age, S)
<1>1. r \in S /\ \A y \in S : age[r] <= age[y]
  BY OldestFacts
<1> HIDE DEF r
<1>2. \A x \in S : x \in Subtree(age, r)
  BY <1>1, SubtreeFacts
<1>3. Subtree(age, r) \subseteq S
  BY <1>1, SubtreeFacts
<1>4. QED
  BY <1>1, <1>2, <1>3 DEF r

(* A node's children are the roots of the parts beside it *)
LEMMA ChildFacts ==
  ASSUME NEW S \in SUBSET Nodes, NEW age \in Ages(S), NEW n \in S
  PROVE  /\ LeftPart(age, n) = {} => LeftOf(age, n) = Null
         /\ LeftPart(age, n) # {} => /\ LeftOf(age, n) \in LeftPart(age, n)
                                     /\ Subtree(age, LeftOf(age, n)) = LeftPart(age, n)
         /\ RightPart(age, n) = {} => RightOf(age, n) = Null
         /\ RightPart(age, n) # {} => /\ RightOf(age, n) \in RightPart(age, n)
                                      /\ Subtree(age, RightOf(age, n)) = RightPart(age, n)
<1>1. LeftOf(age, n) = Oldest(age, LeftPart(age, n)) /\ RightOf(age, n) = Oldest(age, RightPart(age, n))
  BY DEF LeftOf, RightOf, LeftPart, RightPart
<1>2. Oldest(age, {}) = Null
  BY DEF Oldest
<1>3. QED
  BY <1>1, <1>2, PartSubtree

(* The parts of a subtree *)
LEMMA PartFacts ==
  ASSUME NEW S \in SUBSET Nodes, NEW age \in Ages(S), NEW n \in S
  PROVE  /\ LeftPart(age, n) \subseteq S /\ RightPart(age, n) \subseteq S /\ n \in Nat
         /\ Subtree(age, n) = LeftPart(age, n) \cup {n} \cup RightPart(age, n)
         /\ (\A x \in LeftPart(age, n) : x < n) /\ (\A x \in RightPart(age, n) : n < x)
<1>1. Subtree(age, n) \subseteq S /\ S \subseteq Nat /\ n \in Subtree(age, n)
  BY SubtreeFacts, AgeFacts
<1>2. \A x \in S : x < n \/ x = n \/ x > n
  BY <1>1
<1>3. \A x \in S : x > n <=> n < x
  BY <1>1
<1>4. QED
  BY <1>1, <1>2, <1>3 DEF LeftPart, RightPart

(* What a node's children are among the nodes, or missing *)
LEMMA ChildTypes ==
  ASSUME NEW S \in SUBSET Nodes, NEW age \in Ages(S), NEW n \in S
  PROVE  /\ LeftOf(age, n) \in S \cup {Null} /\ RightOf(age, n) \in S \cup {Null}
         /\ LeftOf(age, n) # n /\ RightOf(age, n) # n
         /\ LeftPart(age, n) = {} <=> LeftOf(age, n) = Null
         /\ RightPart(age, n) = {} <=> RightOf(age, n) = Null
<1>1. Null \notin S /\ \A x \in S : ~(x < x)
  <2>1. Null \notin Nodes
    BY NodesAssumption DEF Cells
  <2>2. S \subseteq Nat
    BY AgeFacts
  <2>3. \A x \in Nat : ~(x < x)
    OBVIOUS
  <2>4. QED
    BY <2>1, <2>2, <2>3
<1>2. /\ LeftPart(age, n) = {} => LeftOf(age, n) = Null
      /\ LeftPart(age, n) # {} => LeftOf(age, n) \in LeftPart(age, n)
      /\ RightPart(age, n) = {} => RightOf(age, n) = Null
      /\ RightPart(age, n) # {} => RightOf(age, n) \in RightPart(age, n)
  BY ChildFacts
<1>3. /\ LeftPart(age, n) \subseteq S /\ RightPart(age, n) \subseteq S
      /\ (\A x \in LeftPart(age, n) : x < n) /\ (\A x \in RightPart(age, n) : n < x)
  BY PartFacts
<1>4. QED
  BY <1>1, <1>2, <1>3

(* Every node but the root is a child of another *)
LEMMA ParentExists ==
  ASSUME NEW S \in SUBSET Nodes, NEW age \in Ages(S), NEW n \in S, n # Oldest(age, S)
  PROVE  \E p \in S : n \in {LeftOf(age, p), RightOf(age, p)}
<1> DEFINE A == {x \in S : n \in Subtree(age, x) /\ x # n}
           top == Cardinality(S)
           D == {top - age[x] : x \in A}
<1>1. S \subseteq Nat /\ \A x \in S : age[x] \in Nat /\ top - age[x] \in Nat
  <2>1. S \subseteq Nat /\ IsFiniteSet(S) /\ \A x \in S : age[x] \in Nat
    BY AgeFacts
  <2>2. top \in Nat
    BY <2>1, FS_CardinalityType
  <2>3. \A x \in S : age[x] \in 1 .. top
    BY DEF Ages
  <2>4. QED
    BY <2>1, <2>2, <2>3
<1>2. A # {}
  BY RootFacts
<1>3. D \in SUBSET Nat /\ D # {}
  BY <1>1, <1>2
<1>4. PICK d \in D : \A e \in D : d <= e
  <2> HIDE DEF D
  <2>1. QED
    BY <1>3, Smallest
<1>5. PICK p \in A : d = top - age[p]
  OBVIOUS
<1>6. \A x \in A : ~(age[p] < age[x])
  <2> SUFFICES ASSUME NEW x \in A, age[p] < age[x] PROVE FALSE
    OBVIOUS
  <2>1. top - age[p] <= top - age[x]
    BY <1>4, <1>5
  <2>2. top \in Nat /\ age[p] \in Nat /\ age[x] \in Nat
    BY <1>1, AgeFacts, FS_CardinalityType
  <2> HIDE DEF top
  <2>3. QED
    BY <2>1, <2>2
<1>7. p \in S /\ n \in Subtree(age, p) /\ p # n
  OBVIOUS
<1> HIDE DEF A, D, top
<1>8. n \in LeftPart(age, p) \/ n \in RightPart(age, p)
  BY <1>7, PartFacts
<1>9. ASSUME NEW T \in {LeftPart(age, p), RightPart(age, p)}, n \in T
      PROVE  n = Oldest(age, T)
  <2> DEFINE r == Oldest(age, T)
  <2>1. r \in T /\ Subtree(age, r) = T /\ r \in S /\ r \in Subtree(age, p) /\ p \notin T
    <3>1. T # {}
      BY <1>9
    <3>2. Oldest(age, T) \in T /\ Subtree(age, Oldest(age, T)) = T
      BY <1>7, <1>9, <3>1, PartSubtree
    <3>3. T \subseteq S /\ T \subseteq Subtree(age, p) /\ (p \in T => p < p)
      BY <1>7, PartFacts
    <3>4. ~(p < p)
      BY <1>1, <1>7
    <3>5. QED
      BY <3>2, <3>3, <3>4
  <2> HIDE DEF r
  <2>2. SUFFICES ASSUME r # n PROVE FALSE
    BY DEF r
  <2>3. r \in A
    BY <1>9, <2>1, <2>2 DEF A
  <2>4. age[p] <= age[r]
    <3>1. \A z \in S : (p <= z /\ z <= r) \/ (r <= z /\ z <= p) => age[p] <= age[z]
      BY <1>7, <2>1, SubtreeFacts
    <3>2. (p <= r /\ r <= r) \/ (r <= r /\ r <= p)
      BY <1>1, <1>7, <2>1
    <3>3. QED
      BY <2>1, <3>1, <3>2
  <2>5. age[p] # age[r] /\ age[p] \in Nat /\ age[r] \in Nat
    BY <1>1, <1>7, <2>1, AgeFacts
  <2>6. age[p] < age[r]
    BY <2>4, <2>5
  <2>7. QED
    BY <1>6, <2>3, <2>6
<1>10. QED
  BY <1>7, <1>8, <1>9 DEF LeftOf, RightOf, LeftPart, RightPart

(* A set of nodes that is not empty has a first and a last one *)
LEMMA Extremes ==
  ASSUME NEW S \in SUBSET Nodes, S # {}
  PROVE  (\E n \in S : \A x \in S : n <= x) /\ (\E n \in S : \A x \in S : n >= x)
<1> DEFINE c == Sorted(S)
           N == Len(c)
<1>1. /\ c \in Seq(S) /\ N \in Nat
      /\ \A i, j \in 1 .. N : i < j => c[i] < c[j]
      /\ \A x \in S : \E i \in 1 .. N : c[i] = x
  BY SortedFacts
<1>2. S \subseteq Nat /\ \A i \in 1 .. N : c[i] \in S
  BY <1>1, NodesAssumption
<1> HIDE DEF c, N
<1>3. N > 0
  <2>1. PICK i \in 1 .. N : TRUE
    BY <1>1
  <2>2. QED
    BY <1>1, <2>1
<1>4. 1 \in 1 .. N /\ N \in 1 .. N
  BY <1>1, <1>3
<1>5. ASSUME NEW x \in S PROVE c[1] <= x /\ c[N] >= x
  <2>1. PICK i \in 1 .. N : c[i] = x
    BY <1>1
  <2>2. (i = 1 \/ 1 < i) /\ (i = N \/ i < N)
    BY <1>1, <2>1
  <2>3. (i = 1 \/ c[1] < c[i]) /\ (i = N \/ c[i] < c[N])
    BY <1>1, <1>4, <2>1, <2>2
  <2>4. c[1] \in Nat /\ c[N] \in Nat /\ x \in Nat
    BY <1>2, <1>4
  <2>5. QED
    BY <2>1, <2>3, <2>4
<1>6. QED
  BY <1>2, <1>4, <1>5

TreeKinds == {"stdcpp_tree", "libcxx_tree"}

(* What Tree writes in a cell, apart from the memory beyond its end node *)
TreeRootAt(k) == IF k = "stdcpp_tree" THEN "parent" ELSE "left"

(* The nodes of a tree point to their children *)
LEMMA TreeChildren ==
  ASSUME NEW k \in TreeKinds, NEW S \in SUBSET Nodes, NEW age \in Ages(S), NEW junk,
         NEW n \in S
  PROVE  /\ <<n, "left">> \in Links(k) /\ <<n, "right">> \in Links(k)
         /\ Tree(k, age, junk)[<<n, "left">>] = LeftOf(age, n)
         /\ Tree(k, age, junk)[<<n, "right">>] = RightOf(age, n)
<1>1. DOMAIN age = S /\ n \in Cells /\ n # Header
  BY AgeFacts, NodesAssumption DEF Cells
<1>2. {"left", "right"} \subseteq Fields(k, n)
  BY <1>1 DEF Fields, TreeKinds
<1>3. <<n, "left">> \in Links(k) /\ <<n, "right">> \in Links(k)
  BY <1>1, <1>2, LinksOf
<1>4. <<n, "left">>[1] = n /\ <<n, "right">>[1] = n /\ <<n, "left">>[2] = "left" /\ <<n, "right">>[2] = "right"
  OBVIOUS
<1>5. QED
  BY <1>1, <1>3, <1>4 DEF Tree

(* The container's own node points to the root *)
LEMMA TreeRoot ==
  ASSUME NEW k \in TreeKinds, NEW S \in SUBSET Nodes, NEW age \in Ages(S), NEW junk
  PROVE  /\ <<Header, TreeRootAt(k)>> \in Links(k)
         /\ Tree(k, age, junk)[<<Header, TreeRootAt(k)>>] = Oldest(age, S)
<1>1. DOMAIN age = S /\ Header \in Cells
  BY AgeFacts DEF Cells
<1>2. TreeRootAt(k) \in Fields(k, Header)
  BY DEF Fields, TreeKinds, TreeRootAt
<1>3. <<Header, TreeRootAt(k)>> \in Links(k)
  BY <1>1, <1>2, LinksOf DEF TreeRootAt
<1>4. <<Header, TreeRootAt(k)>>[1] = Header /\ <<Header, TreeRootAt(k)>>[2] = TreeRootAt(k)
  OBVIOUS
<1>5. \/ k = "stdcpp_tree" /\ TreeRootAt(k) = "parent"
      \/ k = "libcxx_tree" /\ TreeRootAt(k) = "left"
  BY DEF TreeKinds, TreeRootAt
<1>6. QED
  BY <1>1, <1>3, <1>4, <1>5 DEF Tree

(* A libc++ tree knows its first node *)
LEMMA TreeBegin ==
  ASSUME NEW S \in SUBSET Nodes, NEW age \in Ages(S), NEW junk
  PROVE  /\ <<Header, "begin">> \in Links("libcxx_tree")
         /\ S = {} => Tree("libcxx_tree", age, junk)[<<Header, "begin">>] = Header
         /\ S # {} => /\ Tree("libcxx_tree", age, junk)[<<Header, "begin">>] \in S
                      /\ \A x \in S : Tree("libcxx_tree", age, junk)[<<Header, "begin">>] <= x
<1>1. DOMAIN age = S /\ Header \in Cells
  BY AgeFacts DEF Cells
<1>2. "begin" \in Fields("libcxx_tree", Header)
  BY DEF Fields
<1>3. <<Header, "begin">> \in Links("libcxx_tree")
  BY <1>1, <1>2, LinksOf
<1>4. <<Header, "begin">>[1] = Header /\ <<Header, "begin">>[2] = "begin"
  OBVIOUS
<1>5. Tree("libcxx_tree", age, junk)[<<Header, "begin">>] =
         IF S = {} THEN Header ELSE CHOOSE n \in S : \A x \in S : n <= x
  BY <1>1, <1>3, <1>4 DEF Tree
<1>6. S # {} => \E n \in S : \A x \in S : n <= x
  BY Extremes
<1>7. QED
  BY <1>3, <1>5, <1>6

(* The nodes of a libc++ tree point to their parents *)
LEMMA TreeParents ==
  ASSUME NEW S \in SUBSET Nodes, NEW age \in Ages(S), NEW junk, NEW n \in S
  PROVE  /\ <<n, "parent">> \in Links("libcxx_tree")
         /\ n = Oldest(age, S) => Tree("libcxx_tree", age, junk)[<<n, "parent">>] = Header
         /\ n # Oldest(age, S) =>
               /\ Tree("libcxx_tree", age, junk)[<<n, "parent">>] \in S
               /\ \/ n = LeftOf(age, Tree("libcxx_tree", age, junk)[<<n, "parent">>])
                  \/ n = RightOf(age, Tree("libcxx_tree", age, junk)[<<n, "parent">>])
<1>1. DOMAIN age = S /\ n \in Cells /\ n # Header
  BY AgeFacts, NodesAssumption DEF Cells
<1>2. "parent" \in Fields("libcxx_tree", n)
  BY <1>1 DEF Fields
<1>3. <<n, "parent">> \in Links("libcxx_tree")
  BY <1>1, <1>2, LinksOf
<1>4. <<n, "parent">>[1] = n /\ <<n, "parent">>[2] = "parent"
  OBVIOUS
<1> DEFINE k == "libcxx_tree"
           T == DOMAIN age
           root == Oldest(age, T)
           Parent(m) == IF m = root THEN Header
                        ELSE CHOOSE x \in T : m \in {LeftOf(age, x), RightOf(age, x)}
           Edge(pick(_)) == IF T = {} THEN Header ELSE CHOOSE m \in T : pick(m)
           First(m) == \A x \in T : m <= x
           Last(m)  == \A x \in T : m >= x
           V(l) ==
             CASE l[1] = Header /\ k = "stdcpp_tree" ->
                    (CASE l[2] = "parent" -> root
                       [] l[2] = "left"   -> Edge(First)
                       [] OTHER           -> Edge(Last))
              [] l[1] = Header /\ k = "libcxx_tree" ->
                    (CASE l[2] = "left"  -> root
                       [] l[2] = "begin" -> Edge(First)
                       [] OTHER          -> junk)
              [] l[1] \notin T \cup {Header} -> Null
              [] OTHER -> (CASE l[2] = "left"  -> LeftOf(age, l[1])
                             [] l[2] = "right" -> RightOf(age, l[1])
                             [] OTHER          -> Parent(l[1]))
<1>a. Tree(k, age, junk) = [l \in Links(k) |-> V(l)]
  BY DEF Tree
<1>b. Parent(n) = IF n = root THEN Header
                  ELSE CHOOSE x \in T : n \in {LeftOf(age, x), RightOf(age, x)}
  OBVIOUS
<1> HIDE DEF Parent
<1>c. V(<<n, "parent">>) = Parent(n)
  BY <1>1, <1>4
<1> HIDE DEF V
<1>5. Tree("libcxx_tree", age, junk)[<<n, "parent">>] =
         IF n = Oldest(age, DOMAIN age) THEN Header
         ELSE CHOOSE x \in DOMAIN age : n \in {LeftOf(age, x), RightOf(age, x)}
  BY <1>3, <1>a, <1>b, <1>c
<1>6. n # Oldest(age, S) => \E x \in DOMAIN age : n \in {LeftOf(age, x), RightOf(age, x)}
  BY <1>1, ParentExists
<1>7. QED
  BY <1>1, <1>3, <1>5, <1>6

(* Every pointer of a tree can be held by a cell *)
LEMMA TreeType ==
  ASSUME NEW k \in TreeKinds, NEW S \in SUBSET Nodes, NEW age \in Ages(S), NEW junk \in Ptr
  PROVE  Tree(k, age, junk) \in [Links(k) -> Ptr]
<1> DEFINE t == Tree(k, age, junk)
<1>1. DOMAIN age = S /\ S \subseteq Ptr /\ Header \in Ptr /\ Null \in Ptr
  BY AgeFacts DEF Cells, Ptr
<1>2. Oldest(age, S) \in Ptr
  BY <1>1, OldestFacts
<1>3. ASSUME NEW l \in Links(k), l[1] = Header PROVE t[l] \in Ptr
  <2>1. S # {} => (\E n \in S : \A x \in S : n <= x) /\ (\E n \in S : \A x \in S : n >= x)
    BY Extremes
  <2>2. S # {} => /\ (CHOOSE n \in S : \A x \in S : n <= x) \in S
                  /\ (CHOOSE n \in S : \A x \in S : n >= x) \in S
    BY <2>1
  <2>3. \/ t[l] = Oldest(age, S)
        \/ t[l] = IF S = {} THEN Header ELSE CHOOSE n \in S : \A x \in S : n <= x
        \/ t[l] = IF S = {} THEN Header ELSE CHOOSE n \in S : \A x \in S : n >= x
        \/ t[l] = junk
    <3>1. CASE k = "stdcpp_tree"
      BY <1>1, <1>3, <3>1 DEF Tree
    <3>2. CASE k = "libcxx_tree"
      BY <1>1, <1>3, <3>2 DEF Tree
    <3>3. QED
      BY <3>1, <3>2 DEF TreeKinds
  <2>4. QED
    BY <1>1, <1>2, <2>2, <2>3
<1>4. ASSUME NEW l \in Links(k), l[1] # Header, l[1] \notin S PROVE t[l] \in Ptr
  <2>1. t[l] = Null
    BY <1>1, <1>4 DEF Tree
  <2>2. QED
    BY <1>1, <2>1
<1>5. ASSUME NEW l \in Links(k), l[1] # Header, l[1] \in S PROVE t[l] \in Ptr
  <2>1. PICK c \in Cells, f \in {"next", "left", "right", "parent", "begin"} : l = <<c, f>>
    BY DEF Links
  <2>2. f \in Fields(k, c) /\ l[1] = c /\ l[2] = f /\ c # Header /\ c \in S
    BY <1>5, <2>1 DEF Links
  <2>3. f \in {"left", "right"} \/ (f = "parent" /\ k = "libcxx_tree")
    BY <2>2 DEF Fields, TreeKinds
  <2>4. LeftOf(age, c) \in Ptr /\ RightOf(age, c) \in Ptr
    BY <1>1, <2>2, ChildTypes
  <2>5. CASE f = "left"
    <3>1. c \in S
      BY <2>2
    <3>2. t[<<c, "left">>] = LeftOf(age, c)
      BY <3>1, TreeChildren
    <3>3. QED
      BY <2>1, <2>4, <2>5, <3>2
  <2>6. CASE f = "right"
    <3>1. c \in S
      BY <2>2
    <3>2. t[<<c, "right">>] = RightOf(age, c)
      BY <3>1, TreeChildren
    <3>3. QED
      BY <2>1, <2>4, <2>6, <3>2
  <2>7. CASE f = "parent" /\ k = "libcxx_tree"
    <3>1. t[<<c, "parent">>] = Header \/ t[<<c, "parent">>] \in S
      BY <2>2, <2>7, TreeParents
    <3>2. QED
      BY <1>1, <2>1, <2>7, <3>1
  <2>8. QED
    BY <2>3, <2>5, <2>6, <2>7
<1>6. \A l \in Links(k) : t[l] \in Ptr
  BY <1>3, <1>4, <1>5
<1>7. t = [l \in Links(k) |-> t[l]]
  BY DEF Tree
<1> HIDE DEF t
<1>8. t \in [Links(k) -> Ptr]
  BY <1>6, <1>7
<1>9. QED
  BY <1>8 DEF t

-----------------------------------------------------------------------------
(* The types *)

(* Links and contents that the library has left, whether balanced or not *)
AsLeft(k, l, c) ==
    \E S \in SUBSET Nodes :
        /\ c = Sorted(S)
        /\ k \in Chains => l = Chain(k, c)
        /\ k \in TreeKinds => \E age \in Ages(S), junk \in Ptr : l = Tree(k, age, junk)

(* The memory the library leaves *)
LEMMA IntactFacts ==
  ASSUME NEW k \in Kinds, NEW m \in IntactMemory(k)
  PROVE  AsLeft(k, m.link, m.contents)
<1>1. k \in Chains \/ (k \in TreeKinds /\ k \notin Chains)
  BY BoundsAssumption DEF Chains, TreeKinds
<1>2. Beyond \subseteq Ptr /\ Null \in Ptr
  BY BoundsAssumption DEF Ptr
<1>3. PICK S \in SUBSET Nodes :
        \E l \in IF k \in {"list", "forward_list", "hash"} THEN {Chain(k, Sorted(S))}
                 ELSE {Tree(k, age, junk) :
                            age \in {a \in Ages(S) : Balanced(a)},
                            junk \in IF k = "libcxx_tree" THEN Beyond ELSE {Null}} :
            m = [link |-> l, contents |-> Sorted(S)]
  BY DEF IntactMemory
<1>4. m.contents = Sorted(S)
  BY <1>3
<1>5. CASE k \in Chains
  <2>1. m.link = Chain(k, Sorted(S)) /\ k \notin TreeKinds
    BY <1>3, <1>5 DEF Chains, TreeKinds
  <2>2. QED
    BY <1>4, <2>1, <1>5 DEF AsLeft
<1>6. CASE k \in TreeKinds /\ k \notin Chains
  <2>1. PICK age \in Ages(S), junk \in IF k = "libcxx_tree" THEN Beyond ELSE {Null} :
            m.link = Tree(k, age, junk)
    BY <1>3, <1>6 DEF Chains
  <2>2. junk \in Ptr
    BY <1>2, <2>1
  <2>3. QED
    BY <1>4, <1>6, <2>1, <2>2 DEF AsLeft
<1>7. QED
  BY <1>1, <1>5, <1>6

(* Its type *)
LEMMA AsLeftType ==
  ASSUME NEW k \in Kinds, NEW l, NEW c, AsLeft(k, l, c)
  PROVE  /\ l \in [Links(k) -> Ptr]
         /\ c \in Seq(Nodes) /\ Len(c) \in Nat
<1>1. PICK S \in SUBSET Nodes :
        /\ c = Sorted(S)
        /\ k \in Chains => l = Chain(k, c)
        /\ k \in TreeKinds => \E age \in Ages(S), junk \in Ptr : l = Tree(k, age, junk)
  BY DEF AsLeft
<1>2. c \in Seq(Nodes) /\ Len(c) \in Nat /\ \A i, j \in 1 .. Len(c) : i < j => c[i] < c[j]
  BY <1>1, SortedFacts
<1>3. CASE k \in Chains
  BY <1>1, <1>2, <1>3, ChainLinks
<1>4. CASE k \in TreeKinds
  BY <1>1, <1>2, <1>4, TreeType
<1>5. QED
  BY <1>2, <1>3, <1>4, BoundsAssumption DEF Chains, TreeKinds

(* The nodes met from the header on: w[n] after n steps *)
Follows(w, m) ==
    /\ w[0] = link[<<Header, "next">>]
    /\ \A i \in 0 .. m - 1 : /\ w[i] \in Cells /\ ~AtEnd(w[i])
                             /\ w[i + 1] = Read(w[i], "next")

(* No walk for an element takes a step after its index *)
Counting ==
    walk.op = "element" /\ walk.mode # "next" => walk.n < walk.index /\ kind = "libcxx_tree"

(* The second walk for the size does as many steps as the first, which is  *)
(* why it cannot find a size that check_size would have refused.           *)
Following ==
    /\ walk.op = "text" /\ Counted(kind) => walk.size = count /\ walk.n = 0
    /\ walk.op = "size" /\ ~Counted(kind) /\ walk.n <= MaxSize =>
            \E w : Follows(w, walk.n) /\ walk.node = w[walk.n]
    /\ walk.op = "text" /\ ~Counted(kind) =>
            \E w : /\ Follows(w, walk.size) /\ AtEnd(w[walk.size])
                   /\ walk.n <= walk.size /\ walk.node = w[walk.n]

NInv == TypeOK /\ Counting /\ Following

(* What the members of Walks are *)
LEMMA WalkTypes ==
  ASSUME NEW v \in Walks
  PROVE  /\ v.op \in {"none", "crashed", "size", "text", "element"}
         /\ v.op = "none" => v = NoWalk
         /\ v.op = "crashed" => v = [op |-> "crashed"]
         /\ v.op \in {"size", "text"} =>
               /\ v = [op |-> v.op, n |-> v.n, size |-> v.size, node |-> v.node]
               /\ v.n \in 0 .. MaxSize + 1 /\ v.size \in 0 .. MaxSize /\ v.node \in Ptr
         /\ v.op = "element" =>
               /\ v = [op |-> "element", index |-> v.index, n |-> v.n, node |-> v.node,
                       mode |-> v.mode, stack |-> v.stack]
               /\ v.index \in 0 .. MaxSize - 1 /\ v.n \in 0 .. MaxSize - 1 /\ v.node \in Ptr
               /\ v.mode \in {"next", "min", "climb"}
               /\ v.stack \in Seq([node : Ptr, stage : {"left", "self", "right", "return"}])
BY DEF Walks, NoWalk

(* What may be asked of a walk *)
LEMMA WalksSize ==
  ASSUME NEW o \in {"size", "text"}, NEW n \in 0 .. MaxSize + 1, NEW sz \in 0 .. MaxSize, NEW p \in Ptr
  PROVE  [op |-> o, n |-> n, size |-> sz, node |-> p] \in Walks
BY DEF Walks

Frames == [node : Ptr, stage : {"left", "self", "right", "return"}]

(* A walk for an element *)
LEMMA WalksElement ==
  ASSUME NEW i \in 0 .. MaxSize - 1, NEW n \in 0 .. MaxSize - 1, NEW p \in Ptr,
         NEW m \in {"next", "min", "climb"}, NEW s \in Seq(Frames)
  PROVE  [op |-> "element", index |-> i, n |-> n, node |-> p, mode |-> m, stack |-> s] \in Walks
BY DEF Walks, Frames

(* What a cell may hold *)
LEMMA ReadType ==
  ASSUME TypeOK, NEW c, NEW f
  PROVE  Read(c, f) \in Ptr
BY DEF TypeOK, Read, CountAsPointer, Ptr

(* The first pointers of every walk can be read *)
LEMMA FirstTypes ==
  ASSUME TypeOK
  PROVE  /\ ~Counted(kind) => link[<<Header, "next">>] \in Ptr
         /\ FirstNode \in Ptr
<1>1. kind \in {"list", "forward_list", "hash", "stdcpp_tree", "libcxx_tree"} /\ Header \in Cells
  BY BoundsAssumption DEF TypeOK, Cells
<1>2. /\ kind \in {"list", "forward_list", "hash"} => "next" \in Fields(kind, Header)
      /\ kind = "stdcpp_tree" => "parent" \in Fields(kind, Header)
      /\ kind = "libcxx_tree" => "begin" \in Fields(kind, Header)
  BY DEF Fields
<1>3. /\ kind \in {"list", "forward_list", "hash"} => <<Header, "next">> \in Links(kind)
      /\ kind = "stdcpp_tree" => <<Header, "parent">> \in Links(kind)
      /\ kind = "libcxx_tree" => <<Header, "begin">> \in Links(kind)
  BY <1>1, <1>2, LinksOf
<1>4. QED
  BY <1>1, <1>3 DEF TypeOK, FirstNode, Counted

(* No walk, and the rest as it should be *)
LEMMA QuietTypes ==
  ASSUME NInv, memory' = memory, walk' = NoWalk, answer' \in Answers,
         kept' \in {NoResult} \cup 0 .. MaxSize
  PROVE  NInv'
<1>1. NoWalk \in Walks /\ NoWalk.op = "none"
  BY DEF Walks, NoWalk
<1>2. TypeOK'
  BY <1>1 DEF NInv, TypeOK, memory
<1>3. Counting' /\ Following'
  BY <1>1 DEF Counting, Following
<1>4. QED
  BY <1>2, <1>3 DEF NInv

(* An error ends a walk *)
LEMMA FailTypes ==
  ASSUME NInv, Walking, Fail, memory' = memory
  PROVE  NInv'
<1>1. walk \in Walks /\ walk.op \in {"size", "text", "element"} /\ kept \in {NoResult} \cup 0 .. MaxSize
  BY WalkTypes DEF NInv, TypeOK, Walking
<1>2. walk.op = "element" => walk.index \in 0 .. MaxSize - 1
  BY <1>1, WalkTypes
<1>3. Error \in Answers
  BY <1>1, <1>2 DEF Error, Answers
<1>4. walk' = NoWalk /\ answer' \in Answers /\ kept' \in {NoResult} \cup 0 .. MaxSize
  BY <1>1, <1>3 DEF Fail
<1>5. QED
  BY <1>4, QuietTypes

(* So does an element, or a pointer to none *)
LEMMA ShowTypes ==
  ASSUME NInv, walk.op = "element", NEW c, Show(c), memory' = memory
  PROVE  NInv'
<1>1. walk \in Walks /\ Walking /\ kept \in {NoResult} \cup 0 .. MaxSize
  BY DEF NInv, TypeOK, Walking
<1>2. walk.index \in 0 .. MaxSize - 1
  BY <1>1, WalkTypes
<1>3. CASE Readable(c)
  <2>1. Element(c) \in Answers
    BY <1>2, <1>3 DEF Element, Answers, Readable
  <2>2. QED
    BY <1>1, <1>3, <2>1, QuietTypes DEF Show
<1>4. CASE ~Readable(c)
  BY <1>1, <1>4, FailTypes DEF Show
<1>5. QED
  BY <1>3, <1>4

(* A size found ends a walk, or starts the second one *)
LEMMA SizeKnownTypes ==
  ASSUME NInv, InSize, NEW sz \in Nat, SizeKnown(sz), memory' = memory,
         walk.op = "text" => sz <= MaxSize,
         walk.op = "size" /\ Counted(kind) => sz = count,
         walk.op = "size" /\ ~Counted(kind) /\ sz <= MaxSize =>
            \E w : Follows(w, sz) /\ AtEnd(w[sz])
  PROVE  NInv'
<1>1. walk \in Walks /\ Walking /\ MaxSize \in Nat /\ (walk.op = "size" \/ walk.op = "text")
  BY BoundsAssumption DEF NInv, TypeOK, Walking, InSize
<1>2. walk.size \in 0 .. MaxSize
  BY <1>1, WalkTypes
<1>3. CASE walk.op = "text"
  <2>1. Size(sz) \in Answers
    BY <1>1, <1>3 DEF Size, Answers
  <2>2. QED
    BY <1>2, <1>3, <2>1, QuietTypes DEF SizeKnown
<1>4. CASE walk.op = "size" /\ CheckSize(sz)
  BY <1>1, <1>4, FailTypes DEF SizeKnown
<1>5. CASE walk.op = "size" /\ ~CheckSize(sz)
  <2> DEFINE p == IF Counted(kind) THEN Null ELSE link[<<Header, "next">>]
  <2>1. sz \in 0 .. MaxSize
    BY <1>1, <1>5 DEF CheckSize
  <2>2. p \in Ptr /\ 0 \in 0 .. MaxSize + 1
    BY <1>1, FirstTypes DEF NInv, Ptr
  <2> HIDE DEF p
  <2>3. walk' = [op |-> "text", n |-> 0, size |-> sz, node |-> p] /\ kept' = kept /\ answer' = answer
    <3>1. SizeWalk("text") = [op |-> "text", n |-> 0, size |-> walk.n, node |-> p]
      BY DEF SizeWalk, p
    <3>2. QED
      BY <1>5, <3>1 DEF SizeKnown
  <2>4. walk' \in Walks
    BY <2>1, <2>2, <2>3, WalksSize
  <2>5. walk'.op = "text" /\ walk'.n = 0 /\ walk'.size = sz /\ walk'.node = p
    BY <2>3
  <2>6. TypeOK'
    BY <2>3, <2>4, <2>5 DEF NInv, TypeOK, memory
  <2>7. Counting'
    BY <2>5 DEF Counting
  <2>8. Following'
    <3>1. CASE Counted(kind)
      BY <1>5, <2>5, <3>1 DEF Following, memory
    <3>2. CASE ~Counted(kind)
      <4>1. PICK w : Follows(w, sz) /\ AtEnd(w[sz])
        BY <1>5, <2>1, <3>2
      <4>2. w[0] = p
        BY <3>2, <4>1 DEF Follows, p
      <4>3. 0 <= sz
        BY <2>1
      <4>4. Following' <=> \E v : (Follows(v, sz) /\ AtEnd(v[sz]) /\ 0 <= sz /\ p = v[0])
        BY <2>5, <3>2 DEF Following, Follows, AtEnd, Read, CountAsPointer, memory
      <4>5. QED
        BY <4>1, <4>2, <4>3, <4>4
    <3>3. QED
      BY <3>1, <3>2
  <2>9. QED
    BY <2>6, <2>7, <2>8 DEF NInv
<1>6. QED
  BY <1>1, <1>3, <1>4, <1>5

(* A step on the way to an element *)
LEMMA ElementStepTypes ==
  ASSUME NInv, memory' = memory, kept' = kept, answer' = answer,
         walk' \in Walks, walk'.op = "element",
         walk'.n <= walk'.index,
         walk'.mode # "next" => walk'.n < walk'.index /\ kind = "libcxx_tree",
         Len(walk'.stack) <= MaxStack
  PROVE  NInv'
<1>1. TypeOK'
  BY DEF NInv, TypeOK, memory
<1>2. Counting' /\ Following'
  BY DEF Counting, Following, memory
<1>3. QED
  BY <1>1, <1>2 DEF NInv

(* What a walk for an element is made of *)
LEMMA ElementTypes ==
  ASSUME NInv, walk.op = "element"
  PROVE  /\ walk = [op |-> "element", index |-> walk.index, n |-> walk.n, node |-> walk.node,
                    mode |-> walk.mode, stack |-> walk.stack]
         /\ walk.index \in 0 .. MaxSize - 1 /\ walk.n \in 0 .. MaxSize - 1 /\ walk.node \in Ptr
         /\ walk.mode \in {"next", "min", "climb"} /\ walk.stack \in Seq(Frames)
         /\ walk.n <= walk.index /\ Len(walk.stack) <= MaxStack
         /\ walk.mode # "next" => walk.n < walk.index /\ kind = "libcxx_tree"
         /\ Walking /\ MaxSize \in Nat
<1>1. walk \in Walks /\ walk.n <= walk.index /\ Len(walk.stack) <= MaxStack
  BY DEF NInv, TypeOK
<1>2. walk.mode # "next" => walk.n < walk.index /\ kind = "libcxx_tree"
  BY DEF NInv, Counting
<1>3. QED
  BY <1>1, <1>2, WalkTypes, BoundsAssumption DEF Walking, Frames

(* One element further *)
LEMMA Further ==
  ASSUME NInv, walk.op = "element", walk.n # walk.index
  PROVE  walk.n < walk.index /\ walk.n + 1 \in 0 .. MaxSize - 1 /\ walk.n + 1 <= walk.index
<1>1. walk.index \in 0 .. MaxSize - 1 /\ walk.n \in 0 .. MaxSize - 1 /\ walk.n <= walk.index
      /\ MaxSize \in Nat
  BY ElementTypes
<1>2. QED
  BY <1>1

(* One lemma per action follows.  Formatting starts the first walk.        *)
LEMMA FormatTypes ==
  ASSUME NInv, Format
  PROVE  NInv'
<1> DEFINE p == IF Counted(kind) THEN Null ELSE link[<<Header, "next">>]
<1>1. p \in Ptr /\ 0 \in 0 .. MaxSize + 1 /\ 0 \in 0 .. MaxSize /\ MaxSize \in Nat
  BY FirstTypes, BoundsAssumption DEF NInv, Ptr
<1>2. walk' = [op |-> "size", n |-> 0, size |-> 0, node |-> p]
  BY DEF Format, SizeWalk
<1>3. ~Counted(kind) => p = link[<<Header, "next">>]
  OBVIOUS
<1> HIDE DEF p
<1>4. walk' \in Walks /\ walk'.op = "size" /\ walk'.n = 0 /\ walk'.node = p
  BY <1>1, <1>2, WalksSize
<1>5. TypeOK'
  BY <1>4 DEF NInv, TypeOK, Format, memory, Answers
<1>6. Counting'
  BY <1>4 DEF Counting
<1>7. Following'
  <2>1. CASE Counted(kind)
    BY <1>4, <2>1 DEF Following, Format, memory
  <2>2. CASE ~Counted(kind)
    <3> DEFINE w == [i \in Nat |-> p]
    <3>1. w[0] = p
      OBVIOUS
    <3>2. 0 .. 0 - 1 = {}
      OBVIOUS
    <3>3. Follows(w, 0)
      BY <1>3, <2>2, <3>1, <3>2 DEF Follows
    <3>4. \E v : Follows(v, 0) /\ p = v[0]
      BY <3>1, <3>3
    <3> HIDE DEF w
    <3>5. Following' <=> (0 <= MaxSize => \E v : Follows(v, 0) /\ p = v[0])
      BY <1>4, <2>2 DEF Following, Follows, AtEnd, Read, CountAsPointer, memory, Format
    <3>6. QED
      BY <3>4, <3>5
  <2>3. QED
    BY <2>1, <2>2
<1>8. QED
  BY <1>5, <1>6, <1>7 DEF NInv

(* Expanding a child *)
LEMMA ExpandTypes ==
  ASSUME NInv, NEW idx \in 0 .. MaxSize, Expand(idx)
  PROVE  NInv'
<1>1. kept \in 0 .. MaxSize /\ kept' = kept /\ walk \in Walks /\ walk = NoWalk /\ memory' = memory
  BY WalkTypes DEF NInv, TypeOK, Expand
<1>2. CASE idx < 1
  <2>1. Size(kept) \in Answers
    BY <1>1 DEF Size, Answers
  <2>2. QED
    BY <1>1, <1>2, <2>1, QuietTypes DEF Expand
<1>3. CASE ~(idx < 1)
  <2> DEFINE st == IF kind = "stdcpp_tree" THEN <<[node |-> FirstNode, stage |-> "left"]>> ELSE <<>>
  <2>1. MaxSize \in Nat /\ MaxSize >= 1 /\ idx - 1 \in 0 .. MaxSize - 1 /\ 0 \in 0 .. MaxSize - 1
    BY <1>3, BoundsAssumption
  <2>2. MaxStack \in Nat /\ MaxStack >= 1
    <3>1. IsFiniteSet(Cells)
      BY NodesAssumption, FS_AddElement DEF Cells
    <3>2. Cardinality(Cells) \in Nat
      BY <3>1, FS_CardinalityType
    <3>3. MaxSize * Cardinality(Cells) \in Nat
      BY <2>1, <3>2
    <3>4. QED
      BY <3>3, BoundsAssumption
  <2>3. FirstNode \in Ptr
    BY FirstTypes DEF NInv
  <2>4. st \in Seq(Frames) /\ Len(st) <= MaxStack
    <3>1. [node |-> FirstNode, stage |-> "left"] \in Frames
      BY <2>3 DEF Frames
    <3>2. QED
      BY <2>2, <3>1
  <2>5. walk' = [op |-> "element", index |-> idx - 1, n |-> 0, node |-> FirstNode,
                 mode |-> "next", stack |-> st]
    BY <1>3 DEF Expand, ElementWalk
  <2> HIDE DEF st
  <2>6. walk' \in Walks
    BY <2>1, <2>3, <2>4, <2>5, WalksElement
  <2>7. walk'.op = "element" /\ walk'.n = 0 /\ walk'.index = idx - 1 /\ walk'.mode = "next"
        /\ walk'.stack = st /\ walk'.n <= walk'.index
    BY <2>1, <2>5
  <2>8. answer' \in Answers
    BY <1>3 DEF Expand, Answers
  <2>9. TypeOK'
    BY <1>1, <2>4, <2>6, <2>7, <2>8 DEF NInv, TypeOK, memory
  <2>10. Counting' /\ Following'
    BY <2>7 DEF Counting, Following
  <2>11. QED
    BY <2>9, <2>10 DEF NInv
<1>4. QED
  BY <1>2, <1>3

(* A size that is stored *)
LEMMA ReadCountTypes ==
  ASSUME NInv, ReadCount
  PROVE  NInv'
<1>1. InSize /\ Counted(kind) /\ SizeKnown(count) /\ memory' = memory /\ count \in Nat /\ walk \in Walks
  BY DEF ReadCount, CountedSize, NInv, TypeOK
<1>2. walk.op = "text" => count <= MaxSize
  <2>1. walk.op = "text" => walk.size = count /\ walk.size \in 0 .. MaxSize
    BY <1>1, WalkTypes DEF NInv, Following
  <2>2. QED
    BY <2>1, BoundsAssumption
<1>3. QED
  BY <1>1, <1>2, SizeKnownTypes

(* The last step of the first walk can be appended to what it has met *)
LEMMA FollowsExtends ==
  ASSUME NEW n \in Nat, NEW w, Follows(w, n), w[n] \in Cells, ~AtEnd(w[n])
  PROVE  \E v : Follows(v, n + 1) /\ v[n + 1] = Read(w[n], "next")
<1> DEFINE v == [i \in Nat |-> IF i <= n THEN w[i] ELSE Read(w[n], "next")]
<1>1. \A i \in Nat : (i <= n => v[i] = w[i]) /\ v[n + 1] = Read(w[n], "next")
  OBVIOUS
<1>2. v[0] = link[<<Header, "next">>]
  BY <1>1 DEF Follows
<1> HIDE DEF v
<1>3. ASSUME NEW i \in 0 .. n + 1 - 1
      PROVE  v[i] \in Cells /\ ~AtEnd(v[i]) /\ v[i + 1] = Read(v[i], "next")
  <2>1. v[i] = w[i]
    BY <1>1
  <2>2. CASE i = n
    BY <1>1, <2>1, <2>2
  <2>3. CASE i # n
    <3>1. i \in 0 .. n - 1 /\ v[i + 1] = w[i + 1]
      BY <1>1, <2>3
    <3>2. QED
      BY <2>1, <3>1 DEF Follows
  <2>4. QED
    BY <2>2, <2>3
<1>4. Follows(v, n + 1)
  BY <1>2, <1>3 DEF Follows
<1>5. QED
  BY <1>1, <1>4

(* A size that is counted *)
LEMMA SizeStepTypes ==
  ASSUME NInv, SizeStep
  PROVE  NInv'
<1>1. /\ InSize /\ ~Counted(kind) /\ memory' = memory /\ walk \in Walks /\ MaxSize \in Nat
      /\ walk.op \in {"size", "text"} /\ Walking
  BY BoundsAssumption DEF SizeStep, NInv, TypeOK, InSize, Walking
<1>2. /\ walk = [op |-> walk.op, n |-> walk.n, size |-> walk.size, node |-> walk.node]
      /\ walk.n \in 0 .. MaxSize + 1 /\ walk.size \in 0 .. MaxSize /\ walk.node \in Ptr
  BY <1>1, WalkTypes
<1>3. walk.op = "size" /\ walk.n <= MaxSize => \E w : Follows(w, walk.n) /\ walk.node = w[walk.n]
  BY <1>1 DEF NInv, Following
<1>4. walk.op = "text" => \E w : /\ Follows(w, walk.size) /\ AtEnd(w[walk.size])
                                 /\ walk.n <= walk.size /\ walk.node = w[walk.n]
  BY <1>1 DEF NInv, Following
<1>5. CASE AtEnd(walk.node)
  <2>1. SizeKnown(walk.n) /\ walk.n \in Nat
    BY <1>1, <1>2, <1>5 DEF SizeStep
  <2>2. walk.op = "text" => walk.n <= MaxSize
    BY <1>1, <1>2, <1>4
  <2>3. walk.op = "size" /\ walk.n <= MaxSize => \E w : Follows(w, walk.n) /\ AtEnd(w[walk.n])
    BY <1>3, <1>5
  <2>4. QED
    BY <1>1, <2>1, <2>2, <2>3, SizeKnownTypes
<1>6. CASE ~AtEnd(walk.node) /\ ~Readable(walk.node)
  BY <1>1, <1>6, FailTypes DEF SizeStep
<1>7. CASE ~AtEnd(walk.node) /\ Readable(walk.node)
  <2> DEFINE q == Read(walk.node, "next")
             m == IF walk.n > MaxSize THEN walk.n ELSE walk.n + 1
  <2>1. q \in Ptr /\ m \in 0 .. MaxSize + 1
    BY <1>1, <1>2, ReadType DEF NInv
  <2>2. walk' = [walk EXCEPT !.node = q, !.n = m] /\ kept' = kept /\ answer' = answer
    BY <1>7 DEF SizeStep
  <2>3. /\ walk' = [op |-> walk.op, n |-> m, size |-> walk.size, node |-> q]
        /\ walk'.op = walk.op /\ walk'.n = m /\ walk'.size = walk.size /\ walk'.node = q
    <3> HIDE DEF q, m
    <3>1. QED
      BY <1>2, <2>2
  <2>4. walk' \in Walks
    <3> HIDE DEF q, m
    <3>1. QED
      BY <1>1, <1>2, <2>1, <2>3, WalksSize
  <2>5. TypeOK'
    <3> HIDE DEF q, m
    <3>1. walk'.op # "element"
      BY <1>1, <2>3
    <3>2. QED
      BY <1>1, <2>2, <2>4, <3>1 DEF NInv, TypeOK, memory
  <2>6. Counting'
    <3> HIDE DEF q, m
    <3>1. walk'.op # "element"
      BY <1>1, <2>3
    <3>2. QED
      BY <3>1 DEF Counting
  <2>7. Following'
    <3>1. CASE walk.op = "size"
      <4>1. m <= MaxSize => walk.n \in Nat /\ walk.n <= MaxSize /\ m = walk.n + 1
        BY <1>1, <1>2
      <4>2. walk.node \in Cells
        BY <1>7 DEF Readable
      <4>3. m <= MaxSize => \E v : Follows(v, m) /\ q = v[m]
        <5> SUFFICES ASSUME m <= MaxSize PROVE \E v : Follows(v, m) /\ q = v[m]
          OBVIOUS
        <5>1. PICK w : Follows(w, walk.n) /\ walk.node = w[walk.n]
          BY <1>3, <3>1, <4>1
        <5>2. \E v : Follows(v, walk.n + 1) /\ v[walk.n + 1] = Read(w[walk.n], "next")
          BY <1>7, <4>1, <4>2, <5>1, FollowsExtends
        <5>3. QED
          BY <4>1, <5>1, <5>2
      <4> HIDE DEF q, m
      <4>4. Following' <=> (m <= MaxSize => \E v : Follows(v, m) /\ q = v[m])
        BY <1>1, <2>3, <3>1 DEF Following, Follows, AtEnd, Read, CountAsPointer, memory
      <4>5. QED
        BY <4>3, <4>4
    <3>2. CASE walk.op = "text"
      <4>1. PICK w : /\ Follows(w, walk.size) /\ AtEnd(w[walk.size])
                     /\ walk.n <= walk.size /\ walk.node = w[walk.n]
        BY <1>4, <3>2
      <4>2. walk.n # walk.size
        BY <1>7, <4>1
      <4>3. walk.n \in 0 .. walk.size - 1 /\ m = walk.n + 1 /\ m <= walk.size
        BY <1>1, <1>2, <4>1, <4>2
      <4>4. q = w[m]
        BY <4>1, <4>3 DEF Follows
      <4> HIDE DEF q, m
      <4>5. Following' <=> \E v : /\ Follows(v, walk.size) /\ AtEnd(v[walk.size])
                                  /\ m <= walk.size /\ q = v[m]
        BY <1>1, <2>3, <3>2 DEF Following, Follows, AtEnd, Read, CountAsPointer, memory
      <4>6. QED
        BY <4>1, <4>3, <4>4, <4>5
    <3>3. QED
      BY <1>1, <3>1, <3>2
  <2>8. QED
    BY <2>5, <2>6, <2>7 DEF NInv
<1>8. QED
  BY <1>5, <1>6, <1>7

(* Along a chain, to the element at the index *)
LEMMA ChainStepTypes ==
  ASSUME NInv, walk.op = "element", memory' = memory, kept' = kept, answer' = answer,
         kind # "libcxx_tree", walk.n # walk.index, NEW q \in Ptr,
         walk' = [op |-> "element", index |-> walk.index, n |-> walk.n + 1, node |-> q,
                  mode |-> walk.mode, stack |-> walk.stack]
  PROVE  NInv'
<1>1. walk.n + 1 \in 0 .. MaxSize - 1 /\ walk.n + 1 <= walk.index
  BY Further
<1>2. /\ walk.index \in 0 .. MaxSize - 1
      /\ walk.mode = "next" /\ walk.stack \in Seq(Frames)
      /\ Len(walk.stack) <= MaxStack
  BY ElementTypes
<1>4. walk' \in Walks
  BY <1>1, <1>2, WalksElement
<1>5. walk'.op = "element" /\ walk'.n = walk.n + 1 /\ walk'.index = walk.index
      /\ walk'.mode = "next" /\ walk'.stack = walk.stack
  BY <1>2
<1>6. QED
  BY <1>1, <1>2, <1>4, <1>5, ElementStepTypes

(* Lists *)
LEMMA ListElementTypes ==
  ASSUME NInv, ListElementStep
  PROVE  NInv'
<1>1. walk.op = "element" /\ memory' = memory /\ kind # "libcxx_tree" /\ Walking
  BY DEF ListElementStep, InElement, Walking
<1>2. CASE NotFound(walk.node)
  BY <1>1, <1>2, FailTypes DEF ListElementStep
<1>3. CASE ~NotFound(walk.node) /\ walk.n = walk.index
  BY <1>1, <1>3, ShowTypes DEF ListElementStep
<1>4. CASE ~NotFound(walk.node) /\ walk.n # walk.index /\ ~Readable(walk.node)
  BY <1>1, <1>4, FailTypes DEF ListElementStep
<1>5. CASE ~NotFound(walk.node) /\ walk.n # walk.index /\ Readable(walk.node)
  <2>1. Read(walk.node, "next") \in Ptr
    BY ReadType DEF NInv
  <2>2. walk' = [walk EXCEPT !.node = Read(walk.node, "next"), !.n = @ + 1]
        /\ kept' = kept /\ answer' = answer
    BY <1>5 DEF ListElementStep
  <2>3. walk' = [op |-> "element", index |-> walk.index, n |-> walk.n + 1,
                 node |-> Read(walk.node, "next"), mode |-> walk.mode, stack |-> walk.stack]
    BY <1>1, <2>2, ElementTypes
  <2>4. QED
    BY <1>1, <1>5, <2>1, <2>2, <2>3, ChainStepTypes
<1>6. QED
  BY <1>2, <1>3, <1>4, <1>5

(* Hash tables *)
LEMMA HashElementTypes ==
  ASSUME NInv, HashElementStep
  PROVE  NInv'
<1>1. walk.op = "element" /\ memory' = memory /\ kind # "libcxx_tree" /\ Walking
  BY DEF HashElementStep, InElement, Walking
<1>2. CASE walk.n = walk.index
  BY <1>1, <1>2, ShowTypes DEF HashElementStep
<1>3. CASE walk.n # walk.index /\ ~Readable(walk.node)
  BY <1>1, <1>3, FailTypes DEF HashElementStep
<1>4. CASE walk.n # walk.index /\ Readable(walk.node)
  <2>1. Read(walk.node, "next") \in Ptr
    BY ReadType DEF NInv
  <2>2. walk' = [walk EXCEPT !.node = Read(walk.node, "next"), !.n = @ + 1]
        /\ kept' = kept /\ answer' = answer
    BY <1>4 DEF HashElementStep
  <2>3. walk' = [op |-> "element", index |-> walk.index, n |-> walk.n + 1,
                 node |-> Read(walk.node, "next"), mode |-> walk.mode, stack |-> walk.stack]
    BY <1>1, <2>2, ElementTypes
  <2>4. QED
    BY <1>1, <1>4, <2>1, <2>2, <2>3, ChainStepTypes
<1>5. QED
  BY <1>2, <1>3, <1>4

(* The walk with another stack *)
LEMMA WithStack ==
  ASSUME NInv, walk.op = "element", NEW s \in Seq(Frames)
  PROVE  [walk EXCEPT !.stack = s] =
            [op |-> "element", index |-> walk.index, n |-> walk.n, node |-> walk.node,
             mode |-> walk.mode, stack |-> s]
<1>1. walk = [op |-> "element", index |-> walk.index, n |-> walk.n, node |-> walk.node,
              mode |-> walk.mode, stack |-> walk.stack]
      /\ walk.index \in 0 .. MaxSize - 1 /\ walk.n \in 0 .. MaxSize - 1 /\ walk.node \in Ptr
      /\ walk.mode \in {"next", "min", "climb"} /\ walk.stack \in Seq(Frames)
  BY ElementTypes
<1>2. QED
  BY SMTT(30), <1>1

(* The walk with another stack and another count *)
LEMMA WithCount ==
  ASSUME NInv, walk.op = "element", NEW n \in Int, NEW s \in Seq(Frames)
  PROVE  [walk EXCEPT !.n = n, !.stack = s] =
            [op |-> "element", index |-> walk.index, n |-> n, node |-> walk.node,
             mode |-> walk.mode, stack |-> s]
<1>1. walk = [op |-> "element", index |-> walk.index, n |-> walk.n, node |-> walk.node,
              mode |-> walk.mode, stack |-> walk.stack]
      /\ walk.index \in 0 .. MaxSize - 1 /\ walk.n \in 0 .. MaxSize - 1 /\ walk.node \in Ptr
      /\ walk.mode \in {"next", "min", "climb"} /\ walk.stack \in Seq(Frames)
  BY ElementTypes
<1> DEFINE u == [walk EXCEPT !.n = n]
<1>2. [walk EXCEPT !.n = n, !.stack = s] = [u EXCEPT !.stack = s]
  OBVIOUS
<1>3. u = [op |-> "element", index |-> walk.index, n |-> n, node |-> walk.node,
           mode |-> walk.mode, stack |-> walk.stack]
  BY <1>1
<1> HIDE DEF u
<1>4. [u EXCEPT !.stack = s] =
        [op |-> "element", index |-> walk.index, n |-> n, node |-> walk.node,
         mode |-> walk.mode, stack |-> s]
  BY <1>1, <1>3
<1>5. QED
  BY <1>2, <1>4

(* A step of the recursion changes the stack, and may count *)
LEMMA TreeStepTypes ==
  ASSUME NInv, InTree, memory' = memory, kept' = kept, answer' = answer,
         NEW s \in Seq(Frames), Len(s) <= MaxStack,
         NEW n \in {walk.n, walk.n + 1}, n # walk.n => walk.n # walk.index,
         walk' = [op |-> "element", index |-> walk.index, n |-> n, node |-> walk.node,
                  mode |-> walk.mode, stack |-> s]
  PROVE  NInv'
<1>1. walk.op = "element" /\ kind # "libcxx_tree"
  BY DEF InTree, InElement
<1>2. /\ walk.index \in 0 .. MaxSize - 1 /\ walk.node \in Ptr
      /\ walk.mode = "next" /\ walk.n \in 0 .. MaxSize - 1 /\ walk.n <= walk.index
  BY <1>1, ElementTypes
<1>3. n \in 0 .. MaxSize - 1 /\ n <= walk.index
  BY <1>1, <1>2, Further
<1>5. walk' \in Walks
  BY <1>2, <1>3, WalksElement
<1>6. walk'.op = "element" /\ walk'.n = n /\ walk'.index = walk.index
      /\ walk'.mode = "next" /\ walk'.stack = s
  BY <1>2
<1>7. QED
  BY <1>1, <1>3, <1>5, <1>6, ElementStepTypes

(* The frame on top, with another stage *)
LEMMA WithTopTypes ==
  ASSUME NInv, walk.op = "element", walk.stack # <<>>,
         NEW g \in {"left", "self", "right", "return"}
  PROVE  /\ Len(walk.stack) \in Nat /\ Len(walk.stack) \in 1 .. Len(walk.stack)
         /\ Top \in Frames
         /\ WithTop(g) \in Seq(Frames) /\ Len(WithTop(g)) = Len(walk.stack)
         /\ WithTop(g)[Len(walk.stack)] = [node |-> Top.node, stage |-> g]
         /\ \A i \in 1 .. Len(walk.stack) - 1 : WithTop(g)[i] = walk.stack[i]
<1> DEFINE s == walk.stack
           n == Len(s)
           f == [s[n] EXCEPT !.stage = g]
<1>1. s \in Seq(Frames) /\ s # <<>>
  BY ElementTypes
<1>2. WithTop(g) = [s EXCEPT ![n] = f] /\ Top = s[n]
  BY DEF WithTop, Top
<1> HIDE DEF s
<1>3. n \in Nat /\ n \in 1 .. n /\ DOMAIN s = 1 .. n /\ s[n] \in Frames
  BY <1>1
<1>4. f \in Frames /\ f = [node |-> s[n].node, stage |-> g]
  BY <1>3 DEF Frames
<1> HIDE DEF f
<1>5. [s EXCEPT ![n] = f] \in Seq(Frames) /\ Len([s EXCEPT ![n] = f]) = n
      /\ [s EXCEPT ![n] = f][n] = f /\ \A i \in 1 .. n - 1 : [s EXCEPT ![n] = f][i] = s[i]
  BY <1>1, <1>3, <1>4
<1>6. QED
  BY <1>2, <1>3, <1>4, <1>5 DEF s

(* A recursive call, or its absence *)
LEMMA CallTypes ==
  ASSUME NInv, InTree, walk.stack # <<>>, memory' = memory, kept' = kept, answer' = answer,
         NEW p \in Ptr, NEW g \in {"left", "self", "right", "return"}, CallFor(p, g)
  PROVE  NInv'
<1>1. walk.op = "element"
  BY DEF InTree, InElement
<1>2. \A s \in Seq(Frames) : [walk EXCEPT !.stack = s] =
               [op |-> "element", index |-> walk.index, n |-> walk.n, node |-> walk.node,
                mode |-> walk.mode, stack |-> s]
  BY <1>1, WithStack
<1>3. WithTop(g) \in Seq(Frames) /\ Len(WithTop(g)) = Len(walk.stack)
      /\ Len(walk.stack) \in Nat /\ Len(walk.stack) <= MaxStack
  BY <1>1, WithTopTypes, ElementTypes
<1>4. CASE p = Null
  BY <1>2, <1>3, <1>4, TreeStepTypes DEF CallFor
<1>5. CASE p # Null /\ Len(walk.stack) = MaxStack
  <2>1. walk' = [op |-> "crashed"]
    BY <1>5 DEF CallFor
  <2>2. walk' \in Walks /\ walk'.op = "crashed"
    BY <2>1 DEF Walks
  <2>3. TypeOK'
    BY <2>2 DEF NInv, TypeOK, memory
  <2>4. Counting' /\ Following'
    BY <2>2 DEF Counting, Following
  <2>5. QED
    BY <2>3, <2>4 DEF NInv
<1>6. CASE p # Null /\ Len(walk.stack) # MaxStack
  <2> DEFINE t == Append(WithTop(g), [node |-> p, stage |-> "left"])
  <2>1. walk' = [walk EXCEPT !.stack = t]
    BY <1>6 DEF CallFor
  <2>2. [node |-> p, stage |-> "left"] \in Frames
    BY DEF Frames
  <2>3. MaxStack \in Nat
    BY BoundsAssumption
  <2>4. t \in Seq(Frames) /\ Len(t) <= MaxStack
    <3>1. Len(t) = Len(walk.stack) + 1 /\ t \in Seq(Frames)
      BY <1>3, <2>2
    <3> HIDE DEF t
    <3>2. QED
      BY <1>3, <1>6, <2>3, <3>1
  <2> HIDE DEF t
  <2>5. QED
    BY <1>2, <2>1, <2>4, TreeStepTypes
<1>7. QED
  BY <1>4, <1>5, <1>6

(* The four steps of a call *)
LEMMA TreeTypes ==
  ASSUME NInv, TreeLeft \/ TreeSelf \/ TreeRight \/ TreeReturn \/ TreeNotFound
  PROVE  NInv'
<1>1. InTree /\ memory' = memory /\ walk.op = "element" /\ Walking
  BY DEF TreeLeft, TreeSelf, TreeRight, TreeReturn, TreeNotFound, InTree, InElement, Walking
<1>2. \A c, f : Read(c, f) \in Ptr
  BY ReadType DEF NInv
<1>4. CASE TreeLeft /\ Readable(Top.node)
  BY <1>1, <1>2, <1>4, CallTypes DEF TreeLeft
<1>5. CASE TreeLeft /\ ~Readable(Top.node)
  BY <1>1, <1>5, FailTypes DEF TreeLeft
<1>6. CASE TreeSelf /\ walk.n = walk.index
  BY <1>1, <1>6, ShowTypes DEF TreeSelf
<1>7. CASE TreeSelf /\ walk.n # walk.index
  <2>1. WithTop("right") \in Seq(Frames) /\ Len(WithTop("right")) = Len(walk.stack)
    BY <1>1, <1>7, WithTopTypes DEF TreeSelf
  <2>2. Len(walk.stack) <= MaxStack
    BY <1>1, ElementTypes
  <2>3. walk' = [walk EXCEPT !.n = walk.n + 1, !.stack = WithTop("right")]
        /\ kept' = kept /\ answer' = answer
    BY <1>7 DEF TreeSelf, AfterSelf
  <2>4. walk.n + 1 \in Int
    BY <1>1, ElementTypes
  <2>5. walk' = [op |-> "element", index |-> walk.index, n |-> walk.n + 1, node |-> walk.node,
                 mode |-> walk.mode, stack |-> WithTop("right")]
    <3>1. \A n \in Int : \A s \in Seq(Frames) : [walk EXCEPT !.n = n, !.stack = s] =
               [op |-> "element", index |-> walk.index, n |-> n, node |-> walk.node,
                mode |-> walk.mode, stack |-> s]
      BY <1>1, WithCount
    <3>2. QED
      BY <2>1, <2>3, <2>4, <3>1, Zenon
  <2>6. QED
    BY <1>1, <1>7, <2>1, <2>2, <2>3, <2>5, TreeStepTypes
<1>8. CASE TreeRight
  BY <1>1, <1>2, <1>8, CallTypes DEF TreeRight
<1>9. CASE TreeReturn
  <2> DEFINE s == walk.stack
             t == SubSeq(s, 1, Len(s) - 1)
  <2>1. s \in Seq(Frames) /\ Len(s) <= MaxStack /\ s # <<>> /\ MaxStack \in Nat
    BY <1>1, <1>9, ElementTypes, BoundsAssumption DEF TreeReturn
  <2>2. walk' = [walk EXCEPT !.stack = t] /\ kept' = kept /\ answer' = answer
    BY <1>9 DEF TreeReturn
  <2> HIDE DEF s
  <2>3. t \in Seq(Frames) /\ Len(t) <= MaxStack
    BY <2>1
  <2> HIDE DEF t
  <2>4. walk' = [op |-> "element", index |-> walk.index, n |-> walk.n, node |-> walk.node,
                 mode |-> walk.mode, stack |-> t]
    <3>1. \A u \in Seq(Frames) : [walk EXCEPT !.stack = u] =
               [op |-> "element", index |-> walk.index, n |-> walk.n, node |-> walk.node,
                mode |-> walk.mode, stack |-> u]
      BY <1>1, WithStack
    <3>2. QED
      BY <2>2, <2>3, <3>1, Zenon
  <2>5. QED
    BY <1>1, <2>2, <2>3, <2>4, TreeStepTypes
<1>10. CASE TreeNotFound
  BY <1>1, <1>10, FailTypes DEF TreeNotFound
<1>11. QED
  BY <1>4, <1>5, <1>6, <1>7, <1>8, <1>9, <1>10

(* A step of the iteration moves, changes its mode, and may count *)
LEMMA IterationStepTypes ==
  ASSUME NInv, InIteration, memory' = memory, kept' = kept, answer' = answer,
         NEW p \in Ptr, NEW n \in 0 .. MaxSize - 1, NEW m \in {"next", "min", "climb"},
         n <= walk.index, m # "next" => n < walk.index,
         walk' = [op |-> "element", index |-> walk.index, n |-> n, node |-> p,
                  mode |-> m, stack |-> walk.stack]
  PROVE  NInv'
<1>1. walk.op = "element" /\ kind = "libcxx_tree"
  BY DEF InIteration, InElement
<1>2. walk.index \in 0 .. MaxSize - 1 /\ walk.stack \in Seq(Frames) /\ Len(walk.stack) <= MaxStack
  BY <1>1, ElementTypes
<1>3. walk' \in Walks
  BY <1>2, WalksElement
<1>4. walk'.op = "element" /\ walk'.n = n /\ walk'.index = walk.index
      /\ walk'.mode = m /\ walk'.stack = walk.stack
  OBVIOUS
<1>5. QED
  BY <1>1, <1>2, <1>3, <1>4, ElementStepTypes

(* What such a step does to the record *)
LEMMA IterationRecord ==
  ASSUME NInv, InIteration, NEW p \in Ptr
  PROVE  /\ [walk EXCEPT !.node = p] =
               [op |-> "element", index |-> walk.index, n |-> walk.n, node |-> p,
                mode |-> walk.mode, stack |-> walk.stack]
         /\ [walk EXCEPT !.mode = "climb"] =
               [op |-> "element", index |-> walk.index, n |-> walk.n, node |-> walk.node,
                mode |-> "climb", stack |-> walk.stack]
<1>1. walk = [op |-> "element", index |-> walk.index, n |-> walk.n, node |-> walk.node,
              mode |-> walk.mode, stack |-> walk.stack]
      /\ walk.index \in 0 .. MaxSize - 1 /\ walk.n \in 0 .. MaxSize - 1 /\ walk.node \in Ptr
      /\ walk.mode \in {"next", "min", "climb"} /\ walk.stack \in Seq(Frames)
  BY ElementTypes DEF InIteration, InElement
<1>2. [walk EXCEPT !.node = p] =
               [op |-> "element", index |-> walk.index, n |-> walk.n, node |-> p,
                mode |-> walk.mode, stack |-> walk.stack]
  BY <1>1
<1>3. [walk EXCEPT !.mode = "climb"] =
               [op |-> "element", index |-> walk.index, n |-> walk.n, node |-> walk.node,
                mode |-> "climb", stack |-> walk.stack]
  BY <1>1
<1>4. QED
  BY <1>2, <1>3

(* The step into the right subtree *)
LEMMA IterationMin ==
  ASSUME NInv, InIteration, NEW p \in Ptr
  PROVE  [walk EXCEPT !.mode = "min", !.node = p] =
               [op |-> "element", index |-> walk.index, n |-> walk.n, node |-> p,
                mode |-> "min", stack |-> walk.stack]
<1>1. walk = [op |-> "element", index |-> walk.index, n |-> walk.n, node |-> walk.node,
              mode |-> walk.mode, stack |-> walk.stack]
      /\ walk.index \in 0 .. MaxSize - 1 /\ walk.n \in 0 .. MaxSize - 1 /\ walk.node \in Ptr
      /\ walk.mode \in {"next", "min", "climb"} /\ walk.stack \in Seq(Frames)
  BY ElementTypes DEF InIteration, InElement
<1> DEFINE u == [walk EXCEPT !.mode = "min"]
<1>2. [walk EXCEPT !.mode = "min", !.node = p] = [u EXCEPT !.node = p]
  OBVIOUS
<1>3. u = [op |-> "element", index |-> walk.index, n |-> walk.n, node |-> walk.node,
           mode |-> "min", stack |-> walk.stack]
  BY <1>1
<1> HIDE DEF u
<1>4. [u EXCEPT !.node = p] =
               [op |-> "element", index |-> walk.index, n |-> walk.n, node |-> p,
                mode |-> "min", stack |-> walk.stack]
  BY <1>1, <1>3
<1>5. QED
  BY <1>2, <1>4

(* The step that has found the next element *)
LEMMA IterationArrive ==
  ASSUME NInv, InIteration, NEW p \in Ptr, Arrive(p)
  PROVE  walk' = [op |-> "element", index |-> walk.index, n |-> walk.n + 1, node |-> p,
                  mode |-> "next", stack |-> walk.stack]
<1>1. walk = [op |-> "element", index |-> walk.index, n |-> walk.n, node |-> walk.node,
              mode |-> walk.mode, stack |-> walk.stack]
      /\ walk.index \in 0 .. MaxSize - 1 /\ walk.n \in 0 .. MaxSize - 1 /\ walk.node \in Ptr
      /\ walk.mode \in {"next", "min", "climb"} /\ walk.stack \in Seq(Frames)
  BY ElementTypes DEF InIteration, InElement
<1>0. walk.n + 1 \in Int
  BY <1>1
<1> DEFINE k == walk.n + 1
           u == [walk EXCEPT !.node = p]
           v == [u EXCEPT !.n = k]
<1>2. walk' = [v EXCEPT !.mode = "next"]
  BY DEF Arrive
<1> HIDE DEF k
<1>3. u = [op |-> "element", index |-> walk.index, n |-> walk.n, node |-> p,
           mode |-> walk.mode, stack |-> walk.stack]
  BY <1>1
<1> HIDE DEF u
<1>4. v = [op |-> "element", index |-> walk.index, n |-> k, node |-> p,
           mode |-> walk.mode, stack |-> walk.stack]
  BY <1>0, <1>1, <1>3 DEF k
<1> HIDE DEF v
<1>5. [v EXCEPT !.mode = "next"] =
          [op |-> "element", index |-> walk.index, n |-> k, node |-> p,
           mode |-> "next", stack |-> walk.stack]
  BY <1>0, <1>1, <1>4 DEF k
<1>6. QED
  BY <1>2, <1>5 DEF k

(* tree_next *)
LEMMA IterationTypes ==
  ASSUME NInv, NextStep \/ MinStep \/ ClimbStep
  PROVE  NInv'
<1>1. InIteration /\ memory' = memory /\ walk.op = "element" /\ Walking
  BY DEF NextStep, MinStep, ClimbStep, InIteration, InElement, Walking
<1>2. \A c, f : Read(c, f) \in Ptr
  BY ReadType DEF NInv
<1>3. walk.n \in 0 .. MaxSize - 1 /\ walk.n <= walk.index /\ walk.node \in Ptr
      /\ (walk.mode # "next" => walk.n < walk.index) /\ walk.index \in 0 .. MaxSize - 1
      /\ walk.mode \in {"next", "min", "climb"}
  BY <1>1, ElementTypes
<1>4. \A p \in Ptr : walk.n < walk.index /\ kept' = kept /\ answer' = answer /\ Arrive(p) => NInv'
  <2> SUFFICES ASSUME NEW p \in Ptr, walk.n < walk.index, kept' = kept, answer' = answer, Arrive(p)
               PROVE  NInv'
    OBVIOUS
  <2>1. walk.n + 1 \in 0 .. MaxSize - 1 /\ walk.n + 1 <= walk.index
    BY <1>1, <1>3, Further
  <2>2. walk' = [op |-> "element", index |-> walk.index, n |-> walk.n + 1, node |-> p,
                  mode |-> "next", stack |-> walk.stack]
    BY <1>1, IterationArrive
  <2>3. QED
    BY <1>1, <2>1, <2>2, IterationStepTypes
<1>5. \A p \in Ptr : walk.mode # "next" /\ kept' = kept /\ answer' = answer
                     /\ walk' = [walk EXCEPT !.node = p] => NInv'
  <2> SUFFICES ASSUME NEW p \in Ptr, walk.mode # "next", kept' = kept, answer' = answer,
                      walk' = [walk EXCEPT !.node = p]
               PROVE  NInv'
    OBVIOUS
  <2>1. walk' = [op |-> "element", index |-> walk.index, n |-> walk.n, node |-> p,
                mode |-> walk.mode, stack |-> walk.stack]
    BY <1>1, IterationRecord
  <2>2. QED
    BY <1>1, <1>3, <2>1, IterationStepTypes
<1>6. CASE NextStep
  <2>1. CASE walk.n = walk.index
    BY <1>1, <1>6, <2>1, ShowTypes DEF NextStep
  <2>2. CASE walk.n # walk.index /\ ~Readable(walk.node)
    BY <1>1, <1>6, <2>2, FailTypes DEF NextStep
  <2>3. CASE walk.n # walk.index /\ Readable(walk.node)
    <3>1. walk.n < walk.index /\ kept' = kept /\ answer' = answer
      BY <1>3, <1>6, <2>3 DEF NextStep
    <3>2. CASE Read(walk.node, "right") = Null
      <4>1. walk' = [walk EXCEPT !.mode = "climb"]
        BY <1>6, <2>3, <3>2 DEF NextStep
      <4>2. walk' = [op |-> "element", index |-> walk.index, n |-> walk.n, node |-> walk.node,
                mode |-> "climb", stack |-> walk.stack]
        BY <1>1, <1>3, <4>1, IterationRecord
      <4>3. QED
        BY <1>1, <1>3, <3>1, <4>2, IterationStepTypes
    <3>3. CASE Read(walk.node, "right") # Null
      <4>1. walk' = [walk EXCEPT !.mode = "min", !.node = Read(walk.node, "right")]
        BY <1>6, <2>3, <3>3 DEF NextStep
      <4>2. walk' = [op |-> "element", index |-> walk.index, n |-> walk.n,
                     node |-> Read(walk.node, "right"), mode |-> "min", stack |-> walk.stack]
        BY <1>1, <1>2, <4>1, IterationMin
      <4>3. QED
        BY <1>1, <1>2, <1>3, <3>1, <4>2, IterationStepTypes
    <3>4. QED
      BY <3>2, <3>3
  <2>4. QED
    BY <2>1, <2>2, <2>3
<1>7. CASE MinStep
  <2>1. CASE ~Readable(walk.node)
    BY <1>1, <1>7, <2>1, FailTypes DEF MinStep
  <2>2. CASE Readable(walk.node)
    <3>1. walk.mode # "next" /\ walk.n < walk.index /\ kept' = kept /\ answer' = answer
      BY <1>3, <1>7, <2>2 DEF MinStep
    <3>2. CASE Read(walk.node, "left") = Null
      BY <1>3, <1>4, <1>7, <2>2, <3>1, <3>2 DEF MinStep
    <3>3. CASE Read(walk.node, "left") # Null
      BY <1>2, <1>5, <1>7, <2>2, <3>1, <3>3 DEF MinStep
    <3>4. QED
      BY <3>2, <3>3
  <2>3. QED
    BY <2>1, <2>2
<1>8. CASE ClimbStep
  <2> DEFINE up == Read(walk.node, "parent")
  <2>1. CASE ~Readable(walk.node) \/ ~Readable(up)
    BY <1>1, <1>8, <2>1, FailTypes DEF ClimbStep
  <2>2. CASE Readable(walk.node) /\ Readable(up)
    <3>1. walk.mode # "next" /\ walk.n < walk.index /\ kept' = kept /\ answer' = answer
      BY <1>3, <1>8, <2>2 DEF ClimbStep
    <3>2. CASE IsLeftChild(walk.node)
      BY <1>2, <1>4, <1>8, <2>2, <3>1, <3>2 DEF ClimbStep
    <3>3. CASE ~IsLeftChild(walk.node)
      BY <1>2, <1>5, <1>8, <2>2, <3>1, <3>3 DEF ClimbStep
    <3>4. QED
      BY <3>2, <3>3
  <2>3. QED
    BY <2>1, <2>2
<1>9. QED
  BY <1>6, <1>7, <1>8

(* The debuggee runs, while nothing is being formatted *)
LEMMA RunTypes ==
  ASSUME NInv, Rebuild \/ Damage
  PROVE  NInv'
<1>1. walk.op = "none" /\ walk' = walk /\ answer' = NoAnswer /\ kept' = kept /\ kind' = kind
      /\ changes' = changes + 1 /\ changes < MaxChanges /\ intact' \in BOOLEAN
  BY DEF Rebuild, Damage
<1>2. kind \in Kinds /\ link \in [Links(kind) -> Ptr] /\ count \in Nat /\ contents \in Seq(Nodes)
      /\ changes' \in 0 .. MaxChanges
  <2>1. changes \in 0 .. MaxChanges /\ MaxChanges \in Nat
    BY BoundsAssumption DEF NInv, TypeOK
  <2>2. QED
    BY <1>1, <2>1 DEF NInv, TypeOK
<1>3. link' \in [Links(kind) -> Ptr] /\ count' \in Nat /\ contents' \in Seq(Nodes)
  <2>1. CASE Rebuild
    <3>1. PICK m \in IntactMemory(kind) : link' = m.link /\ contents' = m.contents /\ count' = Len(m.contents)
      BY <2>1 DEF Rebuild
    <3>2. AsLeft(kind, m.link, m.contents)
      BY <1>2, IntactFacts
    <3>3. QED
      BY <1>2, <3>1, <3>2, AsLeftType
  <2>2. CASE Damage
    <3>1. MaxSize \in Nat /\ contents' = contents
      BY <2>2, BoundsAssumption DEF Damage
    <3>2. ASSUME NEW l \in DOMAIN link, NEW p \in Ptr, link' = [link EXCEPT ![l] = p], count' = count
          PROVE  link' \in [Links(kind) -> Ptr] /\ count' \in Nat
      BY <1>2, <3>2
    <3>3. ASSUME NEW n \in 0 .. MaxSize + 1, count' = n, link' = link
          PROVE  link' \in [Links(kind) -> Ptr] /\ count' \in Nat
      BY <1>2, <3>1, <3>3
    <3>4. QED
      BY <1>2, <2>2, <3>1, <3>2, <3>3 DEF Damage
  <2>3. QED
    BY <2>1, <2>2
<1>4. TypeOK'
  BY <1>1, <1>2, <1>3 DEF NInv, TypeOK, Answers
<1>5. Counting' /\ Following'
  BY <1>1 DEF Counting, Following
<1>6. QED
  BY <1>4, <1>5 DEF NInv

(* The first states *)
LEMMA InitTypes ==
  ASSUME Init
  PROVE  NInv
<1>1. PICK m \in IntactMemory(kind) : link = m.link /\ contents = m.contents /\ count = Len(m.contents)
  BY DEF Init
<1>2. AsLeft(kind, m.link, m.contents) /\ kind \in Kinds
  BY IntactFacts DEF Init
<1>3. link \in [Links(kind) -> Ptr] /\ count \in Nat /\ contents \in Seq(Nodes)
  BY <1>1, <1>2, AsLeftType
<1>4. walk = NoWalk /\ walk.op = "none" /\ walk \in Walks /\ answer \in Answers
  BY DEF Init, NoWalk, Walks, Answers
<1>5. TypeOK
  BY <1>3, <1>4, BoundsAssumption DEF Init, TypeOK
<1>6. QED
  BY <1>4, <1>5 DEF NInv, Counting, Following

(* The types are kept by every step *)
LEMMA StepTypes ==
  ASSUME NInv, [Next]_vars
  PROVE  NInv'
<1>1. CASE vars' = vars
  <2>1. TypeOK'
    BY <1>1 DEF NInv, TypeOK, vars
  <2>2. Counting'
    BY <1>1 DEF NInv, Counting, vars
  <2>3. Following'
    BY <1>1 DEF NInv, Following, Follows, AtEnd, Read, CountAsPointer, vars
  <2>4. QED
    BY <2>1, <2>2, <2>3 DEF NInv
<1>2. CASE Next
  BY <1>2, FormatTypes, ExpandTypes, ReadCountTypes, SizeStepTypes, ListElementTypes,
     HashElementTypes, TreeTypes, IterationTypes, RunTypes DEF Next, Step
<1>3. QED
  BY <1>1, <1>2

(* No size above max_container_size is ever shown or kept, and no walk     *)
(* counts beyond the index asked for, over any memory: the check of the    *)
(* size in container_formatter::format covers the second walk because that *)
(* walk meets the same cells.                                              *)
THEOREM NodeTypeCorrect == Spec => []TypeOK
<1>1. Init => NInv
  BY InitTypes
<1>2. NInv /\ [Next]_vars => NInv'
  BY StepTypes
<1>3. NInv => TypeOK
  BY DEF NInv
<1>4. QED
  BY <1>1, <1>2, <1>3, PTL DEF Spec

-----------------------------------------------------------------------------
(* What the walks find in memory as the library leaves it *)

(* A container that has not been damaged *)
Shape ==
    /\ intact => AsLeft(kind, link, contents) /\ count = Len(contents)
    /\ changes = 0 => intact

(* The walks for the size: the node reached after n steps *)
SizeFinds ==
    /\ intact /\ walk.op = "size" /\ ~Counted(kind) =>
            IF walk.n <= MaxSize
            THEN walk.n <= Len(contents) /\ walk.node = NodeAt(kind, contents, walk.n)
            ELSE Len(contents) > MaxSize
    /\ intact /\ walk.op = "text" =>
            /\ walk.size = Len(contents)
            /\ ~Counted(kind) => /\ walk.n <= Len(contents)
                                 /\ walk.node = NodeAt(kind, contents, walk.n)
    /\ changes = 0 => kept \in {NoResult, Len(contents)}

(* The walks along a chain for an element *)
ChainFinds ==
    intact /\ walk.op = "element" /\ kind \in Chains =>
        walk.n <= Len(contents) /\ walk.node = NodeAt(kind, contents, walk.n)

LeastOf(x, T)    == x \in T /\ \A y \in T : x <= y
GreatestOf(x, T) == x \in T /\ \A y \in T : y <= x

(* Where the call on top of the recursion is, when n nodes have been met *)
Reached(age, frame, n) ==
    CASE frame.stage = "left" ->
            n < Len(contents) /\ LeastOf(contents[n + 1], Subtree(age, frame.node))
      [] frame.stage = "self" -> n < Len(contents) /\ contents[n + 1] = frame.node
      [] frame.stage = "right" -> 0 < n /\ n <= Len(contents) /\ contents[n] = frame.node
      [] OTHER ->
            0 < n /\ n <= Len(contents) /\ GreatestOf(contents[n], Subtree(age, frame.node))

(* A call and the call it has made *)
Calls(age, frame, called) ==
    \/ frame.stage = "self" /\ called.node = LeftOf(age, frame.node)
    \/ frame.stage = "return" /\ called.node = RightOf(age, frame.node)

(* The calls that are waiting: one below the other in the tree *)
Stacked(S, age, st) ==
    /\ \A i \in 1 .. Len(st) : st[i].node \in S
    /\ st # <<>> => st[1].node = Oldest(age, S)
    /\ \A i \in 1 .. Len(st) - 1 : Calls(age, st[i], st[i + 1])

Recursion(S, age) ==
    IF S = {} THEN walk.stack = <<[node |-> Null, stage |-> "left"]>>
    ELSE /\ Stacked(S, age, walk.stack)
         /\ IF walk.stack = <<>> THEN walk.n = Len(contents) ELSE Reached(age, Top, walk.n)

(* Where the iteration is; beyond the last element it is lost *)
Iteration(S, age) ==
    walk.index < Len(contents) =>
        CASE walk.mode = "next" -> walk.node = contents[walk.n + 1]
          [] walk.mode = "min"  -> /\ walk.node \in S
                                   /\ LeastOf(contents[walk.n + 2], Subtree(age, walk.node))
          [] OTHER -> /\ walk.node \in S
                      /\ GreatestOf(contents[walk.n + 1], Subtree(age, walk.node))

(* For each tree that memory may be *)
TreeFinds ==
    intact /\ walk.op = "element" /\ kind \in TreeKinds =>
        \A S \in SUBSET Nodes : \A age \in Ages(S) : \A junk \in Ptr :
            contents = Sorted(S) /\ link = Tree(kind, age, junk) =>
                /\ kind = "stdcpp_tree" => Recursion(S, age)
                /\ kind = "libcxx_tree" => Iteration(S, age)

Finds == SizeFinds /\ ChainFinds /\ TreeFinds

Right == SizeAgrees /\ ElementsAgree /\ StaleChildFails

FInv == NInv /\ Shape /\ Finds /\ Right

(* Reading does not change what is read *)
LEMMA ShapeKept ==
  ASSUME Shape, memory' = memory
  PROVE  Shape'
BY DEF Shape, memory

(* What an answer says about the container does not change until the       *)
(* debuggee runs                                                           *)
LEMMA RightKept ==
  ASSUME Right, memory' = memory, answer' = answer
  PROVE  Right'
BY DEF Right, SizeAgrees, ElementsAgree, StaleChildFails, Size, memory

(* An error is right for a container that is too large, or has too few     *)
(* elements                                                                *)
LEMMA FailRight ==
  ASSUME NInv, Walking, Fail, memory' = memory,
         intact /\ walk.op # "element" => ~(Len(contents) <= MaxSize),
         intact /\ walk.op = "element" => walk.index >= Len(contents)
  PROVE  Right'
<1>1. walk.op \in {"size", "text", "element"}
  BY WalkTypes DEF NInv, TypeOK, Walking
<1>2. answer' = [what |-> "error", op |-> walk.op,
                 index |-> IF walk.op = "element" THEN walk.index ELSE 0]
  BY DEF Fail, Error
<1>3. answer'.what = "error" /\ answer'.op = walk.op
      /\ (walk.op = "element" => answer'.index = walk.index)
  BY <1>2
<1>4. intact' = intact /\ contents' = contents /\ changes' = changes
  BY DEF memory
<1>5. SizeAgrees'
  BY <1>1, <1>3, <1>4 DEF SizeAgrees
<1>6. ElementsAgree'
  BY <1>1, <1>3, <1>4 DEF ElementsAgree
<1>7. StaleChildFails'
  BY <1>3 DEF StaleChildFails
<1>8. QED
  BY <1>5, <1>6, <1>7 DEF Right

(* An element is right where the library's iteration would find it *)
LEMMA ShowRight ==
  ASSUME NInv, walk.op = "element", NEW c, Show(c), memory' = memory,
         intact /\ walk.index < Len(contents) => c \in Cells /\ c = contents[walk.index + 1],
         intact /\ c \in Cells /\ kind # "libcxx_tree" => \E i \in DOMAIN contents : c = contents[i]
  PROVE  Right'
<1>1. Len(contents) \in Nat /\ walk.index \in 0 .. MaxSize - 1 /\ Walking /\ MaxSize \in Nat
  BY ElementTypes DEF NInv, TypeOK
<1>2. intact' = intact /\ contents' = contents /\ changes' = changes /\ kind' = kind
  BY DEF memory
<1>3. CASE c \in Cells
  <2>1. answer' = [what |-> "element", cell |-> c, index |-> walk.index]
    BY <1>3 DEF Show, Element, Readable
  <2>2. answer'.what = "element" /\ answer'.cell = c /\ answer'.index = walk.index
    BY <2>1
  <2>3. SizeAgrees'
    BY <2>2 DEF SizeAgrees
  <2>4. ElementsAgree'
    BY <1>2, <2>2 DEF ElementsAgree
  <2>5. StaleChildFails'
    BY <1>2, <1>3, <2>2 DEF StaleChildFails
  <2>6. QED
    BY <2>3, <2>4, <2>5 DEF Right
<1>4. CASE c \notin Cells
  <2>1. Fail
    BY <1>4 DEF Show, Readable
  <2>2. intact => walk.index >= Len(contents)
    BY <1>1, <1>4
  <2>3. QED
    BY <1>1, <2>1, <2>2, FailRight
<1>5. QED
  BY <1>3, <1>4

(* An end of a walk *)
LEMMA QuietFinds ==
  ASSUME FInv, NInv', memory' = memory, walk' = NoWalk, kept' \in {kept, NoResult}, Right'
  PROVE  FInv'
<1>1. walk'.op = "none"
  BY DEF NoWalk
<1>2. intact' = intact /\ contents' = contents /\ changes' = changes
  BY DEF memory
<1>3. changes' = 0 => kept' \in {NoResult, Len(contents')}
  BY <1>2 DEF FInv, Finds, SizeFinds
<1>4. Finds'
  BY <1>1, <1>3 DEF Finds, SizeFinds, ChainFinds, TreeFinds
<1>5. Shape'
  BY ShapeKept DEF FInv
<1>6. QED
  BY <1>4, <1>5 DEF FInv

(* An end with an error *)
LEMMA FailFinds ==
  ASSUME FInv, Walking, Fail, memory' = memory,
         intact /\ walk.op # "element" => ~(Len(contents) <= MaxSize),
         intact /\ walk.op = "element" => walk.index >= Len(contents)
  PROVE  FInv'
<1>1. NInv' /\ Right'
  BY FailTypes, FailRight DEF FInv
<1>2. walk' = NoWalk /\ kept' \in {kept, NoResult}
  BY DEF Fail
<1>3. QED
  BY <1>1, <1>2, QuietFinds

(* An end with an element *)
LEMMA ShowFinds ==
  ASSUME FInv, walk.op = "element", NEW c, Show(c), memory' = memory,
         intact /\ walk.index < Len(contents) => c \in Cells /\ c = contents[walk.index + 1],
         intact /\ c \in Cells /\ kind # "libcxx_tree" => \E i \in DOMAIN contents : c = contents[i]
  PROVE  FInv'
<1>1. NInv' /\ Right'
  BY ShowTypes, ShowRight DEF FInv
<1>2. walk' = NoWalk /\ kept' \in {kept, NoResult}
  BY DEF Show, Fail
<1>3. QED
  BY <1>1, <1>2, QuietFinds

(* The contents of a container *)
LEMMA ContentsTypes ==
  ASSUME FInv
  PROVE  /\ kind \in Kinds /\ contents \in Seq(Nodes) /\ Len(contents) \in Nat /\ DOMAIN contents = 1 .. Len(contents)
         /\ \A i \in 1 .. Len(contents) : contents[i] \in Nodes /\ contents[i] \in Cells
         /\ MaxSize \in Nat
BY BoundsAssumption DEF FInv, NInv, TypeOK, Cells

(* The links of an intact chain lead from each position to the next *)
LEMMA ChainReads ==
  ASSUME FInv, intact, kind \in Chains
  PROVE  /\ link[<<Header, "next">>] = NodeAt(kind, contents, 0)
         /\ \A n \in 0 .. Len(contents) - 1 :
               /\ NodeAt(kind, contents, n) = contents[n + 1]
               /\ Read(NodeAt(kind, contents, n), "next") = NodeAt(kind, contents, n + 1)
         /\ NodeAt(kind, contents, Len(contents)) = EndOf(kind)
<1>1. PICK S \in SUBSET Nodes : contents = Sorted(S) /\ link = Chain(kind, contents)
  BY DEF FInv, Shape, AsLeft
<1>2. contents \in Seq(Nodes) /\ Len(contents) \in Nat
      /\ \A i, j \in 1 .. Len(contents) : i < j => contents[i] < contents[j]
  BY <1>1, SortedFacts
<1>3. /\ link \in [Links(kind) -> Ptr]
      /\ link[<<Header, "next">>] = NodeAt(kind, contents, 0)
      /\ \A i \in 1 .. Len(contents) : /\ <<contents[i], "next">> \in Links(kind)
                                       /\ link[<<contents[i], "next">>] = NodeAt(kind, contents, i)
  BY <1>1, <1>2, ChainLinks
<1>4. \A n \in 0 .. Len(contents) - 1 : /\ n + 1 \in 1 .. Len(contents)
                                        /\ NodeAt(kind, contents, n) = contents[n + 1]
  BY <1>2 DEF NodeAt
<1>5. \A i \in 1 .. Len(contents) : Read(contents[i], "next") = link[<<contents[i], "next">>]
  BY <1>3 DEF Read
<1>6. NodeAt(kind, contents, Len(contents)) = EndOf(kind)
  BY <1>2 DEF NodeAt
<1>7. QED
  BY <1>3, <1>4, <1>5, <1>6

(* The nodes are not the end of a chain *)
LEMMA ChainEnds ==
  ASSUME FInv
  PROVE  /\ kind \in {"list", "forward_list"} => \A c \in Nodes : ~AtEnd(c)
         /\ kind \in Chains => AtEnd(EndOf(kind)) /\ EndOf(kind) \notin Nodes
         /\ kind \in {"forward_list", "hash"} => EndOf(kind) \notin Cells
<1>1. Header \notin Nodes /\ Null \notin Cells /\ Nodes \subseteq Cells
  BY NodesAssumption DEF Cells
<1>2. QED
  BY <1>1 DEF AtEnd, EndOf, Chains

(* Formatting starts at the first node *)
LEMMA FormatFinds ==
  ASSUME FInv, Format
  PROVE  FInv'
<1>1. memory' = memory /\ answer' = NoAnswer /\ kept' = kept /\ walk' = SizeWalk("size")
  BY DEF Format
<1>2. NInv' /\ Shape'
  BY FormatTypes, ShapeKept, <1>1 DEF FInv
<1>3. walk'.op = "size" /\ walk'.n = 0 /\ (~Counted(kind) => walk'.node = link[<<Header, "next">>])
  BY <1>1 DEF SizeWalk
<1>4. intact' = intact /\ contents' = contents /\ changes' = changes /\ kind' = kind
  BY <1>1 DEF memory
<1>5. SizeFinds'
  <2>1. Len(contents) \in Nat /\ kind \in Kinds /\ 0 <= MaxSize /\ 0 <= Len(contents)
    BY ContentsTypes
  <2>2. ~Counted(kind) => kind \in Chains
    BY <2>1, BoundsAssumption DEF Counted, Chains
  <2>3. intact /\ ~Counted(kind) => walk'.node = NodeAt(kind, contents, 0)
    BY <1>3, <2>2, ChainReads
  <2>4. changes = 0 => kept \in {NoResult, Len(contents)}
    BY DEF FInv, Finds, SizeFinds
  <2>5. QED
    BY <1>1, <1>3, <1>4, <2>1, <2>3, <2>4 DEF SizeFinds
<1>6. ChainFinds' /\ TreeFinds'
  BY <1>3 DEF ChainFinds, TreeFinds
<1>7. Right'
  BY <1>1 DEF Right, SizeAgrees, ElementsAgree, StaleChildFails, NoAnswer
<1>8. QED
  BY <1>2, <1>5, <1>6, <1>7 DEF FInv, Finds

(* A size found in an intact container is its size *)
LEMMA SizeKnownFinds ==
  ASSUME FInv, NInv', InSize, NEW sz \in Nat, SizeKnown(sz), memory' = memory,
         intact /\ sz <= MaxSize => sz = Len(contents),
         intact /\ ~(sz <= MaxSize) => ~(Len(contents) <= MaxSize),
         intact /\ walk.op = "text" => sz = Len(contents)
  PROVE  FInv'
<1>1. (walk.op = "size" \/ walk.op = "text") /\ Walking /\ walk.op # "element"
  BY DEF InSize, Walking
<1>2. intact' = intact /\ contents' = contents /\ changes' = changes /\ kind' = kind
  BY DEF memory
<1>3. Len(contents) \in Nat /\ kind \in Kinds /\ MaxSize \in Nat
  BY ContentsTypes
<1>4. Shape' /\ (changes = 0 => intact)
  BY ShapeKept DEF FInv, Shape
<1>5. intact /\ walk.op = "text" => walk.size = Len(contents)
  BY DEF FInv, Finds, SizeFinds
<1>6. CASE walk.op = "text"
  <2>1. answer' = Size(sz) /\ kept' = walk.size /\ walk' = NoWalk
    BY <1>6 DEF SizeKnown
  <2>2. answer'.what = "size" /\ (intact => answer' = Size(Len(contents)))
    BY <1>6, <2>1 DEF Size
  <2>3. Right'
    BY <1>2, <2>2 DEF Right, SizeAgrees, ElementsAgree, StaleChildFails, Size
  <2>4. walk'.op = "none"
    BY <2>1 DEF NoWalk
  <2>5. Finds'
    BY <1>2, <1>4, <1>5, <1>6, <2>1, <2>4 DEF Finds, SizeFinds, ChainFinds, TreeFinds
  <2>6. QED
    BY <1>4, <2>3, <2>5 DEF FInv
<1>7. CASE walk.op = "size" /\ CheckSize(sz)
  <2>1. ~(sz <= MaxSize) /\ Fail
    BY <1>3, <1>7 DEF CheckSize, SizeKnown
  <2>2. QED
    BY <1>1, <2>1, FailFinds
<1>8. CASE walk.op = "size" /\ ~CheckSize(sz)
  <2>1. sz <= MaxSize
    BY <1>3, <1>8 DEF CheckSize
  <2>2. walk' = [SizeWalk("text") EXCEPT !.size = sz] /\ kept' = kept /\ answer' = answer
    BY <1>8 DEF SizeKnown
  <2>3. walk'.op = "text" /\ walk'.n = 0 /\ walk'.size = sz
        /\ (~Counted(kind) => walk'.node = link[<<Header, "next">>])
    BY <2>2 DEF SizeWalk
  <2>4. ~Counted(kind) => kind \in Chains
    BY <1>3, BoundsAssumption DEF Counted, Chains
  <2>5. intact /\ ~Counted(kind) => walk'.node = NodeAt(kind, contents, 0)
    BY <2>3, <2>4, ChainReads
  <2>6. changes = 0 => kept \in {NoResult, Len(contents)}
    BY DEF FInv, Finds, SizeFinds
  <2>7. SizeFinds'
    BY <1>2, <1>3, <2>1, <2>2, <2>3, <2>5, <2>6 DEF SizeFinds
  <2>8. ChainFinds' /\ TreeFinds'
    BY <2>3 DEF ChainFinds, TreeFinds
  <2>9. Right'
    BY <2>2, RightKept DEF FInv
  <2>10. QED
    BY <1>4, <2>7, <2>8, <2>9 DEF FInv, Finds
<1>9. QED
  BY <1>1, <1>6, <1>7, <1>8

(* The size that is stored *)
LEMMA ReadCountFinds ==
  ASSUME FInv, ReadCount
  PROVE  FInv'
<1>1. InSize /\ SizeKnown(count) /\ memory' = memory /\ count \in Nat
  BY DEF ReadCount, CountedSize, FInv, NInv, TypeOK
<1>2. intact => count = Len(contents)
  BY DEF FInv, Shape
<1>3. NInv'
  BY ReadCountTypes DEF FInv
<1>4. QED
  BY <1>1, <1>2, <1>3, SizeKnownFinds

(* The size that is counted *)
LEMMA SizeStepFinds ==
  ASSUME FInv, SizeStep
  PROVE  FInv'
<1>1. InSize /\ ~Counted(kind) /\ memory' = memory /\ Walking /\ walk.op # "element"
      /\ (walk.op = "size" \/ walk.op = "text")
  BY DEF SizeStep, InSize, Walking
<1>2. NInv' /\ Shape'
  BY <1>1, SizeStepTypes, ShapeKept DEF FInv
<1>3. /\ walk = [op |-> walk.op, n |-> walk.n, size |-> walk.size, node |-> walk.node]
      /\ walk.n \in 0 .. MaxSize + 1 /\ walk.size \in 0 .. MaxSize /\ walk.node \in Ptr
  BY <1>1, WalkTypes DEF FInv, NInv, TypeOK
<1>4. /\ Len(contents) \in Nat /\ kind \in Kinds /\ MaxSize \in Nat
      /\ \A i \in 1 .. Len(contents) : contents[i] \in Nodes /\ contents[i] \in Cells
  BY ContentsTypes
<1>5. kind \in {"list", "forward_list"} /\ kind \in Chains
  BY <1>1, <1>4, BoundsAssumption DEF Counted, Chains
<1>6. /\ intact /\ walk.op = "size" =>
            IF walk.n <= MaxSize
            THEN walk.n <= Len(contents) /\ walk.node = NodeAt(kind, contents, walk.n)
            ELSE Len(contents) > MaxSize
      /\ intact /\ walk.op = "text" =>
            /\ walk.size = Len(contents)
            /\ walk.n <= Len(contents) /\ walk.node = NodeAt(kind, contents, walk.n)
      /\ changes = 0 => kept \in {NoResult, Len(contents)}
  BY <1>1 DEF FInv, Finds, SizeFinds
<1>7. intact => /\ \A n \in 0 .. Len(contents) - 1 :
                      /\ NodeAt(kind, contents, n) = contents[n + 1]
                      /\ Read(NodeAt(kind, contents, n), "next") = NodeAt(kind, contents, n + 1)
                /\ NodeAt(kind, contents, Len(contents)) = EndOf(kind)
  BY <1>5, ChainReads
<1>8. (\A c \in Nodes : ~AtEnd(c)) /\ AtEnd(EndOf(kind))
  BY <1>5, ChainEnds
<1>9. ASSUME intact, walk.n <= Len(contents), walk.node = NodeAt(kind, contents, walk.n)
      PROVE  /\ AtEnd(walk.node) => walk.n = Len(contents)
             /\ ~AtEnd(walk.node) => /\ walk.n < Len(contents) /\ walk.node \in Cells
                                     /\ Read(walk.node, "next") = NodeAt(kind, contents, walk.n + 1)
  <2>1. walk.n \in Nat
    BY <1>3, <1>4
  <2>2. CASE walk.n = Len(contents)
    BY <1>7, <1>8, <1>9, <2>2
  <2>3. CASE walk.n # Len(contents)
    <3>1. walk.n \in 0 .. Len(contents) - 1 /\ walk.n + 1 \in 1 .. Len(contents) /\ walk.n < Len(contents)
      BY <1>4, <1>9, <2>1, <2>3
    <3>2. walk.node = contents[walk.n + 1] /\ walk.node \in Nodes /\ walk.node \in Cells
      BY <1>4, <1>7, <1>9, <3>1
    <3>3. QED
      BY <1>7, <1>8, <1>9, <3>1, <3>2
  <2>4. QED
    BY <2>2, <2>3
<1>10. CASE AtEnd(walk.node)
  <2>1. SizeKnown(walk.n) /\ walk.n \in Nat
    BY <1>3, <1>4, <1>10 DEF SizeStep
  <2>2. intact /\ walk.n <= MaxSize => walk.n = Len(contents)
    BY <1>1, <1>6, <1>9, <1>10
  <2>3. intact /\ ~(walk.n <= MaxSize) => ~(Len(contents) <= MaxSize)
    <3>1. walk.op = "text" => walk.size <= MaxSize
      BY <1>3, <1>4
    <3>2. QED
      BY <1>1, <1>4, <1>6, <1>9, <1>10, <2>1, <3>1
  <2>4. intact /\ walk.op = "text" => walk.n = Len(contents)
    BY <1>6, <1>9, <1>10
  <2>5. QED
    BY <1>1, <1>2, <2>1, <2>2, <2>3, <2>4, SizeKnownFinds
<1>11. CASE ~AtEnd(walk.node) /\ ~Readable(walk.node)
  <2>1. Fail
    BY <1>11 DEF SizeStep
  <2>2. intact => ~(Len(contents) <= MaxSize)
    BY <1>1, <1>3, <1>4, <1>6, <1>9, <1>11 DEF Readable
  <2>3. QED
    BY <1>1, <2>1, <2>2, FailFinds
<1>12. CASE ~AtEnd(walk.node) /\ Readable(walk.node)
  <2> DEFINE q == Read(walk.node, "next")
             m == IF walk.n > MaxSize THEN walk.n ELSE walk.n + 1
  <2>1. walk' = [walk EXCEPT !.node = q, !.n = m] /\ kept' = kept /\ answer' = answer
    BY <1>12 DEF SizeStep
  <2>2. walk'.op = walk.op /\ walk'.n = m /\ walk'.size = walk.size /\ walk'.node = q
    <3> HIDE DEF q, m
    <3>1. QED
      BY <1>3, <2>1
  <2>3. intact' = intact /\ contents' = contents /\ changes' = changes /\ kind' = kind
    BY <1>1 DEF memory
  <2>4. intact /\ walk.op = "size" =>
            IF m <= MaxSize THEN m <= Len(contents) /\ q = NodeAt(kind, contents, m)
            ELSE Len(contents) > MaxSize
    <3>1. CASE walk.n > MaxSize
      BY <1>3, <1>4, <1>6, <3>1
    <3>2. CASE ~(walk.n > MaxSize)
      <4>1. walk.n <= MaxSize /\ walk.n \in Nat /\ m = walk.n + 1
        BY <1>3, <1>4, <3>2
      <4>2. intact /\ walk.op = "size" => walk.n < Len(contents) /\ q = NodeAt(kind, contents, m)
        BY <1>6, <1>9, <1>12, <4>1
      <4> HIDE DEF m, q
      <4>3. QED
        BY <1>4, <4>1, <4>2
    <3>3. QED
      BY <3>1, <3>2
  <2>5. intact /\ walk.op = "text" =>
            walk.size = Len(contents) /\ m <= Len(contents) /\ q = NodeAt(kind, contents, m)
    <3> SUFFICES ASSUME intact, walk.op = "text"
                 PROVE  walk.size = Len(contents) /\ m <= Len(contents) /\ q = NodeAt(kind, contents, m)
      OBVIOUS
    <3>1. walk.size = Len(contents) /\ walk.n < Len(contents) /\ q = NodeAt(kind, contents, walk.n + 1)
      BY <1>6, <1>9, <1>12
    <3>2. m = walk.n + 1 /\ m <= Len(contents)
      BY <1>3, <1>4, <3>1
    <3>3. QED
      BY <3>1, <3>2
  <2> HIDE DEF q, m
  <2>6. SizeFinds'
    BY <1>6, <2>1, <2>2, <2>3, <2>4, <2>5 DEF SizeFinds
  <2>7. ChainFinds' /\ TreeFinds'
    BY <1>1, <2>2 DEF ChainFinds, TreeFinds
  <2>8. Right'
    BY <1>1, <2>1, RightKept DEF FInv
  <2>9. QED
    BY <1>2, <2>6, <2>7, <2>8 DEF FInv, Finds
<1>13. QED
  BY <1>10, <1>11, <1>12

-----------------------------------------------------------------------------
(* The order of a tree's nodes *)

(* The first node after the first n *)
LEMMA NextInOrder ==
  ASSUME NEW S \in SUBSET Nodes, NEW c, c = Sorted(S), NEW n \in 0 .. Len(c), NEW x \in S,
         n = 0 \/ c[n] < x
  PROVE  /\ n < Len(c) /\ n + 1 \in 1 .. Len(c) /\ c[n + 1] \in S /\ c[n + 1] <= x
         /\ n > 0 => c[n] < c[n + 1]
<1> DEFINE N == Len(c)
<1>1. /\ c \in Seq(S) /\ N \in Nat
      /\ \A i, j \in 1 .. N : i < j => c[i] < c[j]
      /\ \A y \in S : \E i \in 1 .. N : c[i] = y
  BY SortedFacts
<1>2. \A i \in 1 .. N : c[i] \in S /\ c[i] \in Nat
  <2>1. \A i \in 1 .. N : c[i] \in S
    BY <1>1
  <2>2. S \subseteq Nat
    BY NodesAssumption
  <2>3. QED
    BY <2>1, <2>2
<1> HIDE DEF N
<1>3. PICK i \in 1 .. N : c[i] = x
  BY <1>1
<1>4. n \in 0 .. N /\ n \in Nat /\ i \in Nat
  BY <1>1 DEF N
<1>5. n < i
  <2>1. CASE n = 0
    BY <1>1, <2>1
  <2>2. CASE n # 0
    <3>1. n \in 1 .. N /\ c[n] < c[i]
      BY <1>1, <1>3, <1>4, <2>2
    <3>2. ~(i < n) /\ i # n
      <4>1. i < n => c[i] < c[n]
        BY <1>1, <3>1
      <4>2. c[i] \in Nat /\ c[n] \in Nat
        BY <1>2, <3>1
      <4>3. QED
        BY <3>1, <4>1, <4>2
    <3>3. QED
      BY <1>4, <3>2
  <2>3. QED
    BY <2>1, <2>2
<1>6. n < N /\ n + 1 \in 1 .. N
  BY <1>1, <1>4, <1>5
<1>7. c[n + 1] \in S /\ c[n + 1] \in Nat /\ c[i] \in Nat
  BY <1>2, <1>6
<1>8. c[n + 1] <= x
  <2>1. n + 1 = i \/ n + 1 < i
    BY <1>4, <1>5
  <2>2. CASE n + 1 = i
    BY <1>3, <1>7, <2>2
  <2>3. CASE n + 1 < i
    <3>1. c[n + 1] < c[i]
      BY <1>1, <1>6, <2>3
    <3>2. QED
      BY <1>3, <1>7, <3>1
  <2>4. QED
    BY <2>1, <2>2, <2>3
<1>9. n > 0 => c[n] < c[n + 1]
  <2> SUFFICES ASSUME n > 0 PROVE c[n] < c[n + 1]
    OBVIOUS
  <2>1. n \in 1 .. N /\ n < n + 1
    BY <1>1, <1>4
  <2>2. QED
    BY <1>1, <1>6, <2>1
<1>10. QED
  BY <1>6, <1>7, <1>8, <1>9 DEF N

(* The last node comes last *)
LEMMA LastInOrder ==
  ASSUME NEW S \in SUBSET Nodes, NEW c, c = Sorted(S), NEW n \in 1 .. Len(c), GreatestOf(c[n], S)
  PROVE  n = Len(c)
<1> DEFINE N == Len(c)
<1>1. /\ c \in Seq(S) /\ N \in Nat
      /\ \A i, j \in 1 .. N : i < j => c[i] < c[j]
  BY SortedFacts
<1>2. \A i \in 1 .. N : c[i] \in S /\ c[i] \in Nat
  <2>1. \A i \in 1 .. N : c[i] \in S
    BY <1>1
  <2>2. S \subseteq Nat
    BY NodesAssumption
  <2>3. QED
    BY <2>1, <2>2
<1> SUFFICES ASSUME n # N PROVE FALSE
  OBVIOUS
<1>3. n < N /\ N \in 1 .. N /\ n \in 1 .. N
  BY <1>1
<1> HIDE DEF N
<1>4. c[n] < c[N] /\ c[N] <= c[n]
  BY <1>1, <1>2, <1>3 DEF GreatestOf
<1>5. QED
  BY <1>2, <1>3, <1>4

(* Down to the left: the first node of a subtree is the first of its left  *)
(* part, or its root                                                       *)
LEMMA LeastLeft ==
  ASSUME NEW S \in SUBSET Nodes, NEW age \in Ages(S), NEW a \in S, NEW m, LeastOf(m, Subtree(age, a))
  PROVE  /\ LeftPart(age, a) = {} => m = a
         /\ LeftPart(age, a) # {} => LeastOf(m, LeftPart(age, a))
<1>1. /\ LeftPart(age, a) \subseteq S /\ RightPart(age, a) \subseteq S /\ a \in Nat
      /\ Subtree(age, a) = LeftPart(age, a) \cup {a} \cup RightPart(age, a)
      /\ (\A x \in LeftPart(age, a) : x < a) /\ (\A x \in RightPart(age, a) : a < x)
  BY PartFacts
<1>2. S \subseteq Nat
  BY AgeFacts
<1>3. m \in Subtree(age, a) /\ (\A y \in Subtree(age, a) : m <= y) /\ m \in Nat
  BY <1>1, <1>2 DEF LeastOf
<1>4. m <= a /\ m \notin RightPart(age, a)
  <2>1. m <= a
    BY <1>1, <1>3
  <2>2. QED
    BY <1>1, <1>3, <2>1
<1>5. CASE LeftPart(age, a) = {}
  BY <1>1, <1>3, <1>4, <1>5
<1>6. CASE LeftPart(age, a) # {}
  <2>1. PICK x \in LeftPart(age, a) : x < a
    BY <1>1, <1>6
  <2>2. m <= x /\ x \in Nat
    BY <1>1, <1>2, <1>3, <2>1
  <2>3. m # a
    BY <1>1, <1>3, <2>1, <2>2
  <2>4. QED
    BY <1>1, <1>3, <1>4, <1>6, <2>3 DEF LeastOf
<1>7. QED
  BY <1>5, <1>6

(* Up from the right: the last node of the right part is the last of the   *)
(* subtree, and without one the root is                                    *)
LEMMA GreatestRight ==
  ASSUME NEW S \in SUBSET Nodes, NEW age \in Ages(S), NEW a \in S
  PROVE  /\ RightPart(age, a) = {} => GreatestOf(a, Subtree(age, a))
         /\ \A m : GreatestOf(m, RightPart(age, a)) => GreatestOf(m, Subtree(age, a))
<1>1. /\ LeftPart(age, a) \subseteq S /\ RightPart(age, a) \subseteq S /\ a \in Nat
      /\ Subtree(age, a) = LeftPart(age, a) \cup {a} \cup RightPart(age, a)
      /\ (\A x \in LeftPart(age, a) : x < a) /\ (\A x \in RightPart(age, a) : a < x)
  BY PartFacts
<1>2. S \subseteq Nat
  BY AgeFacts
<1>3. CASE RightPart(age, a) = {}
  <2>1. \A y \in Subtree(age, a) : y <= a
    <3> SUFFICES ASSUME NEW y \in Subtree(age, a) PROVE y <= a
      OBVIOUS
    <3>1. y \in Nat /\ (y < a \/ y = a)
      BY <1>1, <1>2, <1>3
    <3>2. QED
      BY <1>1, <3>1
  <2>2. QED
    BY <1>1, <1>3, <2>1 DEF GreatestOf
<1>4. ASSUME NEW m, GreatestOf(m, RightPart(age, a))
      PROVE  GreatestOf(m, Subtree(age, a))
  <2>1. m \in RightPart(age, a) /\ (\A y \in RightPart(age, a) : y <= m) /\ m \in Nat /\ a < m
    BY <1>1, <1>2, <1>4 DEF GreatestOf
  <2>2. \A y \in Subtree(age, a) : y <= m
    <3> SUFFICES ASSUME NEW y \in Subtree(age, a) PROVE y <= m
      OBVIOUS
    <3>1. y \in Nat /\ (y \in RightPart(age, a) \/ y < a \/ y = a)
      BY <1>1, <1>2
    <3>2. QED
      BY <1>1, <2>1, <3>1
  <2>3. QED
    BY <1>1, <2>1, <2>2 DEF GreatestOf
<1>5. QED
  BY <1>1, <1>3, <1>4 DEF GreatestOf

(* Up from the left: a node comes right after the last of its left part *)
LEMMA UpFromLeft ==
  ASSUME NEW S \in SUBSET Nodes, NEW age \in Ages(S), NEW c, c = Sorted(S),
         NEW n \in 1 .. Len(c), NEW a \in S, GreatestOf(c[n], LeftPart(age, a))
  PROVE  n < Len(c) /\ c[n + 1] = a
<1>1. c[n] \in LeftPart(age, a) /\ \A y \in LeftPart(age, a) : y <= c[n]
  BY DEF GreatestOf
<1>2. c[n] \in S /\ c[n] < a /\ c[n] \in Subtree(age, a) /\ a \in Nat /\ S \subseteq Nat
  BY <1>1, PartFacts, AgeFacts
<1>3. Len(c) \in Nat
  BY SortedFacts
<1>4. n \in 0 .. Len(c) /\ n > 0
  BY <1>3
<1>5. n < Len(c) /\ c[n + 1] \in S /\ c[n + 1] <= a /\ c[n] < c[n + 1]
  BY <1>2, <1>4, NextInOrder
<1>6. ~(c[n + 1] < a)
  <2> SUFFICES ASSUME c[n + 1] < a PROVE FALSE
    OBVIOUS
  <2>1. c[n + 1] \in Nat /\ c[n] \in Nat
    BY <1>2, <1>5
  <2>2. c[n] <= c[n + 1] /\ c[n + 1] <= a
    BY <1>5, <2>1
  <2>3. c[n + 1] \in Subtree(age, a)
    BY <1>2, <1>5, <2>2, SubtreeConvex
  <2>4. c[n + 1] \in LeftPart(age, a)
    BY <2>3 DEF LeftPart
  <2>5. QED
    BY <1>1, <1>5, <2>1, <2>4
<1>7. c[n + 1] \in Nat
  BY <1>2, <1>5
<1>8. c[n + 1] = a
  BY <1>2, <1>5, <1>6, <1>7
<1>9. QED
  BY <1>5, <1>8

(* Down to the right: the first of a node's right part comes right after   *)
(* the node                                                                *)
LEMMA DownRight ==
  ASSUME NEW S \in SUBSET Nodes, NEW age \in Ages(S), NEW c, c = Sorted(S),
         NEW n \in 1 .. Len(c), NEW a \in S, c[n] = a, RightPart(age, a) # {}
  PROVE  n < Len(c) /\ LeastOf(c[n + 1], RightPart(age, a))
<1>1. Len(c) \in Nat /\ S \subseteq Nat
  BY SortedFacts, AgeFacts
<1>2. n \in 0 .. Len(c) /\ n > 0
  BY <1>1
<1>3. \A y \in RightPart(age, a) : y \in S /\ a < y /\ y \in Subtree(age, a)
  BY PartFacts
<1>4. \A y \in RightPart(age, a) : n < Len(c) /\ c[n + 1] \in S /\ c[n + 1] <= y /\ a < c[n + 1]
  BY <1>2, <1>3, NextInOrder
<1>5. PICK y \in RightPart(age, a) : TRUE
  OBVIOUS
<1>6. a <= c[n + 1] /\ c[n + 1] <= y /\ c[n + 1] \in S
  <2>1. c[n + 1] \in S /\ c[n + 1] <= y /\ a < c[n + 1]
    BY <1>4
  <2>2. c[n + 1] \in Nat /\ a \in Nat
    BY <1>1, <2>1
  <2>3. QED
    BY <2>1, <2>2
<1>7. c[n + 1] \in Subtree(age, a)
  BY <1>3, <1>6, SubtreeConvex
<1>8. c[n + 1] > a
  BY <1>1, <1>4, <1>6
<1>9. c[n + 1] \in RightPart(age, a)
  BY <1>7, <1>8 DEF RightPart
<1>10. QED
  BY <1>4, <1>9 DEF LeastOf

-----------------------------------------------------------------------------
(* The walks for an element *)

(* What the links of an intact tree are *)
LEMMA TreeReads ==
  ASSUME FInv, kind \in TreeKinds, NEW S \in SUBSET Nodes, NEW age \in Ages(S), NEW junk \in Ptr,
         link = Tree(kind, age, junk)
  PROVE  /\ \A n \in S : Read(n, "left") = LeftOf(age, n) /\ Read(n, "right") = RightOf(age, n)
         /\ kind = "stdcpp_tree" => FirstNode = Oldest(age, S)
         /\ kind = "libcxx_tree" =>
               /\ S # {} => LeastOf(FirstNode, S)
               /\ Read(Header, "left") = Oldest(age, S)
               /\ Read(Oldest(age, S), "parent") = Header \/ S = {}
               /\ \A n \in S : n # Oldest(age, S) =>
                     /\ Read(n, "parent") \in S
                     /\ n = LeftOf(age, Read(n, "parent")) \/ n = RightOf(age, Read(n, "parent"))
<1>1. DOMAIN link = Links(kind)
  BY DEF FInv, NInv, TypeOK
<1>2. \A c, f : <<c, f>> \in Links(kind) => Read(c, f) = Tree(kind, age, junk)[<<c, f>>]
  BY <1>1 DEF Read
<1>3. \A n \in S : Read(n, "left") = LeftOf(age, n) /\ Read(n, "right") = RightOf(age, n)
  <2> SUFFICES ASSUME NEW n \in S
               PROVE  Read(n, "left") = LeftOf(age, n) /\ Read(n, "right") = RightOf(age, n)
    OBVIOUS
  <2>1. /\ <<n, "left">> \in Links(kind) /\ <<n, "right">> \in Links(kind)
        /\ Tree(kind, age, junk)[<<n, "left">>] = LeftOf(age, n)
        /\ Tree(kind, age, junk)[<<n, "right">>] = RightOf(age, n)
    BY TreeChildren
  <2>2. QED
    BY <1>2, <2>1
<1>4. Tree(kind, age, junk)[<<Header, TreeRootAt(kind)>>] = Oldest(age, S)
      /\ <<Header, TreeRootAt(kind)>> \in Links(kind)
  BY TreeRoot
<1>5. kind = "stdcpp_tree" => FirstNode = Oldest(age, S)
  BY <1>4 DEF FirstNode, TreeRootAt
<1>6. ASSUME kind = "libcxx_tree"
      PROVE  /\ S # {} => LeastOf(FirstNode, S)
             /\ Read(Header, "left") = Oldest(age, S)
  <2>1. kind # "stdcpp_tree" /\ TreeRootAt(kind) = "left"
    BY <1>6 DEF TreeRootAt
  <2>2. FirstNode = Tree("libcxx_tree", age, junk)[<<Header, "begin">>]
    BY <1>6, <2>1 DEF FirstNode
  <2>3. Read(Header, "left") = Oldest(age, S)
    BY <1>2, <1>4, <2>1
  <2>4. S # {} => LeastOf(FirstNode, S)
    BY <2>2, TreeBegin DEF LeastOf
  <2>5. QED
    BY <2>3, <2>4
<1>7. ASSUME kind = "libcxx_tree", NEW n \in S
      PROVE  /\ n = Oldest(age, S) => Read(n, "parent") = Header
             /\ n # Oldest(age, S) =>
                     /\ Read(n, "parent") \in S
                     /\ n = LeftOf(age, Read(n, "parent")) \/ n = RightOf(age, Read(n, "parent"))
  <2>1. <<n, "parent">> \in Links("libcxx_tree")
    BY TreeParents
  <2>2. Read(n, "parent") = Tree("libcxx_tree", age, junk)[<<n, "parent">>]
    BY <1>2, <1>7, <2>1
  <2>3. QED
    BY <2>2, TreeParents
<1>8. S # {} => Oldest(age, S) \in S
  BY RootFacts
<1>9. QED
  BY <1>3, <1>5, <1>6, <1>7, <1>8

(* A container has some tree *)
LEMMA SomeTree ==
  ASSUME FInv, intact, kind \in TreeKinds
  PROVE  \E S \in SUBSET Nodes : \E age \in Ages(S) : \E junk \in Ptr :
            contents = Sorted(S) /\ link = Tree(kind, age, junk)
BY DEF FInv, Shape, AsLeft

(* Asking for a child starts at the right node *)
LEMMA ExpandFinds ==
  ASSUME FInv, NEW idx \in 0 .. MaxSize, Expand(idx)
  PROVE  FInv'
<1>1. memory' = memory /\ kept' = kept /\ kept # NoResult /\ walk = NoWalk
  BY WalkTypes DEF Expand, FInv, NInv, TypeOK
<1>2. NInv' /\ Shape'
  BY <1>1, ExpandTypes, ShapeKept DEF FInv
<1>3. intact' = intact /\ contents' = contents /\ changes' = changes /\ kind' = kind /\ link' = link
  BY <1>1 DEF memory
<1>4. (changes = 0 => kept \in {NoResult, Len(contents)}) /\ changes \in Nat
  <2>1. changes \in 0 .. MaxChanges /\ MaxChanges \in Nat
    BY BoundsAssumption DEF FInv, NInv, TypeOK
  <2>2. QED
    BY <2>1 DEF FInv, Finds, SizeFinds
<1>5. CASE idx < 1
  <2>1. walk' = NoWalk /\ answer' = Size(kept)
    BY <1>1, <1>5 DEF Expand
  <2>2. walk'.op = "none" /\ answer'.what = "size"
    BY <2>1 DEF NoWalk, Size
  <2>3. Finds'
    BY <1>1, <1>3, <1>4, <2>2 DEF Finds, SizeFinds, ChainFinds, TreeFinds
  <2>4. SizeAgrees'
    <3>1. changes = 0 \/ changes > 0
      BY <1>4
    <3>2. QED
      BY <1>1, <1>3, <1>4, <2>1, <2>2, <3>1 DEF SizeAgrees, Size
  <2>5. Right'
    BY <2>2, <2>4 DEF Right, ElementsAgree, StaleChildFails
  <2>6. QED
    BY <1>2, <2>3, <2>5 DEF FInv
<1>6. CASE ~(idx < 1)
  <2> DEFINE st == IF kind = "stdcpp_tree" THEN <<[node |-> FirstNode, stage |-> "left"]>> ELSE <<>>
  <2>1. walk' = [op |-> "element", index |-> idx - 1, n |-> 0, node |-> FirstNode,
                 mode |-> "next", stack |-> st] /\ answer' = NoAnswer
    BY <1>6 DEF Expand, ElementWalk
  <2> HIDE DEF st
  <2>2. walk'.op = "element" /\ walk'.n = 0 /\ walk'.index = idx - 1 /\ walk'.mode = "next"
        /\ walk'.stack = st /\ walk'.node = FirstNode
    BY <2>1
  <2>3. SizeFinds'
    BY <1>1, <1>3, <1>4, <2>2 DEF SizeFinds
  <2>4. ChainFinds'
    <3>1. Len(contents) \in Nat
      BY ContentsTypes
    <3>2. intact /\ kind \in Chains => FirstNode = NodeAt(kind, contents, 0)
      BY ChainReads DEF FirstNode, Chains
    <3>3. QED
      BY <1>3, <2>2, <3>1, <3>2 DEF ChainFinds
  <2>5. TreeFinds'
    <3> SUFFICES ASSUME intact, kind \in TreeKinds,
                        NEW S \in SUBSET Nodes, NEW age \in Ages(S), NEW junk \in Ptr,
                        contents = Sorted(S), link = Tree(kind, age, junk)
                 PROVE  /\ kind = "stdcpp_tree" => Recursion(S, age)'
                        /\ kind = "libcxx_tree" => Iteration(S, age)'
      BY <1>3 DEF TreeFinds
    <3>1. CASE kind = "stdcpp_tree"
      <4>1. st = <<[node |-> Oldest(age, S), stage |-> "left"]>>
        BY <3>1, TreeReads DEF st
      <4>2. CASE S = {}
        <5>1. Oldest(age, S) = Null
          BY <4>2 DEF Oldest
        <5>2. QED
          BY <2>2, <3>1, <4>1, <4>2, <5>1 DEF Recursion, TreeKinds
      <4>3. CASE S # {}
        <5> DEFINE r == Oldest(age, S)
        <5>1. r \in S /\ Subtree(age, r) = S
          BY <4>3, RootFacts
        <5> HIDE DEF r
        <5>2. Len(st) = 1 /\ st[1] = [node |-> r, stage |-> "left"] /\ st # <<>>
          BY <4>1 DEF r
        <5>3. Stacked(S, age, st)
          BY <5>1, <5>2 DEF Stacked, r
        <5>4. 0 < Len(contents) /\ LeastOf(contents[0 + 1], S)
          <6>1. Len(contents) \in Nat
            BY ContentsTypes
          <6>2. 0 \in 0 .. Len(contents)
            BY <6>1
          <6>3. \A x \in S : 0 < Len(contents) /\ contents[0 + 1] \in S /\ contents[0 + 1] <= x
            BY <6>2, NextInOrder
          <6>4. QED
            BY <4>3, <6>3 DEF LeastOf
        <5>5. Top' = [node |-> r, stage |-> "left"]
          BY <2>2, <5>2 DEF Top
        <5>6. Top'.stage = "left" /\ Top'.node = r
          BY <5>5
        <5>7. Reached(age, Top, walk.n)'
          BY <1>3, <2>2, <5>1, <5>4, <5>6 DEF Reached
        <5>8. QED
          BY <2>2, <3>1, <4>3, <5>2, <5>3, <5>7 DEF Recursion
      <4>4. QED
        BY <4>2, <4>3
    <3>2. CASE kind = "libcxx_tree"
      <4>1. Len(contents) \in Nat /\ S \subseteq Nat
        BY ContentsTypes, AgeFacts
      <4>2. idx - 1 < Len(contents) => contents[0 + 1] = FirstNode
        <5> SUFFICES ASSUME idx - 1 < Len(contents) PROVE contents[0 + 1] = FirstNode
          OBVIOUS
        <5>1. idx \in Nat /\ idx >= 1
          BY <1>6, ContentsTypes
        <5>2. 1 \in 1 .. Len(contents) /\ 0 \in 0 .. Len(contents)
          BY <4>1, <5>1
        <5>3. contents \in Seq(S)
          BY SortedFacts
        <5>4. contents[1] \in S
          BY <5>2, <5>3
        <5>5. \A x \in S : contents[0 + 1] \in S /\ contents[0 + 1] <= x
          BY <5>2, NextInOrder
        <5>6. LeastOf(FirstNode, S)
          BY <3>2, <5>4, TreeReads
        <5>7. contents[0 + 1] \in S /\ FirstNode \in S /\ contents[0 + 1] <= FirstNode
              /\ FirstNode <= contents[0 + 1]
          BY <5>5, <5>6 DEF LeastOf
        <5>8. contents[0 + 1] \in Nat /\ FirstNode \in Nat
          BY <4>1, <5>7
        <5> DEFINE x == contents[0 + 1]
                   y == FirstNode
        <5>9. x \in Nat /\ y \in Nat /\ x <= y /\ y <= x
          BY <5>7, <5>8
        <5> HIDE DEF x, y
        <5>10. x = y
          BY <5>9
        <5>11. QED
          BY <5>10 DEF x, y
      <4>3. QED
        BY <1>3, <2>2, <3>2, <4>2 DEF Iteration
    <3>3. QED
      BY <3>1, <3>2 DEF TreeKinds
  <2>6. Right'
    BY <2>1 DEF Right, SizeAgrees, ElementsAgree, StaleChildFails, NoAnswer
  <2>7. QED
    BY <1>2, <2>3, <2>4, <2>5, <2>6 DEF FInv, Finds
<1>7. QED
  BY <1>5, <1>6

(* A step along a chain, or the end of one *)
LEMMA ChainStepFinds ==
  ASSUME FInv, NInv', walk.op = "element", kind \in Chains, memory' = memory,
         kept' = kept, answer' = answer, walk.node \in Cells,
         kind = "list" => walk.node # Header,
         walk' = [op |-> "element", index |-> walk.index, n |-> walk.n + 1,
                  node |-> Read(walk.node, "next"), mode |-> walk.mode, stack |-> walk.stack]
  PROVE  FInv'
<1>1. Shape' /\ Right'
  BY ShapeKept, RightKept DEF FInv
<1>2. intact' = intact /\ contents' = contents /\ changes' = changes /\ kind' = kind
  BY DEF memory
<1>3. walk'.op = "element" /\ walk'.n = walk.n + 1 /\ walk'.node = Read(walk.node, "next")
  OBVIOUS
<1>4. SizeFinds'
  BY <1>2, <1>3 DEF FInv, Finds, SizeFinds
<1>5. TreeFinds'
  BY <1>2 DEF TreeFinds, TreeKinds, Chains
<1>6. ChainFinds'
  <2> SUFFICES ASSUME intact
               PROVE  walk.n + 1 <= Len(contents)
                      /\ Read(walk.node, "next") = NodeAt(kind, contents, walk.n + 1)
    BY <1>2, <1>3 DEF ChainFinds
  <2>1. walk.n <= Len(contents) /\ walk.node = NodeAt(kind, contents, walk.n)
    BY DEF FInv, Finds, ChainFinds
  <2>2. walk.n \in Nat /\ Len(contents) \in Nat
    BY ElementTypes, ContentsTypes DEF FInv
  <2>3. walk.n # Len(contents)
    <3>1. NodeAt(kind, contents, Len(contents)) = EndOf(kind)
      BY ChainReads
    <3>2. (EndOf(kind) = Header /\ kind = "list") \/ EndOf(kind) \notin Cells
      BY ChainEnds DEF EndOf, Chains
    <3>3. QED
      BY <2>1, <3>1, <3>2
  <2>4. walk.n \in 0 .. Len(contents) - 1 /\ walk.n + 1 <= Len(contents)
    BY <2>1, <2>2, <2>3
  <2>5. QED
    BY <2>1, <2>4, ChainReads
<1>7. QED
  BY <1>1, <1>4, <1>5, <1>6 DEF FInv, Finds

(* What a walk along a chain has reached *)
LEMMA ChainAt ==
  ASSUME FInv, intact, walk.op = "element", kind \in Chains
  PROVE  /\ walk.n <= walk.index /\ walk.n <= Len(contents)
         /\ walk.n \in Nat /\ walk.index \in Nat /\ Len(contents) \in Nat
         /\ walk.n = Len(contents) => walk.node = EndOf(kind)
         /\ walk.n < Len(contents) => /\ walk.node = contents[walk.n + 1] /\ walk.node \in Nodes
                                      /\ walk.node \in Cells /\ walk.n + 1 \in DOMAIN contents
<1>1. walk.n <= Len(contents) /\ walk.node = NodeAt(kind, contents, walk.n)
  BY DEF FInv, Finds, ChainFinds
<1>2. walk.n <= walk.index /\ walk.n \in Nat /\ walk.index \in Nat
  BY ElementTypes DEF FInv
<1>3. Len(contents) \in Nat /\ DOMAIN contents = 1 .. Len(contents)
      /\ \A i \in 1 .. Len(contents) : contents[i] \in Nodes /\ contents[i] \in Cells
  BY ContentsTypes
<1>4. walk.n = Len(contents) => walk.node = EndOf(kind)
  BY <1>1, ChainReads
<1>5. ASSUME walk.n < Len(contents)
      PROVE  /\ walk.node = contents[walk.n + 1] /\ walk.node \in Nodes
             /\ walk.node \in Cells /\ walk.n + 1 \in DOMAIN contents
  <2>1. walk.n \in 0 .. Len(contents) - 1 /\ walk.n + 1 \in 1 .. Len(contents)
    BY <1>2, <1>3, <1>5
  <2>2. walk.node = contents[walk.n + 1]
    BY <1>1, <2>1, ChainReads
  <2>3. QED
    BY <1>3, <2>1, <2>2
<1>6. QED
  BY <1>1, <1>2, <1>3, <1>4, <1>5

(* Elements of lists *)
LEMMA ListElementFinds ==
  ASSUME FInv, ListElementStep
  PROVE  FInv'
<1>1. walk.op = "element" /\ memory' = memory /\ kind \in {"list", "forward_list"} /\ Walking
      /\ kind \in Chains /\ kind # "libcxx_tree"
  BY DEF ListElementStep, InElement, Walking, Chains
<1>2. NInv'
  BY ListElementTypes DEF FInv
<1>3. intact => /\ walk.n <= walk.index /\ walk.n <= Len(contents)
                /\ walk.n \in Nat /\ walk.index \in Nat /\ Len(contents) \in Nat
                /\ walk.n = Len(contents) => walk.node = EndOf(kind)
                /\ walk.n < Len(contents) =>
                      /\ walk.node = contents[walk.n + 1] /\ walk.node \in Nodes
                      /\ walk.node \in Cells /\ walk.n + 1 \in DOMAIN contents
  BY <1>1, ChainAt
<1>4. (\A c \in Nodes : ~AtEnd(c)) /\ AtEnd(EndOf(kind))
  BY <1>1, ChainEnds
<1>5. CASE NotFound(walk.node)
  <2>1. Fail /\ AtEnd(walk.node)
    BY <1>5 DEF ListElementStep, NotFound
  <2>2. intact => walk.index >= Len(contents)
    BY <1>3, <1>4, <2>1
  <2>3. QED
    BY <1>1, <2>1, <2>2, FailFinds
<1>6. CASE ~NotFound(walk.node) /\ walk.n = walk.index
  <2>1. Show(walk.node) /\ ~AtEnd(walk.node)
    BY <1>6 DEF ListElementStep, NotFound
  <2>2. intact => walk.n < Len(contents)
    BY <1>3, <1>4, <2>1
  <2>3. intact /\ walk.index < Len(contents) =>
            walk.node \in Cells /\ walk.node = contents[walk.index + 1]
    BY <1>3, <1>6
  <2>4. intact => \E i \in DOMAIN contents : walk.node = contents[i]
    BY <1>3, <2>2
  <2>5. QED
    BY <1>1, <2>1, <2>3, <2>4, ShowFinds
<1>7. CASE ~NotFound(walk.node) /\ walk.n # walk.index /\ ~Readable(walk.node)
  <2>1. Fail /\ walk.node \notin Cells /\ ~AtEnd(walk.node)
    BY <1>7 DEF ListElementStep, NotFound, Readable
  <2>2. ~intact
    BY <1>3, <1>4, <2>1
  <2>3. QED
    BY <1>1, <2>1, <2>2, FailFinds
<1>8. CASE ~NotFound(walk.node) /\ walk.n # walk.index /\ Readable(walk.node)
  <2>1. walk' = [walk EXCEPT !.node = Read(walk.node, "next"), !.n = @ + 1]
        /\ kept' = kept /\ answer' = answer
    BY <1>8 DEF ListElementStep
  <2>2. walk' = [op |-> "element", index |-> walk.index, n |-> walk.n + 1,
                 node |-> Read(walk.node, "next"), mode |-> walk.mode, stack |-> walk.stack]
    BY <1>1, <2>1, ElementTypes DEF FInv
  <2>3. walk.node \in Cells /\ (kind = "list" => walk.node # Header)
    BY <1>8 DEF Readable, NotFound, AtEnd
  <2>4. QED
    BY <1>1, <1>2, <2>1, <2>2, <2>3, ChainStepFinds
<1>9. QED
  BY <1>5, <1>6, <1>7, <1>8

(* Elements of hash tables *)
LEMMA HashElementFinds ==
  ASSUME FInv, HashElementStep
  PROVE  FInv'
<1>1. walk.op = "element" /\ memory' = memory /\ kind = "hash" /\ Walking
      /\ kind \in Chains /\ kind # "libcxx_tree"
  BY DEF HashElementStep, InElement, Walking, Chains
<1>2. NInv'
  BY HashElementTypes DEF FInv
<1>3. intact => /\ walk.n <= walk.index /\ walk.n <= Len(contents)
                /\ walk.n \in Nat /\ walk.index \in Nat /\ Len(contents) \in Nat
                /\ walk.n = Len(contents) => walk.node = EndOf(kind)
                /\ walk.n < Len(contents) =>
                      /\ walk.node = contents[walk.n + 1] /\ walk.node \in Nodes
                      /\ walk.node \in Cells /\ walk.n + 1 \in DOMAIN contents
  BY <1>1, ChainAt
<1>4. EndOf(kind) \notin Cells
  BY <1>1, ChainEnds
<1>5. CASE walk.n = walk.index
  <2>1. Show(walk.node)
    BY <1>5 DEF HashElementStep
  <2>2. intact /\ walk.node \in Cells => walk.n < Len(contents)
    BY <1>3, <1>4
  <2>3. intact /\ walk.index < Len(contents) =>
            walk.node \in Cells /\ walk.node = contents[walk.index + 1]
    BY <1>3, <1>5
  <2>4. intact /\ walk.node \in Cells => \E i \in DOMAIN contents : walk.node = contents[i]
    BY <1>3, <2>2
  <2>5. QED
    BY <1>1, <2>1, <2>3, <2>4, ShowFinds
<1>6. CASE walk.n # walk.index /\ ~Readable(walk.node)
  <2>1. Fail /\ walk.node \notin Cells
    BY <1>6 DEF HashElementStep, Readable
  <2>2. intact => walk.index >= Len(contents)
    BY <1>3, <2>1
  <2>3. QED
    BY <1>1, <2>1, <2>2, FailFinds
<1>7. CASE walk.n # walk.index /\ Readable(walk.node)
  <2>1. walk' = [walk EXCEPT !.node = Read(walk.node, "next"), !.n = @ + 1]
        /\ kept' = kept /\ answer' = answer
    BY <1>7 DEF HashElementStep
  <2>2. walk' = [op |-> "element", index |-> walk.index, n |-> walk.n + 1,
                 node |-> Read(walk.node, "next"), mode |-> walk.mode, stack |-> walk.stack]
    BY <1>1, <2>1, ElementTypes DEF FInv
  <2>3. walk.node \in Cells /\ (kind = "list" => walk.node # Header)
    BY <1>1, <1>7 DEF Readable
  <2>4. QED
    BY <1>1, <1>2, <2>1, <2>2, <2>3, ChainStepFinds
<1>8. QED
  BY <1>5, <1>6, <1>7

-----------------------------------------------------------------------------
(* The recursion over a tree of libstdc++ *)

(* The stage of the call on top does not matter to those below it *)
LEMMA StackedStage ==
  ASSUME NEW S, NEW age, NEW st \in Seq(Frames), st # <<>>, Stacked(S, age, st),
         NEW t \in Seq(Frames), Len(t) = Len(st),
         t[Len(st)].node = st[Len(st)].node, \A i \in 1 .. Len(st) - 1 : t[i] = st[i]
  PROVE  Stacked(S, age, t)
<1> DEFINE d == Len(st)
<1>1. d \in Nat /\ d >= 1
  BY EmptySeq
<1> HIDE DEF d
<1>2. \A i \in 1 .. d : i \in 1 .. d - 1 \/ i = d
  BY <1>1
<1>3. \A i \in 1 .. d : t[i].node = st[i].node
  BY <1>2 DEF d
<1>4. \A i \in 1 .. d : t[i].node \in S
  BY <1>3 DEF Stacked, d
<1>5. 1 \in 1 .. d
  BY <1>1
<1>6. t[1].node = Oldest(age, S)
  BY <1>3, <1>5 DEF Stacked, d
<1>7. ASSUME NEW i \in 1 .. d - 1
      PROVE  Calls(age, t[i], t[i + 1])
  <2>1. Calls(age, st[i], st[i + 1]) /\ t[i] = st[i]
    BY DEF Stacked, d
  <2>2. i + 1 \in 1 .. d
    BY <1>1
  <2>3. t[i + 1].node = st[i + 1].node
    BY <1>3, <2>2
  <2>4. QED
    BY <2>1, <2>3 DEF Calls
<1>8. QED
  BY <1>4, <1>6, <1>7 DEF Stacked, d

(* A call goes on top *)
LEMMA StackedCall ==
  ASSUME NEW S, NEW age, NEW st \in Seq(Frames), st # <<>>, Stacked(S, age, st),
         NEW f \in Frames, f.node \in S, Calls(age, st[Len(st)], f)
  PROVE  Stacked(S, age, Append(st, f))
<1> DEFINE d == Len(st)
           t == Append(st, f)
<1>1. d \in Nat /\ d >= 1
  BY EmptySeq
<1>2. Len(t) = d + 1 /\ t[d + 1] = f /\ \A i \in 1 .. d : t[i] = st[i]
  OBVIOUS
<1>3. t # <<>>
  BY <1>1, <1>2
<1> HIDE DEF t, d
<1>4. \A i \in 1 .. d + 1 : i \in 1 .. d \/ i = d + 1
  BY <1>1
<1>5. \A i \in 1 .. d + 1 : t[i].node \in S
  BY <1>2, <1>4 DEF Stacked, d
<1>6. t[1].node = Oldest(age, S)
  <2>1. 1 \in 1 .. d
    BY <1>1
  <2>2. QED
    BY <1>2, <2>1 DEF Stacked
<1>7. ASSUME NEW i \in 1 .. d
      PROVE  Calls(age, t[i], t[i + 1])
  <2>1. CASE i = d
    BY <1>2, <2>1 DEF d
  <2>2. CASE i # d
    <3>1. i \in 1 .. d - 1 /\ i + 1 \in 1 .. d
      BY <1>1, <2>2
    <3>2. t[i] = st[i] /\ t[i + 1] = st[i + 1]
      BY <1>2, <3>1
    <3>3. QED
      BY <3>1, <3>2 DEF Stacked, d
  <2>3. QED
    BY <2>1, <2>2
<1>8. Len(t) - 1 = d
  BY <1>1, <1>2
<1>9. QED
  BY <1>2, <1>5, <1>6, <1>7, <1>8 DEF Stacked, t

(* A return uncovers the call below *)
LEMMA StackedReturn ==
  ASSUME NEW S, NEW age, NEW st \in Seq(Frames), st # <<>>, Stacked(S, age, st),
         NEW t, t = SubSeq(st, 1, Len(st) - 1)
  PROVE  /\ Stacked(S, age, t) /\ t \in Seq(Frames)
         /\ t = <<>> => st[Len(st)].node = Oldest(age, S) /\ Len(st) = 1
         /\ t # <<>> => Calls(age, t[Len(t)], st[Len(st)]) /\ t[Len(t)].node \in S
<1> DEFINE d == Len(st)
<1>1. d \in Nat /\ d >= 1
  BY EmptySeq
<1>2. t \in Seq(Frames) /\ Len(t) = d - 1 /\ \A i \in 1 .. d - 1 : t[i] = st[i]
  <2>1. t = SubSeq(st, 1, d - 1)
    OBVIOUS
  <2>2. 1 .. d - 1 \subseteq 1 .. d
    BY <1>1
  <2>3. t = [i \in 1 .. d - 1 |-> st[i]]
    BY <1>1, <2>1, <2>2
  <2>4. \A i \in 1 .. d : st[i] \in Frames
    OBVIOUS
  <2> HIDE DEF d
  <2>5. \A i \in 1 .. d - 1 : st[i] \in Frames
    BY <2>2, <2>4
  <2>6. d - 1 \in Nat
    BY <1>1
  <2>7. t \in Seq(Frames)
    BY <2>3, <2>5, <2>6
  <2>8. Len(t) = d - 1
    BY <2>3, <2>6
  <2>9. QED
    BY <2>3, <2>7, <2>8
<1>0. t # <<>> => Len(t) \in Nat /\ Len(t) >= 1
  BY <1>2, EmptySeq
<1>a. t = <<>> => Len(t) = 0
  BY EmptySeq
<1> HIDE DEF d
<1>3. \A i \in 1 .. d - 1 : i \in 1 .. d
  BY <1>1
<1>4. \A i \in 1 .. d - 1 : t[i].node \in S
  BY <1>2, <1>3 DEF Stacked, d
<1>5. t # <<>> => t[1].node = Oldest(age, S)
  <2> SUFFICES ASSUME t # <<>> PROVE t[1].node = Oldest(age, S)
    OBVIOUS
  <2>1. 1 \in 1 .. d - 1
    BY <1>0, <1>1, <1>2
  <2>2. QED
    BY <1>2, <2>1 DEF Stacked
<1>6. ASSUME NEW i \in 1 .. Len(t) - 1
      PROVE  Calls(age, t[i], t[i + 1])
  <2>1. i \in 1 .. d - 1 /\ i + 1 \in 1 .. d - 1
    BY <1>1, <1>2
  <2>2. QED
    BY <1>2, <2>1 DEF Stacked, d
<1>7. Stacked(S, age, t)
  BY <1>2, <1>4, <1>5, <1>6 DEF Stacked
<1>8. t = <<>> => d = 1
  BY <1>1, <1>2, <1>a
<1>9. t = <<>> => st[d].node = Oldest(age, S)
  BY <1>8 DEF Stacked, d
<1>10. t # <<>> => Calls(age, t[Len(t)], st[d]) /\ t[Len(t)].node \in S
  <2> SUFFICES ASSUME t # <<>> PROVE Calls(age, t[Len(t)], st[d]) /\ t[Len(t)].node \in S
    OBVIOUS
  <2>1. d - 1 \in 1 .. d - 1 /\ d - 1 + 1 = d
    BY <1>0, <1>1, <1>2
  <2>2. Calls(age, st[d - 1], st[d - 1 + 1])
    BY <2>1 DEF Stacked, d
  <2>3. QED
    BY <1>2, <1>4, <2>1, <2>2
<1>11. QED
  BY <1>2, <1>7, <1>8, <1>9, <1>10 DEF d

(* A step on the way to an element of a tree *)
LEMMA TreeStepFinds ==
  ASSUME FInv, NInv', memory' = memory, kept' = kept, answer' = answer, kind \in TreeKinds,
         walk'.op \in {"element", "crashed"},
         intact /\ walk'.op = "element" =>
            \A S \in SUBSET Nodes : \A age \in Ages(S) : \A junk \in Ptr :
                contents = Sorted(S) /\ link = Tree(kind, age, junk) =>
                    /\ kind = "stdcpp_tree" => Recursion(S, age)'
                    /\ kind = "libcxx_tree" => Iteration(S, age)'
  PROVE  FInv'
<1>1. Shape' /\ Right'
  BY ShapeKept, RightKept DEF FInv
<1>2. intact' = intact /\ contents' = contents /\ changes' = changes /\ kind' = kind /\ link' = link
  BY DEF memory
<1>3. SizeFinds'
  BY <1>2 DEF FInv, Finds, SizeFinds
<1>4. ChainFinds'
  BY <1>2 DEF ChainFinds, TreeKinds, Chains
<1>5. TreeFinds'
  BY <1>2 DEF TreeFinds
<1>6. QED
  BY <1>1, <1>3, <1>4, <1>5 DEF FInv, Finds

(* The recursion over an intact tree *)
LEMMA RecursionAt ==
  ASSUME FInv, intact, InTree, NEW S \in SUBSET Nodes, NEW age \in Ages(S), NEW junk \in Ptr,
         contents = Sorted(S), link = Tree(kind, age, junk)
  PROVE  /\ Recursion(S, age)
         /\ walk.stack # <<>> /\ (S # {} \/ Top.stage # "left") =>
               /\ S # {} /\ Stacked(S, age, walk.stack) /\ Top.node \in S
               /\ Reached(age, Top, walk.n)
         /\ S = {} => walk.stack # <<>> /\ Top.node = Null
<1>1. Recursion(S, age)
  BY DEF FInv, Finds, TreeFinds, InTree, InElement, TreeKinds
<1>2. walk.stack \in Seq(Frames)
  BY ElementTypes DEF FInv, InTree, InElement
<1>3. CASE S = {}
  <2>1. walk.stack = <<[node |-> Null, stage |-> "left"]>>
    BY <1>1, <1>3 DEF Recursion
  <2>2. walk.stack # <<>> /\ Top = [node |-> Null, stage |-> "left"]
    BY <2>1 DEF Top
  <2>3. QED
    BY <1>1, <1>3, <2>2
<1>4. CASE S # {}
  <2>1. walk.stack # <<>> => Len(walk.stack) \in 1 .. Len(walk.stack)
    BY <1>2, EmptySeq
  <2>2. walk.stack # <<>> => /\ Stacked(S, age, walk.stack) /\ Reached(age, Top, walk.n)
    BY <1>1, <1>4 DEF Recursion
  <2>3. walk.stack # <<>> => Top.node \in S
    BY <2>1, <2>2 DEF Stacked, Top
  <2>4. QED
    BY <1>1, <1>4, <2>2, <2>3
<1>5. QED
  BY <1>3, <1>4

(* A call, or going on without one *)
LEMMA CallFinds ==
  ASSUME FInv, NInv', InTree, walk.stack # <<>>, memory' = memory, kept' = kept, answer' = answer,
         NEW p \in Ptr, NEW g \in {"self", "return"}, CallFor(p, g),
         intact => \A S \in SUBSET Nodes : \A age \in Ages(S) : \A junk \in Ptr :
                contents = Sorted(S) /\ link = Tree(kind, age, junk) =>
                    /\ S # {} /\ Stacked(S, age, walk.stack)
                    /\ p = Null => Reached(age, [node |-> Top.node, stage |-> g], walk.n)
                    /\ p # Null =>
                        /\ p \in S
                        /\ Calls(age, [node |-> Top.node, stage |-> g], [node |-> p, stage |-> "left"])
                        /\ Reached(age, [node |-> p, stage |-> "left"], walk.n)
  PROVE  FInv'
<1>1. walk.op = "element" /\ kind = "stdcpp_tree" /\ kind \in TreeKinds /\ kind # "libcxx_tree"
  BY DEF InTree, InElement, TreeKinds
<1> DEFINE s == walk.stack
           d == Len(s)
           t == WithTop(g)
           f == [node |-> p, stage |-> "left"]
<1>2. /\ s \in Seq(Frames) /\ d \in Nat /\ d \in 1 .. d /\ t \in Seq(Frames) /\ Len(t) = d
      /\ t[d] = [node |-> Top.node, stage |-> g] /\ Top = s[d]
      /\ \A i \in 1 .. d - 1 : t[i] = s[i]
  BY <1>1, WithTopTypes, ElementTypes DEF FInv, Top
<1>3. f \in Frames /\ f.node = p
  BY DEF Frames
<1>4. intact' = intact /\ contents' = contents /\ kind' = kind
  BY DEF memory
<1> HIDE DEF t, f
<1>5. t # <<>> /\ Append(t, f) \in Seq(Frames) /\ Len(Append(t, f)) = d + 1
      /\ Append(t, f)[d + 1] = f /\ Append(t, f) # <<>>
  <2> HIDE DEF s, d
  <2>1. Append(t, f) \in Seq(Frames) /\ Len(Append(t, f)) = d + 1 /\ Append(t, f)[d + 1] = f
    BY <1>2, <1>3
  <2>2. Len(t) # 0 /\ Len(Append(t, f)) # 0
    BY <1>2, <2>1
  <2>3. QED
    BY <2>1, <2>2
<1>6. CASE p = Null
  <2>1. walk' = [walk EXCEPT !.stack = t]
    BY <1>6 DEF CallFor, t
  <2>2. walk' = [op |-> "element", index |-> walk.index, n |-> walk.n, node |-> walk.node,
                 mode |-> walk.mode, stack |-> t]
    <3>1. \A u \in Seq(Frames) : [walk EXCEPT !.stack = u] =
               [op |-> "element", index |-> walk.index, n |-> walk.n, node |-> walk.node,
                mode |-> walk.mode, stack |-> u]
      BY <1>1, WithStack DEF FInv
    <3>2. QED
      BY <1>2, <2>1, <3>1, Zenon
  <2>3. walk'.op = "element" /\ walk'.n = walk.n /\ walk'.stack = t
    BY <2>2
  <2>4. Top' = [node |-> Top.node, stage |-> g]
    BY <1>2, <2>3 DEF Top
  <2>5. ASSUME intact, NEW S \in SUBSET Nodes, NEW age \in Ages(S), NEW junk \in Ptr,
               contents = Sorted(S), link = Tree(kind, age, junk)
        PROVE  Recursion(S, age)'
    <3>1. S # {} /\ Stacked(S, age, s) /\ Reached(age, [node |-> Top.node, stage |-> g], walk.n)
      BY <1>6, <2>5
    <3>2. t[d].node = s[d].node
      BY <1>2
    <3>3. Stacked(S, age, t)
      BY <1>2, <3>1, <3>2, StackedStage
    <3>4. Reached(age, Top, walk.n)'
      BY <1>4, <2>3, <2>4, <3>1 DEF Reached
    <3>5. QED
      BY <1>5, <2>3, <3>1, <3>3, <3>4 DEF Recursion
  <2>6. QED
    BY <1>1, <2>3, <2>5, TreeStepFinds
<1>7. CASE p # Null /\ Len(walk.stack) = MaxStack
  <2>1. walk' = [op |-> "crashed"]
    BY <1>7 DEF CallFor
  <2>2. walk'.op = "crashed"
    BY <2>1
  <2>3. QED
    BY <1>1, <2>2, TreeStepFinds
<1>8. CASE p # Null /\ Len(walk.stack) # MaxStack
  <2>1. walk' = [walk EXCEPT !.stack = Append(t, f)]
    BY <1>8 DEF CallFor, t, f
  <2>2. walk' = [op |-> "element", index |-> walk.index, n |-> walk.n, node |-> walk.node,
                 mode |-> walk.mode, stack |-> Append(t, f)]
    <3>1. \A u \in Seq(Frames) : [walk EXCEPT !.stack = u] =
               [op |-> "element", index |-> walk.index, n |-> walk.n, node |-> walk.node,
                mode |-> walk.mode, stack |-> u]
      BY <1>1, WithStack DEF FInv
    <3>2. QED
      BY <1>5, <2>1, <3>1, Zenon
  <2>3. walk'.op = "element" /\ walk'.n = walk.n /\ walk'.stack = Append(t, f)
    BY <2>2
  <2>4. Top' = f
    BY <1>5, <2>3 DEF Top
  <2>5. ASSUME intact, NEW S \in SUBSET Nodes, NEW age \in Ages(S), NEW junk \in Ptr,
               contents = Sorted(S), link = Tree(kind, age, junk)
        PROVE  Recursion(S, age)'
    <3>1. /\ S # {} /\ Stacked(S, age, s) /\ p \in S
          /\ Calls(age, [node |-> Top.node, stage |-> g], f) /\ Reached(age, f, walk.n)
      BY <1>8, <2>5 DEF f
    <3>2. t[d].node = s[d].node
      BY <1>2
    <3>3. Stacked(S, age, t)
      BY <1>2, <3>1, <3>2, StackedStage
    <3>4. Stacked(S, age, Append(t, f))
      BY <1>2, <1>3, <1>5, <3>1, <3>3, StackedCall
    <3>5. Reached(age, Top, walk.n)'
      BY <1>4, <2>3, <2>4, <3>1 DEF Reached
    <3>6. QED
      BY <1>5, <2>3, <3>1, <3>4, <3>5 DEF Recursion
  <2>6. QED
    BY <1>1, <2>3, <2>5, TreeStepFinds
<1>9. QED
  BY <1>6, <1>7, <1>8

(* Down to the left *)
LEMMA TreeLeftFinds ==
  ASSUME FInv, TreeLeft
  PROVE  FInv'
<1>1. InTree /\ memory' = memory /\ walk.op = "element" /\ Walking /\ kind \in TreeKinds
      /\ kind = "stdcpp_tree" /\ walk.stack # <<>> /\ Top.stage = "left"
  BY DEF TreeLeft, InTree, InElement, Walking, TreeKinds
<1>2. NInv'
  BY TreeTypes DEF FInv
<1>3. \A S \in SUBSET Nodes : S \subseteq Cells /\ Null \notin Cells
  BY NodesAssumption DEF Cells
<1>4. CASE ~Readable(Top.node)
  <2>1. Fail
    BY <1>4 DEF TreeLeft
  <2>2. intact => walk.index >= Len(contents)
    <3> SUFFICES ASSUME intact PROVE walk.index >= Len(contents)
      OBVIOUS
    <3>a. PICK S \in SUBSET Nodes : \E age \in Ages(S) : \E junk \in Ptr :
                contents = Sorted(S) /\ link = Tree(kind, age, junk)
      BY <1>1, SomeTree
    <3>1. PICK age \in Ages(S) : \E junk \in Ptr :
                contents = Sorted(S) /\ link = Tree(kind, age, junk)
      BY <3>a
    <3>2. S = {}
      <4>1. S # {} => Top.node \in S
        BY <1>1, <3>1, RecursionAt
      <4>2. QED
        BY <1>3, <1>4, <4>1 DEF Readable
    <3>3. Len(contents) = 0
      BY <3>1, <3>2, SortedFacts, FS_EmptySet
    <3>4. walk.index \in Nat
      BY <1>1, ElementTypes DEF FInv
    <3>5. QED
      BY <3>3, <3>4
  <2>3. QED
    BY <1>1, <2>1, <2>2, FailFinds
<1>5. CASE Readable(Top.node)
  <2> DEFINE p == Read(Top.node, "left")
             a == Top.node
  <2>1. CallFor(p, "self") /\ kept' = kept /\ answer' = answer
    BY <1>5 DEF TreeLeft
  <2>2. p \in Ptr
    BY ReadType DEF FInv, NInv
  <2>3. ASSUME intact, NEW S \in SUBSET Nodes, NEW age \in Ages(S), NEW junk \in Ptr,
               contents = Sorted(S), link = Tree(kind, age, junk)
        PROVE  /\ S # {} /\ Stacked(S, age, walk.stack)
               /\ p = Null => Reached(age, [node |-> Top.node, stage |-> "self"], walk.n)
               /\ p # Null =>
                    /\ p \in S
                    /\ Calls(age, [node |-> Top.node, stage |-> "self"], [node |-> p, stage |-> "left"])
                    /\ Reached(age, [node |-> p, stage |-> "left"], walk.n)
    <3>1. S # {}
      <4>1. S = {} => Top.node = Null
        BY <1>1, <2>3, RecursionAt
      <4>2. QED
        BY <1>3, <1>5, <4>1 DEF Readable
    <3>2. Stacked(S, age, walk.stack) /\ a \in S /\ Reached(age, Top, walk.n)
      BY <1>1, <2>3, <3>1, RecursionAt
    <3>3. walk.n < Len(contents) /\ LeastOf(contents[walk.n + 1], Subtree(age, a))
      BY <1>1, <3>2 DEF Reached
    <3>4. p = LeftOf(age, a)
      BY <1>1, <2>3, <3>2, TreeReads
    <3> HIDE DEF a, p
    <3>5. LeftPart(age, a) = {} <=> p = Null
      BY <3>2, <3>4, ChildTypes
    <3>6. p = Null => contents[walk.n + 1] = a
      BY <3>2, <3>3, <3>5, LeastLeft
    <3>7. p # Null => /\ p \in S /\ Subtree(age, p) = LeftPart(age, a)
                      /\ LeastOf(contents[walk.n + 1], LeftPart(age, a))
      BY <3>2, <3>3, <3>4, <3>5, LeastLeft, ChildFacts, PartFacts
    <3>8. p = Null => Reached(age, [node |-> a, stage |-> "self"], walk.n)
      BY <3>3, <3>6 DEF Reached
    <3>9. p # Null => Reached(age, [node |-> p, stage |-> "left"], walk.n)
      BY <3>3, <3>7 DEF Reached
    <3>10. Calls(age, [node |-> a, stage |-> "self"], [node |-> p, stage |-> "left"])
      BY <3>4 DEF Calls
    <3>11. QED
      BY <3>1, <3>2, <3>7, <3>8, <3>9, <3>10 DEF a
  <2> HIDE DEF p
  <2>4. QED
    BY <1>1, <1>2, <2>1, <2>2, <2>3, CallFinds
<1>6. QED
  BY <1>4, <1>5

(* Down to the right *)
LEMMA TreeRightFinds ==
  ASSUME FInv, TreeRight
  PROVE  FInv'
<1>1. InTree /\ memory' = memory /\ walk.op = "element" /\ kind \in TreeKinds
      /\ kind = "stdcpp_tree" /\ walk.stack # <<>> /\ Top.stage = "right" /\ Top.stage # "left"
      /\ kept' = kept /\ answer' = answer
  BY DEF TreeRight, InTree, InElement, TreeKinds
<1>2. NInv'
  BY TreeTypes DEF FInv
<1> DEFINE p == Read(Top.node, "right")
           a == Top.node
<1>3. CallFor(p, "return")
  BY DEF TreeRight
<1>4. p \in Ptr
  BY ReadType DEF FInv, NInv
<1>5. ASSUME intact, NEW S \in SUBSET Nodes, NEW age \in Ages(S), NEW junk \in Ptr,
             contents = Sorted(S), link = Tree(kind, age, junk)
      PROVE  /\ S # {} /\ Stacked(S, age, walk.stack)
             /\ p = Null => Reached(age, [node |-> Top.node, stage |-> "return"], walk.n)
             /\ p # Null =>
                  /\ p \in S
                  /\ Calls(age, [node |-> Top.node, stage |-> "return"], [node |-> p, stage |-> "left"])
                  /\ Reached(age, [node |-> p, stage |-> "left"], walk.n)
  <2>1. S # {} /\ Stacked(S, age, walk.stack) /\ a \in S /\ Reached(age, Top, walk.n)
    BY <1>1, <1>5, RecursionAt
  <2>2. 0 < walk.n /\ walk.n <= Len(contents) /\ contents[walk.n] = a
    BY <1>1, <2>1 DEF Reached
  <2>3. p = RightOf(age, a)
    BY <1>1, <1>5, <2>1, TreeReads
  <2>4. walk.n \in 1 .. Len(contents)
    <3>1. walk.n \in Nat /\ Len(contents) \in Nat
      BY <1>1, ElementTypes, ContentsTypes DEF FInv
    <3>2. QED
      BY <2>2, <3>1
  <2> HIDE DEF a, p
  <2>5. RightPart(age, a) = {} <=> p = Null
    BY <2>1, <2>3, ChildTypes
  <2>6. p = Null => GreatestOf(contents[walk.n], Subtree(age, a))
    BY <2>1, <2>2, <2>5, GreatestRight
  <2>7. p # Null => p \in S /\ Subtree(age, p) = RightPart(age, a)
    BY <2>1, <2>3, <2>5, ChildFacts, PartFacts
  <2>8. p # Null => walk.n < Len(contents) /\ LeastOf(contents[walk.n + 1], RightPart(age, a))
    BY <1>5, <2>1, <2>2, <2>4, <2>5, DownRight
  <2>9. p = Null => Reached(age, [node |-> a, stage |-> "return"], walk.n)
    BY <2>2, <2>6 DEF Reached
  <2>10. p # Null => Reached(age, [node |-> p, stage |-> "left"], walk.n)
    BY <2>7, <2>8 DEF Reached
  <2>11. Calls(age, [node |-> a, stage |-> "return"], [node |-> p, stage |-> "left"])
    BY <2>3 DEF Calls
  <2>12. QED
    BY <2>1, <2>7, <2>9, <2>10, <2>11 DEF a
<1> HIDE DEF p
<1>6. QED
  BY <1>1, <1>2, <1>3, <1>4, <1>5, CallFinds

(* The node itself *)
LEMMA TreeSelfFinds ==
  ASSUME FInv, TreeSelf
  PROVE  FInv'
<1>1. InTree /\ memory' = memory /\ walk.op = "element" /\ kind \in TreeKinds
      /\ kind = "stdcpp_tree" /\ walk.stack # <<>> /\ Top.stage = "self" /\ Top.stage # "left"
  BY DEF TreeSelf, InTree, InElement, TreeKinds
<1>2. NInv'
  BY TreeTypes DEF FInv
<1>3. walk.n \in Nat /\ Len(contents) \in Nat /\ DOMAIN contents = 1 .. Len(contents)
      /\ walk.index \in Nat
  BY <1>1, ElementTypes, ContentsTypes DEF FInv
<1>4. ASSUME intact, NEW S \in SUBSET Nodes, NEW age \in Ages(S), NEW junk \in Ptr,
             contents = Sorted(S), link = Tree(kind, age, junk)
      PROVE  /\ S # {} /\ Stacked(S, age, walk.stack) /\ Top.node \in S
             /\ walk.n < Len(contents) /\ contents[walk.n + 1] = Top.node
  <2>1. S # {} /\ Stacked(S, age, walk.stack) /\ Top.node \in S /\ Reached(age, Top, walk.n)
    BY <1>1, <1>4, RecursionAt
  <2>2. QED
    BY <1>1, <2>1 DEF Reached
<1>5. CASE walk.n = walk.index
  <2>1. Show(Top.node)
    BY <1>5 DEF TreeSelf
  <2>2. intact => /\ Top.node \in Cells /\ walk.n < Len(contents) /\ contents[walk.n + 1] = Top.node
    <3> SUFFICES ASSUME intact
                 PROVE  /\ Top.node \in Cells /\ walk.n < Len(contents)
                        /\ contents[walk.n + 1] = Top.node
      OBVIOUS
    <3>1. PICK S \in SUBSET Nodes : \E age \in Ages(S) : \E junk \in Ptr :
                contents = Sorted(S) /\ link = Tree(kind, age, junk)
      BY <1>1, SomeTree
    <3>2. Top.node \in S /\ walk.n < Len(contents) /\ contents[walk.n + 1] = Top.node
      BY <1>4, <3>1
    <3>3. QED
      BY <3>2 DEF Cells
  <2>3. intact => walk.n + 1 \in DOMAIN contents
    BY <1>3, <2>2
  <2>4. QED
    BY <1>1, <1>5, <2>1, <2>2, <2>3, ShowFinds
<1>6. CASE walk.n # walk.index
  <2> DEFINE t == WithTop("right")
             d == Len(walk.stack)
             m == walk.n + 1
  <2>1. walk' = [walk EXCEPT !.n = m, !.stack = t] /\ kept' = kept /\ answer' = answer
    BY <1>6 DEF TreeSelf, AfterSelf
  <2>2. /\ d \in Nat /\ d \in 1 .. d /\ t \in Seq(Frames) /\ Len(t) = d
        /\ t[d] = [node |-> Top.node, stage |-> "right"] /\ Top = walk.stack[d]
        /\ \A i \in 1 .. d - 1 : t[i] = walk.stack[i]
    BY <1>1, WithTopTypes DEF FInv, Top
  <2>3. m \in Int
    BY <1>3
  <2> HIDE DEF t, m
  <2>4. walk' = [op |-> "element", index |-> walk.index, n |-> m, node |-> walk.node,
                 mode |-> walk.mode, stack |-> t]
    <3>1. \A n \in Int : \A u \in Seq(Frames) : [walk EXCEPT !.n = n, !.stack = u] =
               [op |-> "element", index |-> walk.index, n |-> n, node |-> walk.node,
                mode |-> walk.mode, stack |-> u]
      BY <1>1, WithCount DEF FInv
    <3>2. QED
      BY <2>1, <2>2, <2>3, <3>1, Zenon
  <2>5. walk'.op = "element" /\ walk'.n = m /\ walk'.stack = t
    BY <2>4
  <2>6. t # <<>> /\ walk.stack \in Seq(Frames)
    <3>1. walk.stack \in Seq(Frames)
      BY <1>1, ElementTypes DEF FInv
    <3>2. Len(t) # 0
      BY <2>2
    <3>3. QED
      BY <3>1, <3>2
  <2>7. Top' = [node |-> Top.node, stage |-> "right"]
    BY <2>2, <2>5 DEF Top
  <2>8. intact' = intact /\ contents' = contents /\ kind' = kind
    BY <1>1 DEF memory
  <2>9. ASSUME intact, NEW S \in SUBSET Nodes, NEW age \in Ages(S), NEW junk \in Ptr,
               contents = Sorted(S), link = Tree(kind, age, junk)
        PROVE  Recursion(S, age)'
    <3>1. /\ S # {} /\ Stacked(S, age, walk.stack)
          /\ walk.n < Len(contents) /\ contents[walk.n + 1] = Top.node
      BY <1>4, <2>9
    <3>2. t[d].node = walk.stack[d].node
      BY <2>2
    <3>3. Stacked(S, age, t)
      BY <1>1, <2>2, <2>6, <3>1, <3>2, StackedStage
    <3>4. 0 < m /\ m <= Len(contents) /\ contents[m] = Top.node
      BY <1>3, <3>1 DEF m
    <3>5. Reached(age, Top, walk.n)'
      BY <2>5, <2>7, <2>8, <3>4 DEF Reached
    <3>6. QED
      BY <2>5, <2>6, <3>1, <3>3, <3>5 DEF Recursion
  <2>10. kind # "libcxx_tree"
    BY <1>1
  <2>11. QED
    BY <1>1, <1>2, <2>1, <2>5, <2>9, <2>10, TreeStepFinds
<1>7. QED
  BY <1>5, <1>6

(* Back to the call below *)
LEMMA TreeReturnFinds ==
  ASSUME FInv, TreeReturn
  PROVE  FInv'
<1>1. InTree /\ memory' = memory /\ walk.op = "element" /\ kind \in TreeKinds
      /\ kind = "stdcpp_tree" /\ kind # "libcxx_tree" /\ walk.stack # <<>>
      /\ Top.stage = "return" /\ Top.stage # "left" /\ kept' = kept /\ answer' = answer
  BY DEF TreeReturn, InTree, InElement, TreeKinds
<1>2. NInv'
  BY TreeTypes DEF FInv
<1>3. walk.n \in Nat /\ Len(contents) \in Nat /\ walk.stack \in Seq(Frames)
  BY <1>1, ElementTypes, ContentsTypes DEF FInv
<1> DEFINE s == walk.stack
           d == Len(s)
           t == SubSeq(s, 1, d - 1)
<1>4. walk' = [walk EXCEPT !.stack = t]
  BY DEF TreeReturn
<1>5. t \in Seq(Frames)
  <2> HIDE DEF s
  <2>1. s \in Seq(Frames) /\ s # <<>>
    BY <1>1, <1>3 DEF s
  <2>2. QED
    BY <2>1
<1> HIDE DEF t
<1>6. walk' = [op |-> "element", index |-> walk.index, n |-> walk.n, node |-> walk.node,
               mode |-> walk.mode, stack |-> t]
  <2>1. \A u \in Seq(Frames) : [walk EXCEPT !.stack = u] =
             [op |-> "element", index |-> walk.index, n |-> walk.n, node |-> walk.node,
              mode |-> walk.mode, stack |-> u]
    BY <1>1, WithStack DEF FInv
  <2>2. QED
    BY <1>4, <1>5, <2>1, Zenon
<1>7. walk'.op = "element" /\ walk'.n = walk.n /\ walk'.stack = t
  BY <1>6
<1>8. intact' = intact /\ contents' = contents /\ kind' = kind
  BY <1>1 DEF memory
<1>9. ASSUME intact, NEW S \in SUBSET Nodes, NEW age \in Ages(S), NEW junk \in Ptr,
             contents = Sorted(S), link = Tree(kind, age, junk)
      PROVE  Recursion(S, age)'
  <2> DEFINE a == s[d].node
             n == walk.n
             e == t[Len(t)]
  <2>1. S # {} /\ Stacked(S, age, s) /\ Top.node \in S /\ Reached(age, Top, n) /\ Top = s[d]
    <3>1. S # {} /\ Stacked(S, age, s) /\ Top.node \in S /\ Reached(age, Top, n)
      BY <1>1, <1>9, RecursionAt
    <3>2. Top = s[d]
      BY DEF Top
    <3>3. QED
      BY <3>1, <3>2
  <2>2. 0 < n /\ n <= Len(contents) /\ GreatestOf(contents[n], Subtree(age, a)) /\ a \in S
    BY <1>1, <2>1 DEF Reached
  <2>3. n \in 1 .. Len(contents)
    BY <1>3, <2>2
  <2>4. /\ Stacked(S, age, t)
        /\ t = <<>> => a = Oldest(age, S)
        /\ t # <<>> => Calls(age, e, s[d]) /\ e.node \in S
    BY <1>1, <1>3, <2>1, StackedReturn DEF t
  <2> HIDE DEF a, n, e
  <2>5. t = <<>> => n = Len(contents)
    <3>1. t = <<>> => Subtree(age, a) = S
      BY <2>1, <2>4, RootFacts
    <3>2. QED
      BY <1>9, <2>2, <2>3, <3>1, LastInOrder
  <2>6. t # <<>> => Reached(age, e, n)
    <3> SUFFICES ASSUME t # <<>> PROVE Reached(age, e, n)
      OBVIOUS
    <3>1. Calls(age, e, s[d]) /\ e.node \in S /\ Null \notin S
      BY <2>4, NodesAssumption DEF Cells
    <3>2. CASE e.stage = "self"
      <4>1. a = LeftOf(age, e.node)
        BY <3>1, <3>2 DEF Calls, a
      <4>2. Subtree(age, a) = LeftPart(age, e.node)
        BY <2>2, <3>1, <4>1, ChildFacts
      <4>3. GreatestOf(contents[n], LeftPart(age, e.node))
        BY <2>2, <4>2
      <4>4. n < Len(contents) /\ contents[n + 1] = e.node
        BY <1>9, <2>3, <3>1, <4>3, UpFromLeft
      <4>5. QED
        BY <3>2, <4>4 DEF Reached
    <3>3. CASE e.stage = "return"
      <4>1. a = RightOf(age, e.node)
        BY <3>1, <3>3 DEF Calls, a
      <4>2. Subtree(age, a) = RightPart(age, e.node)
        BY <2>2, <3>1, <4>1, ChildFacts
      <4>3. GreatestOf(contents[n], RightPart(age, e.node))
        BY <2>2, <4>2
      <4>4. GreatestOf(contents[n], Subtree(age, e.node))
        BY <3>1, <4>3, GreatestRight
      <4>5. QED
        BY <2>2, <3>3, <4>4 DEF Reached
    <3>4. QED
      BY <3>1, <3>2, <3>3 DEF Calls
  <2>7. Top' = e
    BY <1>7 DEF Top, e
  <2>8. t # <<>> => Reached(age, Top, walk.n)'
    BY <1>7, <1>8, <2>6, <2>7 DEF Reached, n
  <2>9. QED
    BY <1>7, <1>8, <2>1, <2>4, <2>5, <2>8 DEF Recursion, n
<1>10. QED
  BY <1>1, <1>2, <1>7, <1>9, TreeStepFinds

(* No call is left: the index is beyond the last node *)
LEMMA TreeNotFoundFinds ==
  ASSUME FInv, TreeNotFound
  PROVE  FInv'
<1>1. InTree /\ memory' = memory /\ walk.op = "element" /\ kind \in TreeKinds /\ Walking
      /\ walk.stack = <<>> /\ Fail
  BY DEF TreeNotFound, InTree, InElement, TreeKinds, Walking
<1>2. walk.n <= walk.index /\ walk.n \in Nat /\ walk.index \in Nat
  BY <1>1, ElementTypes DEF FInv
<1>3. intact => walk.index >= Len(contents)
  <2> SUFFICES ASSUME intact PROVE walk.index >= Len(contents)
    OBVIOUS
  <2>1. PICK S \in SUBSET Nodes : \E age \in Ages(S) : \E junk \in Ptr :
              contents = Sorted(S) /\ link = Tree(kind, age, junk)
    BY <1>1, SomeTree
  <2>2. PICK age \in Ages(S) : \E junk \in Ptr :
              contents = Sorted(S) /\ link = Tree(kind, age, junk)
    BY <2>1
  <2>3. Recursion(S, age) /\ S # {}
    BY <1>1, <2>2, RecursionAt
  <2>4. walk.n = Len(contents)
    BY <1>1, <2>3 DEF Recursion
  <2>5. QED
    BY <1>2, <2>4
<1>4. QED
  BY <1>1, <1>3, FailFinds

-----------------------------------------------------------------------------
(* The iteration over a tree of libc++ *)

(* Where the iteration over an intact tree is, for an index that is there *)
LEMMA IterationAt ==
  ASSUME FInv, intact, InIteration, walk.index < Len(contents),
         NEW S \in SUBSET Nodes, NEW age \in Ages(S), NEW junk \in Ptr,
         contents = Sorted(S), link = Tree(kind, age, junk)
  PROVE  /\ walk.mode = "next" => walk.node = contents[walk.n + 1]
         /\ walk.mode = "min" => /\ walk.node \in S
                                 /\ LeastOf(contents[walk.n + 2], Subtree(age, walk.node))
         /\ walk.mode = "climb" => /\ walk.node \in S
                                   /\ GreatestOf(contents[walk.n + 1], Subtree(age, walk.node))
         /\ walk.n + 1 \in 1 .. Len(contents) /\ contents[walk.n + 1] \in S
         /\ walk.n < walk.index => walk.n + 1 < Len(contents)
<1>1. walk.op = "element" /\ kind = "libcxx_tree" /\ kind \in TreeKinds
  BY DEF InIteration, InElement, TreeKinds
<1>2. Iteration(S, age)
  BY <1>1 DEF FInv, Finds, TreeFinds
<1>3. walk.n <= walk.index /\ walk.n \in Nat /\ walk.index \in Nat /\ Len(contents) \in Nat
  BY <1>1, ElementTypes, ContentsTypes DEF FInv
<1>4. contents \in Seq(S)
  BY SortedFacts
<1>5. walk.n + 1 \in 1 .. Len(contents) /\ (walk.n < walk.index => walk.n + 1 < Len(contents))
  BY <1>3
<1>6. contents[walk.n + 1] \in S
  BY <1>4, <1>5
<1>7. QED
  BY <1>2, <1>5, <1>6 DEF Iteration

(* A step of the iteration *)
LEMMA IterationStepFinds ==
  ASSUME FInv, NInv', InIteration, memory' = memory, kept' = kept, answer' = answer,
         NEW p, NEW n, NEW m \in {"next", "min", "climb"},
         walk' = [op |-> "element", index |-> walk.index, n |-> n, node |-> p,
                  mode |-> m, stack |-> walk.stack],
         intact /\ walk.index < Len(contents) =>
            \A S \in SUBSET Nodes : \A age \in Ages(S) : \A junk \in Ptr :
                contents = Sorted(S) /\ link = Tree(kind, age, junk) =>
                    /\ m = "next" => p = contents[n + 1]
                    /\ m = "min" => p \in S /\ LeastOf(contents[n + 2], Subtree(age, p))
                    /\ m = "climb" => p \in S /\ GreatestOf(contents[n + 1], Subtree(age, p))
  PROVE  FInv'
<1>1. kind = "libcxx_tree" /\ kind # "stdcpp_tree" /\ kind \in TreeKinds
  BY DEF InIteration, InElement, TreeKinds
<1>2. walk'.op = "element" /\ walk'.n = n /\ walk'.index = walk.index
      /\ walk'.mode = m /\ walk'.node = p
  OBVIOUS
<1>3. contents' = contents
  BY DEF memory
<1>4. ASSUME intact, NEW S \in SUBSET Nodes, NEW age \in Ages(S), NEW junk \in Ptr,
             contents = Sorted(S), link = Tree(kind, age, junk)
      PROVE  Iteration(S, age)'
  BY <1>2, <1>3, <1>4 DEF Iteration
<1>5. QED
  BY <1>1, <1>2, <1>4, TreeStepFinds

(* A step of the iteration to the next element *)
LEMMA IterationArriveFinds ==
  ASSUME FInv, NInv', InIteration, memory' = memory, kept' = kept, answer' = answer,
         NEW p, NEW n,
         walk' = [op |-> "element", index |-> walk.index, n |-> n, node |-> p,
                  mode |-> "next", stack |-> walk.stack],
         intact /\ walk.index < Len(contents) =>
            \A S \in SUBSET Nodes : \A age \in Ages(S) : \A junk \in Ptr :
                contents = Sorted(S) /\ link = Tree(kind, age, junk) => p = contents[n + 1]
  PROVE  FInv'
<1>1. kind = "libcxx_tree" /\ kind # "stdcpp_tree" /\ kind \in TreeKinds
  BY DEF InIteration, InElement, TreeKinds
<1>2. walk'.op = "element" /\ walk'.n = n /\ walk'.index = walk.index
      /\ walk'.mode = "next" /\ walk'.node = p
  OBVIOUS
<1>3. contents' = contents
  BY DEF memory
<1>4. ASSUME intact, NEW S \in SUBSET Nodes, NEW age \in Ages(S), NEW junk \in Ptr,
             contents = Sorted(S), link = Tree(kind, age, junk)
      PROVE  Iteration(S, age)'
  BY <1>2, <1>3, <1>4 DEF Iteration
<1>5. QED
  BY <1>1, <1>2, <1>4, TreeStepFinds

(* An iteration does not fail on the way to an index that is there *)
LEMMA IterationFails ==
  ASSUME FInv, InIteration, Fail, memory' = memory,
         intact /\ walk.index < Len(contents) =>
            \A S \in SUBSET Nodes : \A age \in Ages(S) : \A junk \in Ptr :
                ~(contents = Sorted(S) /\ link = Tree(kind, age, junk))
  PROVE  FInv'
<1>1. walk.op = "element" /\ kind \in TreeKinds /\ Walking
  BY DEF InIteration, InElement, TreeKinds, Walking
<1>2. walk.index \in Nat /\ Len(contents) \in Nat
  BY <1>1, ElementTypes, ContentsTypes DEF FInv
<1>3. intact => walk.index >= Len(contents)
  BY <1>1, <1>2, SomeTree
<1>4. QED
  BY <1>1, <1>3, FailFinds

(* tree_next, from a node *)
LEMMA NextStepFinds ==
  ASSUME FInv, NextStep
  PROVE  FInv'
<1>1. InIteration /\ memory' = memory /\ walk.op = "element" /\ kind \in TreeKinds
      /\ kind = "libcxx_tree" /\ walk.mode = "next"
  BY DEF NextStep, InIteration, InElement, TreeKinds
<1>2. NInv' /\ NInv
  BY IterationTypes DEF FInv
<1>3. walk.n <= walk.index /\ walk.n \in Nat /\ walk.index \in Nat /\ Len(contents) \in Nat
      /\ walk.node \in Ptr
  BY <1>1, ElementTypes, ContentsTypes DEF FInv
<1>4. \A S \in SUBSET Nodes : S \subseteq Cells
  BY DEF Cells
<1>5. CASE walk.n = walk.index
  <2>1. Show(walk.node)
    BY <1>5 DEF NextStep
  <2>2. intact /\ walk.index < Len(contents) =>
            walk.node \in Cells /\ walk.node = contents[walk.index + 1]
    <3> SUFFICES ASSUME intact, walk.index < Len(contents)
                 PROVE  walk.node \in Cells /\ walk.node = contents[walk.index + 1]
      OBVIOUS
    <3>1. PICK S \in SUBSET Nodes : \E age \in Ages(S) : \E junk \in Ptr :
                contents = Sorted(S) /\ link = Tree(kind, age, junk)
      BY <1>1, SomeTree
    <3>2. walk.node = contents[walk.n + 1] /\ contents[walk.n + 1] \in S
      BY <1>1, <3>1, IterationAt
    <3>3. QED
      BY <1>4, <1>5, <3>2
  <2>3. QED
    BY <1>1, <2>1, <2>2, ShowFinds
<1>6. CASE walk.n # walk.index /\ ~Readable(walk.node)
  <2>1. Fail
    BY <1>6 DEF NextStep
  <2>2. ASSUME intact, walk.index < Len(contents),
               NEW S \in SUBSET Nodes, NEW age \in Ages(S), NEW junk \in Ptr,
               contents = Sorted(S), link = Tree(kind, age, junk)
        PROVE  FALSE
    <3>1. walk.node = contents[walk.n + 1] /\ contents[walk.n + 1] \in S
      BY <1>1, <2>2, IterationAt
    <3>2. QED
      BY <1>4, <1>6, <3>1 DEF Readable
  <2>3. QED
    BY <1>1, <2>1, <2>2, IterationFails
<1>7. CASE walk.n # walk.index /\ Readable(walk.node)
  <2> DEFINE r == Read(walk.node, "right")
  <2>1. kept' = kept /\ answer' = answer /\ walk.n < walk.index /\ r \in Ptr
    BY <1>2, <1>3, <1>7, ReadType DEF NextStep, NInv
  <2>2. ASSUME intact, walk.index < Len(contents),
               NEW S \in SUBSET Nodes, NEW age \in Ages(S), NEW junk \in Ptr,
               contents = Sorted(S), link = Tree(kind, age, junk)
        PROVE  /\ walk.node \in S /\ walk.node = contents[walk.n + 1]
               /\ r = RightOf(age, walk.node)
               /\ walk.n + 1 \in 1 .. Len(contents)
               /\ RightPart(age, walk.node) = {} <=> r = Null
    <3>1. walk.node = contents[walk.n + 1] /\ contents[walk.n + 1] \in S
          /\ walk.n + 1 \in 1 .. Len(contents)
      BY <1>1, <2>2, IterationAt
    <3>2. r = RightOf(age, walk.node)
      BY <1>1, <2>2, <3>1, TreeReads
    <3>3. QED
      BY <3>1, <3>2, ChildTypes
  <2>3. CASE r = Null
    <3>1. walk' = [walk EXCEPT !.mode = "climb"]
      BY <1>7, <2>3 DEF NextStep
    <3>2. walk' = [op |-> "element", index |-> walk.index, n |-> walk.n, node |-> walk.node,
                   mode |-> "climb", stack |-> walk.stack]
      BY <1>1, <1>2, <1>3, <3>1, IterationRecord
    <3>3. ASSUME intact, walk.index < Len(contents),
                 NEW S \in SUBSET Nodes, NEW age \in Ages(S), NEW junk \in Ptr,
                 contents = Sorted(S), link = Tree(kind, age, junk)
          PROVE  walk.node \in S /\ GreatestOf(contents[walk.n + 1], Subtree(age, walk.node))
      <4>1. walk.node \in S /\ walk.node = contents[walk.n + 1] /\ RightPart(age, walk.node) = {}
        BY <2>2, <2>3, <3>3
      <4>2. QED
        BY <4>1, GreatestRight
    <3>4. QED
      BY <1>1, <1>2, <2>1, <3>2, <3>3, IterationStepFinds
  <2>4. CASE r # Null
    <3>1. walk' = [walk EXCEPT !.mode = "min", !.node = r]
      BY <1>7, <2>4 DEF NextStep
    <3>2. walk' = [op |-> "element", index |-> walk.index, n |-> walk.n, node |-> r,
                   mode |-> "min", stack |-> walk.stack]
      BY <1>1, <1>2, <2>1, <3>1, IterationMin
    <3>3. ASSUME intact, walk.index < Len(contents),
                 NEW S \in SUBSET Nodes, NEW age \in Ages(S), NEW junk \in Ptr,
                 contents = Sorted(S), link = Tree(kind, age, junk)
          PROVE  r \in S /\ LeastOf(contents[walk.n + 2], Subtree(age, r))
      <4> DEFINE a == walk.node
                 k == walk.n + 1
      <4>1. a \in S /\ a = contents[k] /\ k \in 1 .. Len(contents)
            /\ r = RightOf(age, a) /\ RightPart(age, a) # {}
        BY <2>2, <2>4, <3>3
      <4>2. walk.n + 2 = k + 1
        BY <1>3
      <4> HIDE DEF a, k, r
      <4>3. r \in S /\ Subtree(age, r) = RightPart(age, a)
        BY <4>1, ChildFacts, PartFacts
      <4>4. LeastOf(contents[k + 1], RightPart(age, a))
        BY <3>3, <4>1, DownRight
      <4>5. QED
        BY <4>2, <4>3, <4>4
    <3> HIDE DEF r
    <3>4. QED
      BY <1>1, <1>2, <2>1, <3>2, <3>3, IterationStepFinds
  <2>5. QED
    BY <2>3, <2>4
<1>8. QED
  BY <1>5, <1>6, <1>7

(* tree_min *)
LEMMA MinStepFinds ==
  ASSUME FInv, MinStep
  PROVE  FInv'
<1>1. InIteration /\ memory' = memory /\ walk.op = "element" /\ kind \in TreeKinds
      /\ kind = "libcxx_tree" /\ walk.mode = "min"
  BY DEF MinStep, InIteration, InElement, TreeKinds
<1>2. NInv' /\ NInv
  BY IterationTypes DEF FInv
<1>3. walk.n \in Nat /\ walk.node \in Ptr
  BY <1>1, ElementTypes DEF FInv
<1> DEFINE l == Read(walk.node, "left")
           a == walk.node
<1>4. l \in Ptr
  BY <1>2, ReadType DEF NInv
<1>5. ASSUME intact, walk.index < Len(contents),
             NEW S \in SUBSET Nodes, NEW age \in Ages(S), NEW junk \in Ptr,
             contents = Sorted(S), link = Tree(kind, age, junk)
      PROVE  /\ a \in S /\ LeastOf(contents[walk.n + 2], Subtree(age, a)) /\ l = LeftOf(age, a)
             /\ LeftPart(age, a) = {} <=> l = Null
  <2>1. a \in S /\ LeastOf(contents[walk.n + 2], Subtree(age, a))
    BY <1>1, <1>5, IterationAt
  <2>2. l = LeftOf(age, a)
    BY <1>1, <1>5, <2>1, TreeReads
  <2> HIDE DEF l, a
  <2>3. QED
    BY <2>1, <2>2, ChildTypes
<1>6. CASE ~Readable(walk.node)
  <2>1. Fail
    BY <1>6 DEF MinStep
  <2>2. \A S \in SUBSET Nodes : S \subseteq Cells
    BY DEF Cells
  <2>3. a \notin Cells
    BY <1>6 DEF Readable
  <2> HIDE DEF a, l
  <2>4. QED
    BY <1>1, <1>5, <2>1, <2>2, <2>3, IterationFails
<1>7. CASE Readable(walk.node) /\ l = Null
  <2>1. kept' = kept /\ answer' = answer /\ Arrive(a)
    BY <1>7 DEF MinStep
  <2>2. walk' = [op |-> "element", index |-> walk.index, n |-> walk.n + 1, node |-> a,
                 mode |-> "next", stack |-> walk.stack]
    BY <1>1, <1>2, <1>3, <2>1, IterationArrive
  <2> DEFINE k == walk.n + 1
  <2>3. k + 1 = walk.n + 2
    BY <1>3
  <2> HIDE DEF a, l, k
  <2>4. ASSUME intact, walk.index < Len(contents),
               NEW S \in SUBSET Nodes, NEW age \in Ages(S), NEW junk \in Ptr,
               contents = Sorted(S), link = Tree(kind, age, junk)
        PROVE  a = contents[k + 1]
    <3>1. a \in S /\ LeastOf(contents[walk.n + 2], Subtree(age, a)) /\ LeftPart(age, a) = {}
      BY <1>5, <1>7, <2>4
    <3>2. contents[walk.n + 2] = a
      BY <3>1, LeastLeft
    <3>3. QED
      BY <2>3, <3>2
  <2>5. walk' = [op |-> "element", index |-> walk.index, n |-> k, node |-> a,
                 mode |-> "next", stack |-> walk.stack]
    BY <2>2 DEF k
  <2>6. QED
    BY <1>1, <1>2, <2>1, <2>4, <2>5, IterationArriveFinds
<1>8. CASE Readable(walk.node) /\ l # Null
  <2>1. kept' = kept /\ answer' = answer /\ walk' = [walk EXCEPT !.node = l]
    BY <1>8 DEF MinStep
  <2>2. walk' = [op |-> "element", index |-> walk.index, n |-> walk.n, node |-> l,
                 mode |-> "min", stack |-> walk.stack]
    BY <1>1, <1>2, <1>4, <2>1, IterationRecord
  <2> HIDE DEF a, l
  <2>3. ASSUME intact, walk.index < Len(contents),
               NEW S \in SUBSET Nodes, NEW age \in Ages(S), NEW junk \in Ptr,
               contents = Sorted(S), link = Tree(kind, age, junk)
        PROVE  l \in S /\ LeastOf(contents[walk.n + 2], Subtree(age, l))
    <3>1. a \in S /\ LeastOf(contents[walk.n + 2], Subtree(age, a)) /\ LeftPart(age, a) # {}
          /\ l = LeftOf(age, a)
      BY <1>5, <1>8, <2>3
    <3>2. LeastOf(contents[walk.n + 2], LeftPart(age, a))
      BY <3>1, LeastLeft
    <3>3. l \in S /\ Subtree(age, l) = LeftPart(age, a)
      BY <3>1, ChildFacts, PartFacts
    <3>4. QED
      BY <3>2, <3>3
  <2>4. QED
    BY <1>1, <1>2, <2>1, <2>2, <2>3, IterationStepFinds
<1>9. QED
  BY <1>6, <1>7, <1>8

(* while (!tree_is_left_child(res)) *)
LEMMA ClimbStepFinds ==
  ASSUME FInv, ClimbStep
  PROVE  FInv'
<1>1. InIteration /\ memory' = memory /\ walk.op = "element" /\ kind \in TreeKinds
      /\ kind = "libcxx_tree" /\ walk.mode = "climb"
  BY DEF ClimbStep, InIteration, InElement, TreeKinds
<1>2. NInv' /\ NInv
  BY IterationTypes DEF FInv
<1>3. walk.n \in Nat /\ walk.node \in Ptr /\ walk.n < walk.index /\ Len(contents) \in Nat
      /\ walk.index \in Nat
  BY <1>1, ElementTypes, ContentsTypes DEF FInv
<1> DEFINE x == walk.node
           up == Read(walk.node, "parent")
           k == walk.n + 1
<1>4. up \in Ptr
  BY <1>2, ReadType DEF NInv
<1>5. ASSUME intact, walk.index < Len(contents),
             NEW S \in SUBSET Nodes, NEW age \in Ages(S), NEW junk \in Ptr,
             contents = Sorted(S), link = Tree(kind, age, junk)
      PROVE  /\ x \in S /\ up \in S /\ k \in 1 .. Len(contents)
             /\ GreatestOf(contents[k], Subtree(age, x))
             /\ x = LeftOf(age, up) \/ x = RightOf(age, up)
             /\ IsLeftChild(x) <=> LeftOf(age, up) = x
  <2>1. x \in S /\ GreatestOf(contents[k], Subtree(age, x)) /\ k \in 1 .. Len(contents)
        /\ k < Len(contents)
    BY <1>1, <1>3, <1>5, IterationAt
  <2>2. x # Oldest(age, S)
    <3> SUFFICES ASSUME x = Oldest(age, S) PROVE FALSE
      OBVIOUS
    <3> HIDE DEF x, k
    <3>1. Subtree(age, x) = S
      BY <2>1, RootFacts
    <3>2. k = Len(contents)
      BY <1>5, <2>1, <3>1, LastInOrder
    <3>3. QED
      BY <1>3, <2>1, <3>2
  <2>3. up \in S /\ (x = LeftOf(age, up) \/ x = RightOf(age, up))
    BY <1>1, <1>5, <2>1, <2>2, TreeReads
  <2>4. Read(up, "left") = LeftOf(age, up)
    BY <1>1, <1>5, <2>3, TreeReads
  <2>5. IsLeftChild(x) <=> LeftOf(age, up) = x
    BY <2>4 DEF IsLeftChild
  <2> HIDE DEF x, up, k
  <2>6. QED
    BY <2>1, <2>3, <2>5
<1>6. CASE ~Readable(walk.node) \/ ~Readable(up)
  <2>1. Fail
    BY <1>6 DEF ClimbStep
  <2>2. \A S \in SUBSET Nodes : S \subseteq Cells
    BY DEF Cells
  <2>3. x \notin Cells \/ up \notin Cells
    BY <1>6 DEF Readable
  <2> HIDE DEF x, up, k
  <2>4. QED
    BY <1>1, <1>5, <2>1, <2>2, <2>3, IterationFails
<1>7. CASE Readable(walk.node) /\ Readable(up) /\ IsLeftChild(x)
  <2>1. kept' = kept /\ answer' = answer /\ Arrive(up)
    BY <1>7 DEF ClimbStep
  <2>2. walk' = [op |-> "element", index |-> walk.index, n |-> k, node |-> up,
                 mode |-> "next", stack |-> walk.stack]
    BY <1>1, <1>2, <1>4, <2>1, IterationArrive
  <2> HIDE DEF x, up, k
  <2>3. ASSUME intact, walk.index < Len(contents),
               NEW S \in SUBSET Nodes, NEW age \in Ages(S), NEW junk \in Ptr,
               contents = Sorted(S), link = Tree(kind, age, junk)
        PROVE  up = contents[k + 1]
    <3>1. /\ x \in S /\ up \in S /\ k \in 1 .. Len(contents) /\ x = LeftOf(age, up)
          /\ GreatestOf(contents[k], Subtree(age, x))
      BY <1>5, <1>7, <2>3
    <3>2. x # Null
      BY <3>1, NodesAssumption DEF Cells
    <3>3. Subtree(age, x) = LeftPart(age, up)
      BY <3>1, <3>2, ChildFacts
    <3>4. QED
      BY <2>3, <3>1, <3>3, UpFromLeft
  <2>4. QED
    BY <1>1, <1>2, <2>1, <2>2, <2>3, IterationArriveFinds
<1>8. CASE Readable(walk.node) /\ Readable(up) /\ ~IsLeftChild(x)
  <2>1. kept' = kept /\ answer' = answer /\ walk' = [walk EXCEPT !.node = up]
    BY <1>8 DEF ClimbStep
  <2>2. walk' = [op |-> "element", index |-> walk.index, n |-> walk.n, node |-> up,
                 mode |-> "climb", stack |-> walk.stack]
    BY <1>1, <1>2, <1>4, <2>1, IterationRecord
  <2>3. ASSUME intact, walk.index < Len(contents),
               NEW S \in SUBSET Nodes, NEW age \in Ages(S), NEW junk \in Ptr,
               contents = Sorted(S), link = Tree(kind, age, junk)
        PROVE  up \in S /\ GreatestOf(contents[walk.n + 1], Subtree(age, up))
    <3> HIDE DEF x, up
    <3>1. /\ x \in S /\ up \in S /\ x = RightOf(age, up)
          /\ GreatestOf(contents[k], Subtree(age, x))
      BY <1>5, <1>8, <2>3
    <3>2. x # Null
      BY <3>1, NodesAssumption DEF Cells
    <3>3. Subtree(age, x) = RightPart(age, up)
      BY <3>1, <3>2, ChildFacts
    <3>4. GreatestOf(contents[k], Subtree(age, up))
      BY <3>1, <3>3, GreatestRight
    <3>5. QED
      BY <3>1, <3>4
  <2> HIDE DEF up
  <2>4. QED
    BY <1>1, <1>2, <2>1, <2>2, <2>3, IterationStepFinds
<1>9. QED
  BY <1>6, <1>7, <1>8

-----------------------------------------------------------------------------
(* What the formatters show of a container that is not damaged *)

(* The debuggee runs, while nothing is being formatted *)
LEMMA RunFinds ==
  ASSUME FInv, Rebuild \/ Damage
  PROVE  FInv'
<1>1. walk.op = "none" /\ walk' = walk /\ answer' = NoAnswer /\ kept' = kept /\ kind' = kind
      /\ changes' = changes + 1
  BY DEF Rebuild, Damage
<1>2. changes \in Nat /\ kind \in Kinds
  BY DEF FInv, NInv, TypeOK
<1>3. changes' # 0
  BY <1>1, <1>2
<1>4. NInv'
  BY RunTypes DEF FInv
<1>5. Finds'
  BY <1>1, <1>3 DEF Finds, SizeFinds, ChainFinds, TreeFinds
<1>6. Right'
  BY <1>1 DEF Right, SizeAgrees, ElementsAgree, StaleChildFails, NoAnswer
<1>7. CASE Rebuild
  <2>1. PICK m \in IntactMemory(kind) : link' = m.link /\ contents' = m.contents /\ count' = Len(m.contents)
    BY <1>7 DEF Rebuild
  <2>2. AsLeft(kind, m.link, m.contents)
    BY <1>2, IntactFacts
  <2>3. AsLeft(kind', link', contents') /\ count' = Len(contents')
    BY <1>1, <2>1, <2>2
  <2>4. Shape'
    BY <1>3, <2>3 DEF Shape
  <2>5. QED
    BY <1>4, <1>5, <1>6, <2>4 DEF FInv
<1>8. CASE Damage
  <2>1. ~intact'
    BY <1>8 DEF Damage
  <2>2. Shape'
    BY <1>3, <2>1 DEF Shape
  <2>3. QED
    BY <1>4, <1>5, <1>6, <2>2 DEF FInv
<1>9. QED
  BY <1>7, <1>8

(* The first states *)
LEMMA InitFinds ==
  ASSUME Init
  PROVE  FInv
<1>1. PICK m \in IntactMemory(kind) : link = m.link /\ contents = m.contents /\ count = Len(m.contents)
  BY DEF Init
<1>2. AsLeft(kind, m.link, m.contents) /\ kind \in Kinds
  BY IntactFacts DEF Init
<1>3. Shape
  BY <1>1, <1>2 DEF Shape, Init
<1>4. walk.op = "none" /\ kept = NoResult /\ answer.what = "none"
  BY DEF Init, NoWalk, NoAnswer
<1>5. Finds
  BY <1>4 DEF Finds, SizeFinds, ChainFinds, TreeFinds
<1>6. Right
  BY <1>4 DEF Right, SizeAgrees, ElementsAgree, StaleChildFails
<1>7. QED
  BY <1>3, <1>5, <1>6, InitTypes DEF FInv

(* Nothing happens *)
LEMMA StutterFinds ==
  ASSUME FInv, vars' = vars
  PROVE  FInv'
<1>1. memory' = memory /\ answer' = answer /\ kept' = kept /\ walk' = walk
  BY DEF vars, memory
<1>2. kind' = kind /\ link' = link /\ contents' = contents /\ intact' = intact /\ changes' = changes
  BY DEF vars
<1>3. NInv'
  BY StepTypes DEF FInv
<1>4. Shape' /\ Right'
  BY <1>1, ShapeKept, RightKept DEF FInv
<1>5. SizeFinds'
  BY <1>1, <1>2 DEF FInv, Finds, SizeFinds
<1>6. ChainFinds'
  BY <1>1, <1>2 DEF FInv, Finds, ChainFinds
<1>7. ASSUME NEW S, NEW age
      PROVE  (Recursion(S, age)' <=> Recursion(S, age)) /\ (Iteration(S, age)' <=> Iteration(S, age))
  <2>1. Recursion(S, age)' <=> Recursion(S, age)
    BY <1>1, <1>2 DEF Recursion, Reached, Top, Stacked
  <2>2. Iteration(S, age)' <=> Iteration(S, age)
    BY <1>1, <1>2 DEF Iteration
  <2>3. QED
    BY <2>1, <2>2
<1>8. TreeFinds'
  BY <1>1, <1>2, <1>7 DEF FInv, Finds, TreeFinds
<1>9. QED
  BY <1>3, <1>4, <1>5, <1>6, <1>8 DEF FInv, Finds

(* The positions of the walks are kept by every step *)
LEMMA StepFinds ==
  ASSUME FInv, [Next]_vars
  PROVE  FInv'
<1>1. CASE Next
  BY <1>1, FormatFinds, ExpandFinds, ReadCountFinds, SizeStepFinds, ListElementFinds,
     HashElementFinds, TreeLeftFinds, TreeSelfFinds, TreeRightFinds, TreeReturnFinds,
     TreeNotFoundFinds, NextStepFinds, MinStepFinds, ClimbStepFinds, RunFinds DEF Next, Step
<1>2. QED
  BY <1>1, StutterFinds

(* Where the walks are, at any time *)
LEMMA AlwaysFinds == Spec => []FInv
<1>1. Init => FInv
  BY InitFinds
<1>2. FInv /\ [Next]_vars => FInv'
  BY StepFinds
<1>3. QED
  BY <1>1, <1>2, PTL DEF Spec

(* container_formatter::format shows the size of every container that is   *)
(* not damaged and not too large, and never an error: chains of any length *)
(* are walked to their end, twice, and give the number of their nodes.     *)
THEOREM IntactSizes == Spec => []SizeAgrees
<1>1. FInv => SizeAgrees
  BY DEF FInv, Right
<1>2. QED
  BY <1>1, AlwaysFinds, PTL

(* The child at an index is the element that the library's own iteration   *)
(* finds there, for lists, hash tables and search trees of any shape: the  *)
(* recursion of get_tree_item and the repeated tree_next both meet the     *)
(* nodes in the order of the tree.                                         *)
THEOREM IntactElements == Spec => []ElementsAgree
<1>1. FInv => ElementsAgree
  BY DEF FInv, Right
<1>2. QED
  BY <1>1, AlwaysFinds, PTL

(* A child that a changed container no longer has is an error, or at least *)
(* an element: element of a list or a hash table stops where the chain     *)
(* ends, and get_tree_item when the whole tree has been met.               *)
THEOREM StaleChildrenFail == Spec => []StaleChildFails
<1>1. FInv => StaleChildFails
  BY DEF FInv, Right
<1>2. QED
  BY <1>1, AlwaysFinds, PTL

-----------------------------------------------------------------------------
(* The recursion over a tree of any shape *)

(* A path stays among cells whose pointers do *)
LEMMA PathStays ==
  ASSUME NEW C \in SUBSET Cells, NEW p \in C, NEW f, \A c \in C : Read(c, f) \in C
  PROVE  Path(p, f) \subseteq C
<1> DEFINE n == Cardinality(Cells) + 1
           G(a, k) == IF k = 0 THEN p
                      ELSE IF a[k - 1] \in Cells THEN Read(a[k - 1], f) ELSE a[k - 1]
           Good(m) == \E a : a = [k \in 0 .. m |-> G(a, k)]
           at == CHOOSE a : a = [k \in 0 .. n |-> G(a, k)]
<1>1. n \in Nat
  <2>1. IsFiniteSet(Cells)
    BY NodesAssumption, FS_AddElement DEF Cells
  <2>2. QED
    BY <2>1, FS_CardinalityType
<1>2. Path(p, f) = {at[k] : k \in DOMAIN at}
  BY DEF Path
<1> HIDE DEF n
<1>3. \A m \in Nat : Good(m)
  <2> DEFINE T == {m \in Nat : ~Good(m)}
  <2> SUFFICES ASSUME T # {} PROVE FALSE
    OBVIOUS
  <2>1. PICK m \in T : \A j \in T : m <= j
    <3> HIDE DEF Good
    <3>1. T \in SUBSET Nat
      OBVIOUS
    <3> HIDE DEF T
    <3>2. QED
      BY <3>1, Smallest
  <2>2. m \in Nat /\ ~Good(m)
    BY <2>1
  <2>3. CASE m = 0
    <3> DEFINE a == [k \in 0 .. 0 |-> p]
    <3>1. \A k \in 0 .. 0 : k = 0
      OBVIOUS
    <3>2. a = [k \in 0 .. 0 |-> G(a, k)]
      BY <3>1
    <3>3. Good(0)
      BY <3>2
    <3> HIDE DEF Good
    <3>4. QED
      BY <2>2, <2>3, <3>3
  <2>4. CASE m # 0
    <3>1. m - 1 \in Nat /\ ~(m <= m - 1) /\ 0 .. m - 1 \subseteq 0 .. m
      BY <2>2, <2>4
    <3>2. Good(m - 1)
      <4> HIDE DEF Good
      <4>1. QED
        BY <2>1, <3>1
    <3>3. PICK a : a = [k \in 0 .. m - 1 |-> G(a, k)]
      BY <3>2
    <3> DEFINE b == [k \in 0 .. m |-> IF k = m THEN G(a, m) ELSE a[k]]
    <3>4. ASSUME NEW k \in 0 .. m
          PROVE  b[k] = G(b, k)
      <4>1. CASE k = 0
        <5>1. k # m /\ k \in 0 .. m - 1
          BY <2>2, <2>4, <4>1
        <5>2. b[k] = a[k]
          BY <5>1
        <5>3. a[k] = G(a, k)
          BY <3>3, <5>1
        <5> HIDE DEF b
        <5>4. QED
          BY <4>1, <5>2, <5>3
      <4>2. CASE k # 0
        <5>1. k - 1 \in 0 .. m /\ k - 1 # m
          BY <2>2, <4>2
        <5>2. b[k - 1] = a[k - 1]
          BY <5>1
        <5>3. b[k] = G(a, k)
          <6>1. CASE k = m
            BY <6>1
          <6>2. CASE k # m
            <7>1. k \in 0 .. m - 1
              BY <2>2, <6>2
            <7>2. QED
              BY <3>3, <6>2, <7>1
          <6>3. QED
            BY <6>1, <6>2
        <5> HIDE DEF b
        <5>4. QED
          BY <5>2, <5>3
      <4>3. QED
        BY <4>1, <4>2
    <3>5. b = [k \in 0 .. m |-> b[k]]
      OBVIOUS
    <3> HIDE DEF b
    <3>6. b = [k \in 0 .. m |-> G(b, k)]
      BY <3>4, <3>5
    <3>7. Good(m)
      BY <3>6
    <3> HIDE DEF Good
    <3>8. QED
      BY <2>2, <3>7
  <2>5. QED
    BY <2>3, <2>4
<1>4. at = [k \in 0 .. n |-> G(at, k)]
  <2>1. \E a : a = [k \in 0 .. n |-> G(a, k)]
    BY <1>1, <1>3
  <2>2. QED
    BY <2>1, Zenon
<1> HIDE DEF at
<1>5. DOMAIN at = 0 .. n /\ \A k \in 0 .. n : at[k] = G(at, k)
  BY <1>4
<1>6. \A k \in 0 .. n : at[k] \in C
  <2> DEFINE T == {k \in 0 .. n : at[k] \notin C}
  <2> SUFFICES ASSUME T # {} PROVE FALSE
    OBVIOUS
  <2>1. PICK k \in T : \A j \in T : k <= j
    <3>1. T \in SUBSET Nat
      BY <1>1
    <3> HIDE DEF T
    <3>2. QED
      BY <3>1, Smallest
  <2>2. k \in 0 .. n /\ at[k] \notin C /\ at[k] = G(at, k)
    BY <1>5, <2>1
  <2>3. k # 0
    BY <2>2
  <2>4. k - 1 \in 0 .. n /\ ~(k <= k - 1)
    BY <1>1, <2>2, <2>3
  <2>5. at[k - 1] \in C
    BY <2>1, <2>4
  <2>6. at[k] = Read(at[k - 1], f)
    BY <2>2, <2>3, <2>5
  <2>7. QED
    BY <2>2, <2>5, <2>6
<1>7. QED
  BY <1>2, <1>5, <1>6

(* How many nodes had been met when each waiting call was made: g[i] is    *)
(* that number for the i-th call, and n is the number now.                 *)
Recorded(st, n, g) ==
    /\ \A i \in 1 .. Len(st) :
            /\ g[i] \in 0 .. n
            /\ st[i].stage \in {"right", "return"} => g[i] < n
            /\ st[i].stage # "left" => st[i].node \in Cells
    /\ \A i \in 1 .. Len(st) - 1 :
            \/ st[i].stage = "return"
            \/ st[i].stage = "self" /\ st[i + 1].node = Read(st[i].node, "left")
    /\ \A i, j \in 1 .. Len(st) :
            i < j => g[i] <= g[j] /\ (st[i].stage = "return" => g[i] < g[j])

(* Cells whose left links never leave them *)
LeftCycle == \E C \in SUBSET Cells : C # {} /\ \A c \in C : Read(c, "left") \in C

(* OverflowOnlyLeftCycle over any memory, while walks go on in it *)
OInv ==
    /\ NInv
    /\ walk.op = "crashed" => LeftCycle
    /\ InTree => \E g : Recorded(walk.stack, walk.n, g)

(* A cycle of left links is one of those that OverflowOnlyLeftCycle names *)
LEMMA CyclePath ==
  ASSUME LeftCycle
  PROVE  \E c \in Cells : Path(c, "left") \subseteq Cells
<1>1. PICK C \in SUBSET Cells : C # {} /\ \A c \in C : Read(c, "left") \in C
  BY DEF LeftCycle
<1>2. PICK c \in C : TRUE
  BY <1>1
<1>3. Path(c, "left") \subseteq C
  BY <1>1, PathStays
<1>4. QED
  BY <1>3

(* Two calls for the same node, with no node met between them, have only   *)
(* left links between them                                                 *)
LEMMA SameCall ==
  ASSUME NEW st \in Seq(Frames), NEW n \in Nat, NEW g, Recorded(st, n, g),
         NEW i \in 1 .. Len(st), NEW j \in 1 .. Len(st), i < j,
         g[i] = g[j], st[i].node = st[j].node
  PROVE  LeftCycle
<1> DEFINE d == Len(st)
           C == {st[k].node : k \in i .. j - 1}
<1>1. d \in Nat /\ i \in Int /\ j \in Int /\ \A k \in 1 .. d : g[k] \in Int
  BY DEF Recorded
<1>2. \A k \in i .. j - 1 : k \in 1 .. d /\ k \in 1 .. d - 1 /\ k + 1 \in 1 .. d /\ k < j /\ k \in Int
  BY <1>1
<1>3. ASSUME NEW k \in i .. j - 1
      PROVE  st[k].stage = "self" /\ st[k].node \in Cells /\ st[k + 1].node = Read(st[k].node, "left")
  <2>1. k \in 1 .. d /\ k \in 1 .. d - 1 /\ k < j /\ (k = i \/ i < k) /\ g[k] \in Int /\ g[j] \in Int
    BY <1>1, <1>2
  <2>2. g[i] <= g[k]
    BY <1>1, <2>1 DEF Recorded
  <2>3. g[k] <= g[j] /\ (st[k].stage = "return" => g[k] < g[j])
    BY <2>1 DEF Recorded
  <2>4. st[k].stage # "return"
    BY <1>1, <2>1, <2>2, <2>3
  <2>5. QED
    BY <2>1, <2>4 DEF Recorded
<1>4. C \subseteq Cells
  BY <1>3
<1>5. C # {}
  <2>1. i \in i .. j - 1
    BY <1>1
  <2>2. QED
    BY <2>1
<1>6. ASSUME NEW k \in i .. j - 1
      PROVE  Read(st[k].node, "left") \in C
  <2>1. CASE k = j - 1
    <3>1. k + 1 = j /\ i \in i .. j - 1
      BY <1>1, <2>1
    <3>2. st[i].node \in C
      BY <3>1
    <3> HIDE DEF C
    <3>3. QED
      BY <1>3, <3>1, <3>2
  <2>2. CASE k # j - 1
    <3>1. k + 1 \in i .. j - 1
      BY <1>1, <2>2
    <3>2. st[k + 1].node \in C
      BY <3>1
    <3> HIDE DEF C
    <3>3. QED
      BY <1>3, <3>2
  <2>3. QED
    BY <2>1, <2>2
<1>7. \A c \in C : Read(c, "left") \in C
  BY <1>6
<1> HIDE DEF C
<1>8. QED
  BY <1>4, <1>5, <1>7 DEF LeftCycle

(* More calls than there are nodes for each of the numbers met *)
LEMMA DeepStack ==
  ASSUME NEW st \in Seq(Frames), NEW n \in 0 .. MaxSize - 1, NEW g, Recorded(st, n, g),
         Len(st) = MaxStack, \A i \in 1 .. Len(st) : st[i].node \in Cells
  PROVE  LeftCycle
<1> DEFINE D == 1 .. MaxStack
           N == 0 .. MaxSize - 1
           f == [i \in D |-> <<g[i], st[i].node>>]
<1>1. MaxSize \in Nat /\ MaxStack \in Nat /\ MaxSize >= 1 /\ n \in Nat
  BY BoundsAssumption
<1>2. IsFiniteSet(N) /\ Cardinality(N) = MaxSize /\ IsFiniteSet(D) /\ Cardinality(D) = MaxStack
  <2>1. IsFiniteSet(N) /\ Cardinality(N) = MaxSize - 1 - 0 + 1
    BY <1>1, FS_Interval
  <2>2. IsFiniteSet(D) /\ Cardinality(D) = IF 1 > MaxStack THEN 0 ELSE MaxStack - 1 + 1
    BY <1>1, FS_Interval
  <2> HIDE DEF D, N
  <2>3. Cardinality(D) = MaxStack
    BY <1>1, <2>2
  <2>4. QED
    BY <1>1, <2>1, <2>2, <2>3
<1>3. IsFiniteSet(Cells) /\ Cardinality(Cells) \in Nat
  <2>1. IsFiniteSet(Cells)
    BY NodesAssumption, FS_AddElement DEF Cells
  <2>2. QED
    BY <2>1, FS_CardinalityType
<1>4. \A i \in D : g[i] \in N
  <2> SUFFICES ASSUME NEW i \in D PROVE g[i] \in N
    OBVIOUS
  <2>1. g[i] \in 0 .. n
    BY DEF Recorded
  <2>2. QED
    BY <1>1, <2>1
<1>5. f \in [D -> N \X Cells]
  BY <1>4
<1>6. IsFiniteSet(N \X Cells) /\ Cardinality(N \X Cells) < Cardinality(D)
  <2> HIDE DEF N, D
  <2>1. IsFiniteSet(N \X Cells) /\ Cardinality(N \X Cells) = MaxSize * Cardinality(Cells)
    BY <1>2, <1>3, FS_Product
  <2>2. QED
    BY <1>2, <2>1, BoundsAssumption
<1>7. PICK x, y \in D : x # y /\ f[x] = f[y]
  <2> HIDE DEF f, D, N
  <2>1. QED
    BY <1>2, <1>5, <1>6, FS_PigeonHole
<1>8. g[x] = g[y] /\ st[x].node = st[y].node
  BY <1>7
<1>9. x \in 1 .. Len(st) /\ y \in 1 .. Len(st) /\ (x < y \/ y < x)
  BY <1>1, <1>7
<1> HIDE DEF f
<1>10. CASE x < y
  BY <1>1, <1>8, <1>9, <1>10, SameCall
<1>11. CASE y < x
  BY <1>1, <1>8, <1>9, <1>11, SameCall
<1>12. QED
  BY <1>9, <1>10, <1>11

(* The call on top goes on to its next stage *)
LEMMA RecordedTop ==
  ASSUME NEW st \in Seq(Frames), NEW n \in Nat, NEW m \in Nat, n <= m, NEW g, Recorded(st, n, g),
         st # <<>>, NEW s, NEW t \in Seq(Frames), Len(t) = Len(st),
         t[Len(st)] = [node |-> st[Len(st)].node, stage |-> s],
         \A i \in 1 .. Len(st) - 1 : t[i] = st[i],
         s # "left" => st[Len(st)].node \in Cells,
         s \in {"right", "return"} => g[Len(st)] < m
  PROVE  Recorded(t, m, g)
<1> DEFINE d == Len(st)
<1>1. d \in Nat /\ d \in 1 .. d
  BY EmptySeq
<1>2. t[d].node = st[d].node /\ t[d].stage = s
  OBVIOUS
<1> HIDE DEF d
<1>3. \A i \in 1 .. d : i = d \/ (i \in 1 .. d - 1 /\ t[i] = st[i])
  BY <1>1 DEF d
<1>4. ASSUME NEW i \in 1 .. d
      PROVE  /\ g[i] \in 0 .. m
             /\ t[i].stage \in {"right", "return"} => g[i] < m
             /\ t[i].stage # "left" => t[i].node \in Cells
  <2>1. g[i] \in 0 .. n /\ g[i] \in Int
    BY DEF Recorded, d
  <2>2. g[i] \in 0 .. m
    BY <2>1
  <2>3. CASE i = d
    BY <1>2, <2>2, <2>3 DEF d
  <2>4. CASE i # d
    <3>1. t[i] = st[i]
      BY <1>3, <2>4
    <3>2. t[i].stage \in {"right", "return"} => g[i] < n
      BY <3>1 DEF Recorded, d
    <3>3. t[i].stage \in {"right", "return"} => g[i] < m
      BY <2>1, <3>2
    <3>4. QED
      BY <2>2, <3>1, <3>3 DEF Recorded, d
  <2>5. QED
    BY <2>3, <2>4
<1>5. ASSUME NEW i \in 1 .. d - 1
      PROVE  \/ t[i].stage = "return"
             \/ t[i].stage = "self" /\ t[i + 1].node = Read(t[i].node, "left")
  <2>1. i \in 1 .. d /\ i # d /\ i + 1 \in 1 .. d
    BY <1>1
  <2>2. t[i] = st[i] /\ t[i + 1].node = st[i + 1].node
    BY <1>2, <1>3, <2>1
  <2>3. QED
    BY <2>2 DEF Recorded, d
<1>6. ASSUME NEW i \in 1 .. d, NEW j \in 1 .. d, i < j
      PROVE  g[i] <= g[j] /\ (t[i].stage = "return" => g[i] < g[j])
  <2>1. i # d
    BY <1>1, <1>6
  <2>2. t[i] = st[i]
    BY <1>3, <2>1
  <2>3. QED
    BY <1>6, <2>2 DEF Recorded, d
<1>7. QED
  BY <1>4, <1>5, <1>6 DEF Recorded, d

(* The call on top makes another *)
LEMMA RecordedCall ==
  ASSUME NEW st \in Seq(Frames), NEW n \in Nat, NEW g, Recorded(st, n, g), st # <<>>,
         NEW f \in Frames, f.stage = "left",
         \/ st[Len(st)].stage = "return"
         \/ st[Len(st)].stage = "self" /\ f.node = Read(st[Len(st)].node, "left")
  PROVE  \E h : Recorded(Append(st, f), n, h)
<1> DEFINE d == Len(st)
           t == Append(st, f)
           h == [i \in 1 .. d + 1 |-> IF i = d + 1 THEN n ELSE g[i]]
<1>1. d \in Nat /\ d \in 1 .. d
  BY EmptySeq
<1>2. Len(t) = d + 1 /\ t[d + 1] = f /\ \A i \in 1 .. d : t[i] = st[i]
  OBVIOUS
<1> HIDE DEF t, d
<1>3. d + 1 \in 1 .. d + 1 /\ \A i \in 1 .. d : i # d + 1 /\ i \in 1 .. d + 1
  BY <1>1
<1>4. h[d + 1] = n /\ \A i \in 1 .. d : h[i] = g[i]
  BY <1>3
<1> HIDE DEF h
<1>5. \A i \in 1 .. d + 1 : i = d + 1 \/ i \in 1 .. d
  BY <1>1
<1>6. ASSUME NEW i \in 1 .. d + 1
      PROVE  /\ h[i] \in 0 .. n
             /\ t[i].stage \in {"right", "return"} => h[i] < n
             /\ t[i].stage # "left" => t[i].node \in Cells
  <2>1. CASE i = d + 1
    BY <1>2, <1>4, <2>1
  <2>2. CASE i \in 1 .. d
    BY <1>2, <1>4, <2>2 DEF Recorded, d
  <2>3. QED
    BY <1>5, <2>1, <2>2
<1>7. ASSUME NEW i \in 1 .. d
      PROVE  \/ t[i].stage = "return"
             \/ t[i].stage = "self" /\ t[i + 1].node = Read(t[i].node, "left")
  <2>1. CASE i = d
    BY <1>2, <2>1 DEF d
  <2>2. CASE i # d
    <3>1. i \in 1 .. d - 1 /\ i + 1 \in 1 .. d
      BY <1>1, <2>2
    <3>2. t[i] = st[i] /\ t[i + 1] = st[i + 1]
      BY <1>2, <3>1
    <3>3. QED
      BY <3>1, <3>2 DEF Recorded, d
  <2>3. QED
    BY <2>1, <2>2
<1>8. ASSUME NEW i \in 1 .. d + 1, NEW j \in 1 .. d + 1, i < j
      PROVE  h[i] <= h[j] /\ (t[i].stage = "return" => h[i] < h[j])
  <2>1. i \in 1 .. d
    BY <1>1, <1>8
  <2>2. h[i] = g[i] /\ t[i] = st[i] /\ g[i] \in 0 .. n /\ (st[i].stage = "return" => g[i] < n)
    BY <1>2, <1>4, <2>1 DEF Recorded, d
  <2>3. CASE j = d + 1
    <3>1. h[j] = n
      BY <1>4, <2>3
    <3>2. QED
      BY <2>2, <3>1
  <2>4. CASE j \in 1 .. d
    <3>1. h[j] = g[j]
      BY <1>4, <2>4
    <3>2. g[i] <= g[j] /\ (st[i].stage = "return" => g[i] < g[j])
      BY <1>8, <2>1, <2>4 DEF Recorded, d
    <3>3. QED
      BY <2>2, <3>1, <3>2
  <2>5. QED
    BY <1>5, <2>3, <2>4
<1>9. Len(t) - 1 = d
  BY <1>1, <1>2
<1>10. Recorded(t, n, h)
  BY <1>2, <1>6, <1>7, <1>8, <1>9 DEF Recorded
<1>11. QED
  BY <1>10 DEF t

(* The call on top returns *)
LEMMA RecordedReturn ==
  ASSUME NEW st \in Seq(Frames), NEW n \in Nat, NEW g, Recorded(st, n, g), st # <<>>
  PROVE  Recorded(SubSeq(st, 1, Len(st) - 1), n, g)
<1> DEFINE d == Len(st)
           t == SubSeq(st, 1, d - 1)
<1>1. d \in Nat /\ d \in 1 .. d
  BY EmptySeq
<1>2. Len(t) = d - 1 /\ \A i \in 1 .. d - 1 : t[i] = st[i]
  <2>1. t = [i \in 1 .. d - 1 |-> st[i]]
    BY <1>1
  <2>2. d - 1 \in Nat
    BY <1>1
  <2> HIDE DEF t, d
  <2>3. Len(t) = d - 1
    BY <2>1, <2>2
  <2>4. QED
    BY <2>1, <2>3
<1> HIDE DEF t, d
<1>3. \A i \in 1 .. d - 1 : i \in 1 .. d
  BY <1>1
<1>4. \A i \in 1 .. d - 1 - 1 : i \in 1 .. d - 1 /\ i + 1 \in 1 .. d - 1
  BY <1>1
<1>5. \A i \in 1 .. d - 1 : /\ g[i] \in 0 .. n
                            /\ t[i].stage \in {"right", "return"} => g[i] < n
                            /\ t[i].stage # "left" => t[i].node \in Cells
  BY <1>2, <1>3 DEF Recorded, d
<1>6. \A i \in 1 .. d - 1 - 1 :
            \/ t[i].stage = "return"
            \/ t[i].stage = "self" /\ t[i + 1].node = Read(t[i].node, "left")
  BY <1>2, <1>4 DEF Recorded, d
<1>7. \A i, j \in 1 .. d - 1 :
            i < j => g[i] <= g[j] /\ (t[i].stage = "return" => g[i] < g[j])
  BY <1>2, <1>3 DEF Recorded, d
<1>8. Recorded(t, n, g)
  BY <1>2, <1>5, <1>6, <1>7 DEF Recorded
<1>9. QED
  BY <1>8 DEF t, d

(* A step of the recursion *)
LEMMA RecursionKept ==
  ASSUME OInv, NInv', memory' = memory, walk'.op = "element",
         NEW s, NEW n, NEW h, walk'.stack = s, walk'.n = n, Recorded(s, n, h)
  PROVE  OInv'
<1>1. link' = link /\ count' = count
  BY DEF memory
<1>2. \A c, f : Read(c, f)' = Read(c, f)
  BY <1>1 DEF Read, CountAsPointer
<1>3. (\E g : Recorded(walk.stack, walk.n, g))' <=> \E g : Recorded(s, n, g)
  BY <1>2 DEF Recorded
<1>4. QED
  BY <1>3 DEF OInv

(* A step that is not one of the recursion *)
LEMMA OtherKept ==
  ASSUME OInv, NInv', ~InTree', walk'.op # "crashed"
  PROVE  OInv'
BY DEF OInv

(* A recursive call, or its absence *)
LEMMA CallRecorded ==
  ASSUME OInv, NInv', InTree, walk.stack # <<>>, memory' = memory,
         NEW p \in Ptr, NEW g \in {"self", "return"}, CallFor(p, g), Top.node \in Cells,
         g = "self" => p = Read(Top.node, "left"),
         g = "return" => Top.stage = "right"
  PROVE  OInv'
<1>1. walk.op = "element" /\ NInv
  BY DEF InTree, InElement, OInv
<1> DEFINE s == walk.stack
           d == Len(s)
           t == WithTop(g)
           f == [node |-> p, stage |-> "left"]
<1>2. /\ s \in Seq(Frames) /\ d \in Nat /\ d \in 1 .. d /\ t \in Seq(Frames) /\ Len(t) = d
      /\ t[d] = [node |-> Top.node, stage |-> g] /\ Top = s[d] /\ walk.n \in 0 .. MaxSize - 1
      /\ \A i \in 1 .. d - 1 : t[i] = s[i]
  BY <1>1, WithTopTypes, ElementTypes DEF Top
<1>3. f \in Frames /\ f.node = p /\ f.stage = "left" /\ walk.n \in Nat /\ walk.n <= walk.n
  BY <1>2, BoundsAssumption DEF Frames
<1>4. PICK h : Recorded(s, walk.n, h)
  BY DEF OInv
<1>5. g = "return" => h[d] < walk.n
  BY <1>2, <1>4 DEF Recorded
<1>6. \A u \in Seq(Frames) : [walk EXCEPT !.stack = u] =
               [op |-> "element", index |-> walk.index, n |-> walk.n, node |-> walk.node,
                mode |-> walk.mode, stack |-> u]
  BY <1>1, WithStack
<1>7. t # <<>> /\ (t[d].stage = "return" \/ (t[d].stage = "self" /\ f.node = Read(t[d].node, "left")))
      /\ t[d].node \in Cells
  <2> HIDE DEF t, f
  <2>1. Len(t) # 0
    BY <1>2
  <2>2. t # <<>>
    BY <2>1
  <2>3. QED
    BY <1>2, <1>3, <2>2
<1>8. Recorded(t, walk.n, h)
  <2> HIDE DEF t, f
  <2>1. s # <<>> /\ (g # "left" => s[d].node \in Cells) /\ (g \in {"right", "return"} => h[d] < walk.n)
    BY <1>2, <1>5
  <2> HIDE DEF s
  <2>2. QED
    BY <1>2, <1>3, <1>4, <2>1, RecordedTop
<1> HIDE DEF t, f
<1>9. CASE p = Null
  <2>1. walk' = [walk EXCEPT !.stack = t]
    BY <1>9 DEF CallFor, t
  <2>2. walk' = [op |-> "element", index |-> walk.index, n |-> walk.n, node |-> walk.node,
                 mode |-> walk.mode, stack |-> t]
    BY <1>2, <1>6, <2>1, Zenon
  <2>3. walk'.op = "element" /\ walk'.n = walk.n /\ walk'.stack = t
    BY <2>2
  <2>4. QED
    BY <1>8, <2>3, RecursionKept
<1>10. CASE p # Null /\ d = MaxStack
  <2>1. walk' = [op |-> "crashed"]
    BY <1>10 DEF CallFor
  <2>2. \A i \in 1 .. Len(t) : t[i].node \in Cells
    <3> SUFFICES ASSUME NEW i \in 1 .. Len(t) PROVE t[i].node \in Cells
      OBVIOUS
    <3>1. CASE i = d
      BY <1>7, <3>1
    <3>2. CASE i # d
      <4>1. i \in 1 .. Len(t) - 1
        BY <1>2, <3>2
      <4>2. t[i].stage # "left"
        BY <1>8, <4>1 DEF Recorded
      <4>3. QED
        BY <1>8, <4>2 DEF Recorded
    <3>3. QED
      BY <3>1, <3>2
  <2>3. LeftCycle
    BY <1>2, <1>8, <1>10, <2>2, DeepStack
  <2>4. LeftCycle'
    BY <2>3 DEF LeftCycle, Read, CountAsPointer, memory
  <2>5. walk'.op = "crashed"
    BY <2>1
  <2>6. ~InTree'
    BY <2>5 DEF InTree, InElement
  <2>7. QED
    BY <2>4, <2>6 DEF OInv
<1>11. CASE p # Null /\ d # MaxStack
  <2>1. walk' = [walk EXCEPT !.stack = Append(t, f)]
    BY <1>11 DEF CallFor, t, f
  <2>2. Append(t, f) \in Seq(Frames)
    BY <1>2, <1>3
  <2>3. walk' = [op |-> "element", index |-> walk.index, n |-> walk.n, node |-> walk.node,
                 mode |-> walk.mode, stack |-> Append(t, f)]
    BY <1>6, <2>1, <2>2, Zenon
  <2>4. walk'.op = "element" /\ walk'.n = walk.n /\ walk'.stack = Append(t, f)
    BY <2>3
  <2>5. PICK k : Recorded(Append(t, f), walk.n, k)
    BY <1>2, <1>3, <1>7, <1>8, RecordedCall
  <2>6. QED
    BY <2>4, <2>5, RecursionKept
<1>12. QED
  BY <1>9, <1>10, <1>11

(* The steps of the recursion *)
LEMMA TreeRecorded ==
  ASSUME OInv, TreeLeft \/ TreeSelf \/ TreeRight \/ TreeReturn
  PROVE  OInv'
<1>1. /\ InTree /\ memory' = memory /\ walk.op = "element" /\ NInv /\ walk.stack # <<>>
      /\ NInv' /\ walk.mode = "next"
  <2>1. InTree /\ memory' = memory /\ walk.op = "element" /\ NInv /\ walk.stack # <<>> /\ kind # "libcxx_tree"
    BY DEF TreeLeft, TreeSelf, TreeRight, TreeReturn, InTree, InElement, OInv
  <2>2. QED
    BY <2>1, TreeTypes, ElementTypes
<1> DEFINE s == walk.stack
           d == Len(s)
<1>2. /\ s \in Seq(Frames) /\ d \in Nat /\ d \in 1 .. d /\ Top = s[d] /\ walk.n \in 0 .. MaxSize - 1
      /\ walk.n \in Nat /\ walk.index \in 0 .. MaxSize - 1
  BY <1>1, WithTopTypes, ElementTypes DEF Top
<1>3. PICK h : Recorded(s, walk.n, h)
  BY <1>1 DEF OInv
<1>4. \A c, f : Read(c, f) \in Ptr
  BY <1>1, ReadType DEF NInv
<1>5. /\ h[d] \in 0 .. walk.n
      /\ Top.stage \in {"right", "return"} => h[d] < walk.n
      /\ Top.stage # "left" => Top.node \in Cells
  BY <1>2, <1>3 DEF Recorded
<1>6. Fail => walk'.op = "none" /\ ~InTree'
  BY DEF Fail, NoWalk, InTree, InElement
<1>7. CASE TreeLeft /\ Readable(Top.node)
  BY <1>1, <1>4, <1>7, CallRecorded DEF TreeLeft, Readable
<1>8. CASE TreeLeft /\ ~Readable(Top.node)
  BY <1>1, <1>6, <1>8, OtherKept DEF TreeLeft
<1>9. CASE TreeRight
  BY <1>1, <1>4, <1>5, <1>9, CallRecorded DEF TreeRight
<1>10. CASE TreeSelf /\ walk.n = walk.index
  <2>1. Show(Top.node)
    BY <1>10 DEF TreeSelf
  <2>2. walk'.op = "none" /\ ~InTree'
    BY <1>6, <2>1 DEF Show, NoWalk, InTree, InElement
  <2>3. QED
    BY <1>1, <2>2, OtherKept
<1>11. CASE TreeSelf /\ walk.n # walk.index
  <2> DEFINE t == WithTop("right")
             m == walk.n + 1
  <2>1. /\ t \in Seq(Frames) /\ Len(t) = d /\ t[d] = [node |-> s[d].node, stage |-> "right"]
        /\ \A i \in 1 .. d - 1 : t[i] = s[i]
    BY <1>1, <1>2, WithTopTypes
  <2>2. walk' = [walk EXCEPT !.n = m, !.stack = t] /\ Top.stage = "self"
    BY <1>11 DEF TreeSelf, AfterSelf
  <2>3. m \in Int /\ m \in Nat /\ walk.n <= m
    BY <1>2
  <2>4. h[d] < m
    BY <1>2, <1>5
  <2> HIDE DEF t, m
  <2>5. walk' = [op |-> "element", index |-> walk.index, n |-> m, node |-> walk.node,
                 mode |-> walk.mode, stack |-> t]
    <3>1. \A n \in Int : \A u \in Seq(Frames) : [walk EXCEPT !.n = n, !.stack = u] =
               [op |-> "element", index |-> walk.index, n |-> n, node |-> walk.node,
                mode |-> walk.mode, stack |-> u]
      BY <1>1, WithCount
    <3>2. QED
      BY <2>1, <2>2, <2>3, <3>1, Zenon
  <2>6. walk'.op = "element" /\ walk'.n = m /\ walk'.stack = t
    BY <2>5
  <2>7. s[d].node \in Cells /\ s # <<>>
    BY <1>1, <1>2, <1>5, <2>2
  <2> HIDE DEF s
  <2>8. Recorded(t, m, h)
    BY <1>2, <1>3, <2>1, <2>3, <2>4, <2>7, RecordedTop
  <2>9. QED
    BY <1>1, <2>6, <2>8, RecursionKept
<1>12. CASE TreeReturn
  <2> DEFINE t == SubSeq(s, 1, Len(s) - 1)
  <2>1. walk' = [walk EXCEPT !.stack = t]
    BY <1>12 DEF TreeReturn
  <2>2. t \in Seq(Frames)
    <3> HIDE DEF s
    <3>1. QED
      BY <1>2
  <2>3. Recorded(t, walk.n, h)
    BY <1>1, <1>2, <1>3, RecordedReturn
  <2> HIDE DEF t
  <2>4. walk' = [op |-> "element", index |-> walk.index, n |-> walk.n, node |-> walk.node,
                 mode |-> walk.mode, stack |-> t]
    <3>1. \A u \in Seq(Frames) : [walk EXCEPT !.stack = u] =
               [op |-> "element", index |-> walk.index, n |-> walk.n, node |-> walk.node,
                mode |-> walk.mode, stack |-> u]
      BY <1>1, WithStack
    <3>2. QED
      BY <2>1, <2>2, <3>1, Zenon
  <2>5. walk'.op = "element" /\ walk'.n = walk.n /\ walk'.stack = t
    BY <2>4
  <2>6. QED
    BY <1>1, <2>3, <2>5, RecursionKept
<1>13. QED
  BY <1>7, <1>8, <1>9, <1>10, <1>11, <1>12

(* The first call *)
LEMMA ExpandRecorded ==
  ASSUME OInv, NEW idx \in 0 .. MaxSize, Expand(idx)
  PROVE  OInv'
<1>1. NInv' /\ walk.op = "none"
  BY ExpandTypes DEF OInv, Expand
<1>2. memory' = memory /\ (walk' = walk \/ walk' = ElementWalk(idx - 1))
  BY DEF Expand
<1>3. CASE walk' = walk
  BY <1>1, <1>3, OtherKept DEF InTree, InElement
<1>4. CASE walk' = ElementWalk(idx - 1) /\ kind # "stdcpp_tree"
  <2>1. walk'.op = "element" /\ kind' = kind
    BY <1>2, <1>4 DEF ElementWalk, memory
  <2>2. ~InTree'
    BY <1>4, <2>1 DEF InTree, InElement
  <2>3. QED
    BY <1>1, <2>1, <2>2 DEF OInv
<1>5. CASE walk' = ElementWalk(idx - 1) /\ kind = "stdcpp_tree"
  <2> DEFINE s == <<[node |-> FirstNode, stage |-> "left"]>>
             g == [i \in 1 .. 1 |-> 0]
  <2>1. walk'.op = "element" /\ walk'.n = 0 /\ walk'.stack = s
    BY <1>5 DEF ElementWalk
  <2>2. Len(s) = 1 /\ s[1].stage = "left" /\ 1 .. 1 - 1 = {} /\ \A i \in 1 .. 1 : i = 1
    OBVIOUS
  <2>3. g[1] = 0
    OBVIOUS
  <2> HIDE DEF s, g
  <2>4. Recorded(s, 0, g)
    BY <2>2, <2>3 DEF Recorded
  <2>5. QED
    BY <1>1, <1>2, <2>1, <2>4, RecursionKept
<1>6. QED
  BY <1>2, <1>3, <1>4, <1>5

(* The recursion is recorded at any time *)
LEMMA StepRecorded ==
  ASSUME OInv, [Next]_vars
  PROVE  OInv'
<1>1. NInv'
  BY StepTypes DEF OInv
<1>2. CASE vars' = vars
  <2>1. walk' = walk /\ kind' = kind /\ link' = link /\ count' = count /\ memory' = memory
    BY <1>2 DEF vars, memory
  <2>2. LeftCycle' <=> LeftCycle
    BY <2>1 DEF LeftCycle, Read, CountAsPointer
  <2>3. (\E g : Recorded(walk.stack, walk.n, g))' <=> \E g : Recorded(walk.stack, walk.n, g)
    BY <2>1 DEF Recorded, Read, CountAsPointer
  <2>4. InTree' <=> InTree
    BY <2>1 DEF InTree, InElement
  <2>5. QED
    BY <1>1, <2>1, <2>2, <2>3, <2>4 DEF OInv
<1>3. CASE TreeLeft \/ TreeSelf \/ TreeRight \/ TreeReturn
  BY <1>3, TreeRecorded
<1>4. CASE \E idx \in 0 .. MaxSize : Expand(idx)
  BY <1>4, ExpandRecorded
<1>5. CASE Format \/ ReadCount \/ SizeStep \/ Rebuild \/ Damage
  <2>1. walk.op \in {"none", "size", "text"} /\ walk \in Walks
    BY <1>5 DEF Format, ReadCount, SizeStep, Rebuild, Damage, InSize, OInv, NInv, TypeOK
  <2>2. walk'.op \in {"none", "size", "text"}
    <3>1. CASE Format
      BY <3>1 DEF Format, SizeWalk
    <3>2. Fail => walk'.op = "none"
      BY DEF Fail, NoWalk
    <3>3. \A sz : SizeKnown(sz) => walk'.op \in {"none", "text"}
      <4> SUFFICES ASSUME NEW sz, SizeKnown(sz) PROVE walk'.op \in {"none", "text"}
        OBVIOUS
      <4>1. CASE walk.op = "text"
        BY <4>1 DEF SizeKnown, NoWalk
      <4>2. CASE walk.op # "text" /\ CheckSize(sz)
        BY <3>2, <4>2 DEF SizeKnown
      <4>3. CASE walk.op # "text" /\ ~CheckSize(sz)
        BY <4>3 DEF SizeKnown, SizeWalk
      <4>4. QED
        BY <4>1, <4>2, <4>3
    <3>4. CASE ReadCount
      BY <3>3, <3>4 DEF ReadCount
    <3>5. CASE SizeStep
      <4>1. walk.op \in {"size", "text"} /\
            walk = [op |-> walk.op, n |-> walk.n, size |-> walk.size, node |-> walk.node]
        BY <2>1, <3>5, WalkTypes DEF SizeStep, InSize
      <4>2. CASE AtEnd(walk.node)
        BY <3>3, <3>5, <4>2 DEF SizeStep
      <4>3. CASE ~AtEnd(walk.node) /\ ~Readable(walk.node)
        BY <3>2, <3>5, <4>3 DEF SizeStep
      <4>4. CASE ~AtEnd(walk.node) /\ Readable(walk.node)
        <5>1. walk' = [walk EXCEPT !.node = Read(walk.node, "next"),
                                   !.n = IF @ > MaxSize THEN @ ELSE @ + 1]
          BY <3>5, <4>4 DEF SizeStep
        <5>2. walk'.op = walk.op
          BY <4>1, <5>1
        <5>3. QED
          BY <4>1, <5>2
      <4>5. QED
        BY <4>2, <4>3, <4>4
    <3>6. CASE Rebuild \/ Damage
      BY <3>6 DEF Rebuild, Damage
    <3>7. QED
      BY <1>5, <3>1, <3>4, <3>5, <3>6
  <2>3. QED
    BY <1>1, <2>2 DEF OInv, InTree, InElement
<1>6. CASE ListElementStep \/ HashElementStep \/ NextStep \/ MinStep \/ ClimbStep \/ TreeNotFound
  <2>1. walk.op = "element" /\ memory' = memory /\ (kind # "stdcpp_tree" \/ TreeNotFound)
    BY <1>6 DEF ListElementStep, HashElementStep, NextStep, MinStep, ClimbStep, TreeNotFound,
       InIteration, InTree, InElement
  <2>2. Fail => walk'.op = "none"
    BY DEF Fail, NoWalk
  <2>3. TreeNotFound => ~InTree'
    BY <2>2 DEF TreeNotFound, InTree, InElement
  <2>4. kind # "stdcpp_tree" => ~InTree'
    BY <2>1 DEF InTree, InElement, memory
  <2>5. walk'.op # "crashed"
    <3>1. \A c : Show(c) => walk'.op = "none"
      BY <2>2 DEF Show, NoWalk
    <3>2. walk = [op |-> "element", index |-> walk.index, n |-> walk.n, node |-> walk.node,
                  mode |-> walk.mode, stack |-> walk.stack]
      BY <2>1, ElementTypes DEF OInv
    <3>3. \A p, n : [walk EXCEPT !.node = p, !.n = n].op = "element"
      BY <3>2
    <3>4. \A p \in Ptr : InIteration /\ Arrive(p) => walk'.op = "element"
      BY <2>1, IterationArrive DEF OInv
    <3>5. \A p, m : [walk EXCEPT !.mode = m, !.node = p].op = "element"
      BY <3>2
    <3>6. (\A p : [walk EXCEPT !.node = p].op = "element") /\ (\A m : [walk EXCEPT !.mode = m].op = "element")
      BY <3>2
    <3>7. CASE ListElementStep
      BY <2>2, <3>1, <3>3, <3>7 DEF ListElementStep
    <3>8. CASE HashElementStep
      BY <2>2, <3>1, <3>3, <3>8 DEF HashElementStep
    <3>9. CASE NextStep
      BY <2>2, <3>1, <3>5, <3>6, <3>9 DEF NextStep
    <3>10. CASE MinStep
      <4>1. walk.node \in Ptr /\ InIteration
        BY <2>1, <3>10, ElementTypes DEF MinStep, OInv
      <4>2. Fail \/ Arrive(walk.node) \/ walk' = [walk EXCEPT !.node = Read(walk.node, "left")]
        BY <3>10 DEF MinStep
      <4>3. QED
        BY <2>2, <3>4, <3>6, <4>1, <4>2
    <3>11. CASE ClimbStep
      <4> DEFINE up == Read(walk.node, "parent")
      <4>1. up \in Ptr /\ InIteration
        BY <3>11, ReadType DEF ClimbStep, OInv, NInv
      <4>2. Fail \/ Arrive(up) \/ walk' = [walk EXCEPT !.node = up]
        BY <3>11 DEF ClimbStep
      <4>3. QED
        BY <2>2, <3>4, <3>6, <4>1, <4>2
    <3>12. CASE TreeNotFound
      BY <2>2, <3>12 DEF TreeNotFound
    <3>13. QED
      BY <1>6, <3>7, <3>8, <3>9, <3>10, <3>11, <3>12
  <2>6. QED
    BY <1>1, <2>1, <2>3, <2>4, <2>5 DEF OInv
<1>7. QED
  BY <1>2, <1>3, <1>4, <1>5, <1>6 DEF Next, Step

(* get_tree_item runs out of a stack with room for more than MaxSize calls *)
(* per cell only in a tree with a cycle of left links: between two calls   *)
(* for one node at least one node is counted, unless the calls in between  *)
(* have all been made for a left child, before any node was counted.       *)
THEOREM OverflowNeedsLeftCycle == Spec => []OverflowOnlyLeftCycle
<1>1. Init => OInv
  BY InitTypes DEF OInv, Init, NoWalk, InTree, InElement
<1>2. OInv /\ [Next]_vars => OInv'
  BY StepRecorded
<1>3. OInv => OverflowOnlyLeftCycle
  BY CyclePath DEF OInv, OverflowOnlyLeftCycle
<1>4. QED
  BY <1>1, <1>2, <1>3, PTL DEF Spec
=============================================================================
