------------------------ MODULE ArrayContainersProofs -----------------------
(***************************************************************************)
(* Proofs about ArrayContainers, for containers of any length, nodes and   *)
(* blocks of any size and any damage: what the formatters' arithmetic      *)
(* finds in a container that the library has left, kind by kind, and what  *)
(* results made earlier show of it.                                        *)
(***************************************************************************)
EXTENDS ArrayContainers, NumberLemmas, FunctionTheorems, SequenceTheorems

-----------------------------------------------------------------------------
(* Containers of every kind, as the library leaves them *)

(* The kinds there are, and what there is of each *)
LEMMA EachKind ==
  ASSUME NEW k \in Kinds
  PROVE  k \in {"vector", "array", "libcxx_valarray", "sub_match", "valarray",
                "slice_array", "match_results", "stdcpp_deque", "libcxx_deque", "bitset",
                "string_view", "zstring", "cow_string", "cxx11_string", "libcxx_string"}
BY KindsAssumption

(* The constants' types *)
LEMMA ConstantTypes ==
  /\ MaxLen \in Nat /\ MaxText \in Nat /\ Unreadable \in Nat /\ MaxSize \in Nat
  /\ MaxVector \in Nat /\ MaxPrinted \in Nat /\ MaxChanges \in Nat
  /\ Modulus \in Nat \ {0} /\ BufSize \in Nat \ {0} /\ MapSize \in Nat \ {0}
  /\ LocalBuffer \in Nat \ {0} /\ WideChars \in Nat \ {0} /\ WordBits \in Nat \ {0}
  /\ MaxSize + 3 <= MaxVector /\ MaxVector < Modulus - 3 /\ 2 * MaxLen < Modulus
  /\ Spacing \in Nat /\ BufSize < Spacing
  /\ MaxText <= MaxLen /\ MaxLen + 1 < Unreadable
  /\ Radix \in Nat /\ Radix > 2 /\ Radix % 2 = 0
BY LimitsAssumption, LayoutAssumption

(* Where blocks begin *)
LEMMA BaseTypes ==
  ASSUME NEW b \in Bases
  PROVE  b \in Nat \ {0} /\ b # 1 /\ b + 2 * MaxLen < Unreadable
BY LimitsAssumption, LayoutAssumption

(* A run of elements *)
LEMMA RunReads ==
  ASSUME NEW base \in Nat, NEW n \in Nat, NEW stride \in Nat
  PROVE  /\ Run(base, n, stride) \in Seq(Nat) /\ Len(Run(base, n, stride)) = n
         /\ DOMAIN Run(base, n, stride) = 1 .. n
         /\ \A i \in 1 .. n : Run(base, n, stride)[i] = base + (i - 1) * stride
<1> DEFINE s == [i \in 1 .. n |-> base + (i - 1) * stride]
<1>1. \A i \in 1 .. n : base + (i - 1) * stride \in Nat
  <2> TAKE i \in 1 .. n
  <2>1. i - 1 \in Nat
    OBVIOUS
  <2>2. (i - 1) * stride \in Nat
    BY <2>1
  <2>3. QED
    BY <2>2
<1>2. s \in Seq(Nat) /\ Len(s) = n /\ DOMAIN s = 1 .. n
  BY <1>1
<1>3. \A i \in 1 .. n : s[i] = base + (i - 1) * stride
  OBVIOUS
<1>4. Run(base, n, stride) = s
  BY DEF Run
<1> HIDE DEF s
<1>5. QED
  BY <1>2, <1>3, <1>4

(* Elements next to each other *)
LEMMA UnitRun ==
  ASSUME NEW base \in Nat, NEW n \in Nat
  PROVE  /\ Run(base, n, 1) \in Seq(Nat) /\ Len(Run(base, n, 1)) = n
         /\ \A i \in 1 .. n : Run(base, n, 1)[i] = base + (i - 1)
         /\ \A i \in 0 .. n - 1 : Run(base, n, 1)[i + 1] = base + i
<1>1. \A i \in 1 .. n : base + (i - 1) * 1 = base + (i - 1)
  OBVIOUS
<1>2. \A i \in 1 .. n : Run(base, n, 1)[i] = base + (i - 1) * 1
  BY RunReads
<1>3. Run(base, n, 1) \in Seq(Nat) /\ Len(Run(base, n, 1)) = n
  BY RunReads
<1>4. \A i \in 0 .. n - 1 : Run(base, n, 1)[i + 1] = base + i
  <2> TAKE i \in 0 .. n - 1
  <2>1. i + 1 \in 1 .. n /\ base + (i + 1 - 1) = base + i
    OBVIOUS
  <2>2. QED
    BY <1>1, <1>2, <2>1
<1>5. QED
  BY <1>1, <1>2, <1>3, <1>4

(* Where Misread says that formatters go wrong, of any container *)
Slips(k, r) ==
    \/ k = "stdcpp_deque" /\ (r.es >= BufSize \/ MaxDequeSize(r) > MaxSize)
    \/ k = "match_results" /\ r.start = r.finish
    \/ k = "libcxx_string" /\ ~r.little

(* The fields that sizes are computed from *)
SizeFields(k) ==
    CASE k \in {"vector", "libcxx_valarray", "sub_match", "match_results"} -> {"start", "finish"}
      [] k = "array" -> {"length", "parameter"}
      [] k = "stdcpp_deque" -> {"es"}
      [] k = "bitset" -> {"bits"}
      [] k \in {"cow_string", "cxx11_string"} -> {"length"}
      [] k = "libcxx_string" -> {"byte", "size"}
      [] OTHER -> {"size"}

(* The fields of a container whether the library has left them or not *)
FieldsOK(k, r) ==
    /\ \A f \in SizeFields(k) : f \in DOMAIN r /\ r[f] \in Nat
    /\ k = "stdcpp_deque" => /\ "map" \in DOMAIN r /\ Len(r.map) \in Nat
                             /\ r.es # 0

(* What the formatter finds in container m: all of its elements *)
Found(k, m) ==
    /\ \/ SizeOf(k, m.rep) = Len(m.contents)
       \/ SizeOf(k, m.rep) = Err /\ Len(m.contents) > MaxSize /\ k # "stdcpp_deque"
    /\ HasCapacity(k) =>
        \/ CapacityOf(k, m.rep) = m.room
        \/ /\ k = "cxx11_string" /\ m.rep.length < LocalBuffer
           /\ CapacityOf(k, m.rep) = LocalBuffer - 1
        \/ k = "libcxx_string" /\ m.rep.data # Local /\ CapacityOf(k, m.rep) = m.room + 1
    /\ ~HasCapacity(k) => m.room = 0
    /\ \A i \in 0 .. Len(m.contents) - 1 :
            ElementAt(k, m.rep, i) = m.contents[i + 1] /\ CanRead(k, m.contents[i + 1])
    /\ k = "stdcpp_deque" =>
            \A i \in Nat : i >= Len(m.contents) => ElementAt(k, m.rep, i) = Err
    /\ IsText(k) =>
            \E b \in Nat : /\ \A i \in 1 .. Len(m.contents) : m.contents[i] = b + (i - 1)
                           /\ k = "zstring" => b = m.rep.data

(* A container that the formatter and the library agree on *)
Agrees(k, m) ==
    /\ FieldsOK(k, m.rep) /\ m.contents \in Seq(Nat) /\ m.room \in Nat
    /\ ~Slips(k, m.rep) => Found(k, m)

(* A vector *)
LEMMA VectorAgrees ==
  ASSUME NEW m \in IntactVector
  PROVE  Agrees("vector", m)
<1> DEFINE k == "vector"
<1>1. \E b \in Nat, n \in 0 .. MaxLen, c \in Nat :
         /\ m = Plain([start |-> b, finish |-> b + n, end |-> b + c], Run(b, n, 1), c)
         /\ n > 0 => b > 0 /\ b + MaxLen < Unreadable
  <2>1. CASE m = Plain([start |-> 0, finish |-> 0, end |-> 0], <<>>, 0)
    <3>1. Run(0, 0, 1) = <<>>
      BY RunReads
    <3>2. m = Plain([start |-> 0, finish |-> 0 + 0, end |-> 0 + 0], Run(0, 0, 1), 0)
      BY <2>1, <3>1
    <3>3. 0 \in 0 .. MaxLen
      BY ConstantTypes
    <3>4. QED
      BY <3>2, <3>3
  <2>2. CASE m # Plain([start |-> 0, finish |-> 0, end |-> 0], <<>>, 0)
    <3>1. PICK b \in Bases, p \in Fits(1 .. MaxLen + 1) :
              m = Plain([start |-> b, finish |-> b + p[1], end |-> b + p[2]], Run(b, p[1], 1), p[2])
      BY <2>2 DEF IntactVector
    <3>2. p[1] \in 0 .. MaxLen /\ p[2] \in Nat
      BY ConstantTypes DEF Fits
    <3>3. b \in Nat /\ b > 0 /\ b + MaxLen < Unreadable
      BY BaseTypes, ConstantTypes
    <3>4. QED
      BY <3>1, <3>2, <3>3
  <2>3. QED
    BY <2>1, <2>2
<1>2. PICK b \in Nat, n \in 0 .. MaxLen, c \in Nat :
         /\ m = Plain([start |-> b, finish |-> b + n, end |-> b + c], Run(b, n, 1), c)
         /\ n > 0 => b > 0 /\ b + MaxLen < Unreadable
  BY <1>1
<1>3. /\ m.rep.start = b /\ m.rep.finish = b + n /\ m.rep.end = b + c
      /\ m.contents = Run(b, n, 1) /\ m.room = c /\ n \in Nat /\ n <= MaxLen
      /\ {"start", "finish"} \subseteq DOMAIN m.rep
  BY <1>2, ConstantTypes DEF Plain
<1>4. /\ m.contents \in Seq(Nat) /\ Len(m.contents) = n
      /\ \A i \in 1 .. n : m.contents[i] = b + (i - 1)
      /\ \A i \in 0 .. n - 1 : m.contents[i + 1] = b + i
  <2>1. /\ Run(b, n, 1) \in Seq(Nat) /\ Len(Run(b, n, 1)) = n
        /\ \A i \in 1 .. n : Run(b, n, 1)[i] = b + (i - 1)
        /\ \A i \in 0 .. n - 1 : Run(b, n, 1)[i + 1] = b + i
    BY <1>3, UnitRun
  <2>2. QED
    BY Zenon, <1>3, <2>1
<1>5. FieldsOK(k, m.rep)
  BY <1>3 DEF FieldsOK, SizeFields
<1>6. SizeOf(k, m.rep) = n \/ (SizeOf(k, m.rep) = Err /\ n > MaxSize)
  <2>1. SizeOf(k, m.rep) = VectorSize(m.rep)
    BY DEF SizeOf
  <2>2. m.rep.finish - m.rep.start = n
    BY <1>3
  <2>3. VectorSize(m.rep) = IF n < 0 \/ n > MaxVector THEN Err ELSE n
    BY <2>2 DEF VectorSize
  <2>4. QED
    BY <1>3, <2>1, <2>3, ConstantTypes
<1>7. CapacityOf(k, m.rep) = m.room
  BY <1>3 DEF CapacityOf, VectorCapacity
<1>8. ASSUME NEW i \in 0 .. n - 1
      PROVE  ElementAt(k, m.rep, i) = m.contents[i + 1] /\ CanRead(k, m.contents[i + 1])
  <2>1. ElementAt(k, m.rep, i) = b + i
    BY <1>3 DEF ElementAt, VectorElement
  <2>2. m.contents[i + 1] = b + i
    BY <1>3, <1>4
  <2>3. b + i \in 1 .. Unreadable - 1 /\ b + i # Err
    BY <1>2, <1>3, ConstantTypes DEF Err
  <2>4. QED
    BY <2>1, <2>2, <2>3 DEF CanRead
<1>9. Found(k, m)
  BY <1>4, <1>6, <1>7, <1>8 DEF Found, IsText, Strings, HasCapacity
<1>10. QED
  BY <1>3, <1>4, <1>5, <1>9 DEF Agrees

(* Whatever its fields, a container of elements next to each other *)
LEMMA RunAgrees ==
  ASSUME NEW k, NEW m, NEW b \in Nat, NEW n \in Nat, k # "stdcpp_deque",
         m.contents = Run(b, n, 1), m.room \in Nat,
         n > 0 => b > 0 /\ b + n <= Unreadable,
         FieldsOK(k, m.rep),
         SizeOf(k, m.rep) = n \/ (SizeOf(k, m.rep) = Err /\ n > MaxSize),
         HasCapacity(k) =>
            \/ CapacityOf(k, m.rep) = m.room
            \/ /\ k = "cxx11_string" /\ m.rep.length < LocalBuffer
               /\ CapacityOf(k, m.rep) = LocalBuffer - 1
            \/ k = "libcxx_string" /\ m.rep.data # Local /\ CapacityOf(k, m.rep) = m.room + 1,
         ~HasCapacity(k) => m.room = 0,
         \A i \in 0 .. n - 1 : ElementAt(k, m.rep, i) = b + i,
         k = "zstring" => b = m.rep.data
  PROVE  Agrees(k, m)
<1>1. /\ m.contents \in Seq(Nat) /\ Len(m.contents) = n
      /\ \A i \in 1 .. n : m.contents[i] = b + (i - 1)
      /\ \A i \in 0 .. n - 1 : m.contents[i + 1] = b + i
  <2>1. /\ Run(b, n, 1) \in Seq(Nat) /\ Len(Run(b, n, 1)) = n
        /\ \A i \in 1 .. n : Run(b, n, 1)[i] = b + (i - 1)
        /\ \A i \in 0 .. n - 1 : Run(b, n, 1)[i + 1] = b + i
    BY UnitRun
  <2>2. QED
    BY Zenon, <2>1
<1>2. ASSUME NEW i \in 0 .. n - 1
      PROVE  ElementAt(k, m.rep, i) = m.contents[i + 1] /\ CanRead(k, m.contents[i + 1])
  <2>1. ElementAt(k, m.rep, i) = b + i /\ m.contents[i + 1] = b + i
    BY <1>1
  <2>2. b + i \in 1 .. Unreadable - 1 /\ b + i # Err
    BY ConstantTypes DEF Err
  <2>3. QED
    BY <2>1, <2>2 DEF CanRead
<1>3. Found(k, m)
  BY <1>1, <1>2 DEF Found
<1>4. QED
  BY <1>1, <1>3 DEF Agrees

(* Valarrays of libc++ and matches of parts of a regex *)
LEMMA RangeAgrees ==
  ASSUME NEW k \in {"libcxx_valarray", "sub_match"}, NEW m \in IntactRange
  PROVE  Agrees(k, m)
<1>1. PICK b \in Bases, n \in 0 .. MaxLen :
         m = Plain([start |-> b, finish |-> b + n], Run(b, n, 1), 0)
  BY DEF IntactRange
<1>2. /\ m.rep.start = b /\ m.rep.finish = b + n
      /\ m.contents = Run(b, n, 1) /\ m.room = 0 /\ n \in Nat /\ n <= MaxLen
      /\ {"start", "finish"} \subseteq DOMAIN m.rep
  BY <1>1, ConstantTypes DEF Plain
<1>3. b \in Nat /\ b > 0 /\ b + n <= Unreadable
  BY <1>2, BaseTypes, ConstantTypes
<1>4. FieldsOK(k, m.rep)
  BY <1>2, <1>3 DEF FieldsOK, SizeFields
<1>5. SizeOf(k, m.rep) = n
  <2>1. SizeOf(k, m.rep) = RangeSize(m.rep)
    BY DEF SizeOf
  <2>2. m.rep.finish - m.rep.start = n
    BY <1>2, <1>3
  <2>3. n % Modulus = n
    BY <1>2, ConstantTypes, Divided
  <2>4. QED
    BY <2>1, <2>2, <2>3 DEF RangeSize, Minus
<1>6. \A i \in 0 .. n - 1 : ElementAt(k, m.rep, i) = b + i
  BY <1>2 DEF ElementAt, RangeElement
<1>7. ~HasCapacity(k)
  BY DEF HasCapacity
<1>8. QED
  BY <1>2, <1>3, <1>4, <1>5, <1>6, <1>7, RunAgrees

(* Arrays *)
LEMMA ArrayAgrees ==
  ASSUME NEW m \in IntactArray
  PROVE  Agrees("array", m)
<1> DEFINE k == "array"
           Made(b, n, libcxx) ==
              Plain([data |-> b, array |-> n > 0 \/ libcxx, length |-> IF n = 0 THEN 1 ELSE n,
                     parameter |-> n, libcxx |-> libcxx], Run(b, n, 1), 0)
<1>0. IntactArray = {Made(b, n, libcxx) : b \in Bases, n \in 0 .. MaxLen, libcxx \in BOOLEAN}
  BY DEF IntactArray
<1> HIDE DEF Made
<1>1. PICK b \in Bases, n \in 0 .. MaxLen, libcxx \in BOOLEAN : m = Made(b, n, libcxx)
  BY <1>0
<1>2. /\ m.rep.data = b /\ m.rep.array = (n > 0 \/ libcxx) /\ m.rep.parameter = n
      /\ m.rep.length = (IF n = 0 THEN 1 ELSE n) /\ m.rep.libcxx = libcxx
      /\ m.contents = Run(b, n, 1) /\ m.room = 0 /\ n \in Nat /\ n <= MaxLen
      /\ {"length", "parameter"} \subseteq DOMAIN m.rep
  BY <1>1, ConstantTypes DEF Plain, Made
<1>3. b \in Nat /\ b > 0 /\ b + n <= Unreadable
  BY <1>2, BaseTypes, ConstantTypes
<1>4. FieldsOK(k, m.rep)
  BY <1>2, <1>3 DEF FieldsOK, SizeFields
<1>5. SizeOf(k, m.rep) = n
  <2>1. SizeOf(k, m.rep) = IF m.rep.libcxx THEN LibcxxArraySize(m.rep) ELSE ArraySize(m.rep)
    BY DEF SizeOf
  <2>2. LibcxxArraySize(m.rep) = n
    BY <1>2 DEF LibcxxArraySize
  <2>3. ASSUME ~libcxx PROVE ArraySize(m.rep) = n
    <3>1. CASE n = 0
      <4>1. ~(n > 0)
        BY <3>1
      <4>2. QED
        BY Zenon, <1>2, <2>3, <3>1, <4>1 DEF ArraySize
    <3>2. CASE n # 0
      <4>1. n > 0
        BY <1>2, <3>2
      <4>2. QED
        BY Zenon, <1>2, <3>2, <4>1 DEF ArraySize
    <3>3. QED
      BY <3>1, <3>2
  <2>4. QED
    BY Zenon, <1>2, <2>1, <2>2, <2>3
<1>6. \A i \in 0 .. n - 1 : ElementAt(k, m.rep, i) = b + i
  BY <1>2 DEF ElementAt, ArrayElement
<1>7. ~HasCapacity(k)
  BY DEF HasCapacity
<1>8. QED
  BY <1>2, <1>3, <1>4, <1>5, <1>6, <1>7, RunAgrees

(* Matches, when there are some *)
LEMMA MatchesAgree ==
  ASSUME NEW m \in IntactMatches
  PROVE  Agrees("match_results", m)
<1> DEFINE k == "match_results"
<1>1. CASE m = Plain([start |-> 0, finish |-> 0], <<>>, 0)
  <2>1. /\ m.rep.start = 0 /\ m.rep.finish = 0 /\ m.contents = <<>> /\ m.room = 0
        /\ {"start", "finish"} \subseteq DOMAIN m.rep
    BY <1>1 DEF Plain
  <2>2. Slips(k, m.rep)
    BY <2>1 DEF Slips
  <2>3. FieldsOK(k, m.rep) /\ m.contents \in Seq(Nat)
    BY <2>1 DEF FieldsOK, SizeFields
  <2>4. QED
    BY <2>1, <2>2, <2>3 DEF Agrees
<1>2. CASE m # Plain([start |-> 0, finish |-> 0], <<>>, 0)
  <2>1. PICK b \in Bases, n \in 0 .. MaxLen :
           m = Plain([start |-> b, finish |-> b + n + 3], Run(b, n, 1), 0)
    BY <1>2 DEF IntactMatches
  <2>2. /\ m.rep.start = b /\ m.rep.finish = b + n + 3
        /\ m.contents = Run(b, n, 1) /\ m.room = 0 /\ n \in Nat /\ n <= MaxLen
        /\ {"start", "finish"} \subseteq DOMAIN m.rep
    BY <2>1, ConstantTypes DEF Plain
  <2>3. b \in Nat /\ b > 0 /\ b + n <= Unreadable
    BY <2>2, BaseTypes, ConstantTypes
  <2>4. FieldsOK(k, m.rep)
    BY <2>2, <2>3 DEF FieldsOK, SizeFields
  <2>5. SizeOf(k, m.rep) = n \/ (SizeOf(k, m.rep) = Err /\ n > MaxSize)
    <3>1. SizeOf(k, m.rep) = MatchResultsSize(m.rep)
      BY DEF SizeOf
    <3>2. m.rep.finish - m.rep.start = n + 3
      BY <2>2, <2>3
    <3>3. VectorSize(m.rep) = IF n + 3 < 0 \/ n + 3 > MaxVector THEN Err ELSE n + 3
      BY <3>2 DEF VectorSize
    <3>4. n % Modulus = n /\ n + 3 - 3 = n
      BY <2>2, ConstantTypes, Divided
    <3>5. CASE n + 3 > MaxVector
      BY <2>2, <3>1, <3>3, <3>5, ConstantTypes DEF MatchResultsSize
    <3>6. CASE ~(n + 3 > MaxVector)
      <4>1. VectorSize(m.rep) = n + 3 /\ n + 3 # Err
        BY <2>2, <3>3, <3>6 DEF Err
      <4>2. QED
        BY <3>1, <3>4, <4>1 DEF MatchResultsSize, Minus
    <3>7. QED
      BY <3>5, <3>6
  <2>6. \A i \in 0 .. n - 1 : ElementAt(k, m.rep, i) = b + i
    BY <2>2 DEF ElementAt, VectorElement
  <2>7. ~HasCapacity(k)
    BY DEF HasCapacity
  <2>8. k # "stdcpp_deque" /\ k # "zstring" /\ m.room \in Nat
    BY <2>2
  <2> HIDE DEF k
  <2>9. Agrees(k, m)
    BY <2>2, <2>3, <2>4, <2>5, <2>6, <2>7, <2>8, RunAgrees
  <2>10. QED
    BY <2>9 DEF k
<1>3. QED
  BY <1>1, <1>2

(* Valarrays and slices of them, of any stride *)
LEMMA SliceAgrees ==
  ASSUME NEW k, NEW S \in SUBSET {1, 2}, NEW m \in IntactSlice(S),
         k = "slice_array" \/ (k = "valarray" /\ S = {1})
  PROVE  Agrees(k, m)
<1>1. PICK b \in Bases, n \in 0 .. MaxLen, s \in S :
         m = Plain([data |-> b, size |-> n, stride |-> s], Run(b, n, s), 0)
  BY DEF IntactSlice
<1>2. /\ m.rep.data = b /\ m.rep.size = n /\ m.rep.stride = s /\ "size" \in DOMAIN m.rep
      /\ m.contents = Run(b, n, s) /\ m.room = 0 /\ n \in Nat /\ n <= MaxLen
  BY <1>1, ConstantTypes DEF Plain
<1>3. b \in Nat /\ b > 0 /\ b + 2 * MaxLen < Unreadable /\ s \in {1, 2} /\ s \in Nat
  BY <1>2, BaseTypes, ConstantTypes
<1>4. /\ m.contents \in Seq(Nat) /\ Len(m.contents) = n
      /\ \A i \in 1 .. n : m.contents[i] = b + (i - 1) * s
  <2>0. b \in Nat /\ n \in Nat /\ s \in Nat
    BY <1>2, <1>3
  <2>1. /\ Run(b, n, s) \in Seq(Nat) /\ Len(Run(b, n, s)) = n
        /\ \A i \in 1 .. n : Run(b, n, s)[i] = b + (i - 1) * s
    BY <2>0, RunReads
  <2>2. QED
    BY Zenon, <1>2, <2>1
<1>5. FieldsOK(k, m.rep)
  BY <1>2 DEF FieldsOK, SizeFields
<1>6. SizeOf(k, m.rep) = n
  BY <1>2 DEF SizeOf
<1>7. ASSUME NEW i \in 0 .. n - 1
      PROVE  ElementAt(k, m.rep, i) = m.contents[i + 1] /\ CanRead(k, m.contents[i + 1])
  <2>1. m.contents[i + 1] = b + i * s
    <3>1. i + 1 \in 1 .. n /\ i + 1 - 1 = i
      BY <1>2
    <3>2. m.contents[i + 1] = b + (i + 1 - 1) * s
      BY <1>4, <3>1
    <3>3. QED
      BY Zenon, <3>1, <3>2
  <2>2. i * s \in Nat /\ i * s < 2 * MaxLen
    <3>1. CASE s = 1
      BY <1>2, <3>1, ConstantTypes
    <3>2. CASE s = 2
      BY <1>2, <3>2, ConstantTypes
    <3>3. QED
      BY <1>3, <3>1, <3>2
  <2> DEFINE p == i * s
  <2>3. p \in Nat /\ p < 2 * MaxLen /\ m.contents[i + 1] = b + p
    BY <2>1, <2>2
  <2>4. ElementAt(k, m.rep, i) = b + p
    <3>1. CASE k = "slice_array"
      <4>1. ElementAt(k, m.rep, i) = SliceElement(m.rep, i)
        BY <3>1 DEF ElementAt
      <4>2. SliceElement(m.rep, i) = b + (p % Modulus)
        BY <1>2 DEF SliceElement
      <4> HIDE DEF p
      <4>3. p < Modulus
        BY <2>3, ConstantTypes
      <4>4. p % Modulus = p
        BY <2>3, <4>3, ConstantTypes, Divided
      <4>5. QED
        BY <4>1, <4>2, <4>4
    <3>2. CASE k = "valarray" /\ S = {1}
      <4>1. ElementAt(k, m.rep, i) = b + i
        BY <1>2, <3>2 DEF ElementAt
      <4>2. p = i
        BY <3>2
      <4>3. QED
        BY <4>1, <4>2
    <3>3. QED
      BY <3>1, <3>2
  <2> HIDE DEF p
  <2>5. b + p \in 1 .. Unreadable - 1 /\ b + p # Err
    BY <1>3, <2>3, ConstantTypes DEF Err
  <2>6. QED
    BY <2>3, <2>4, <2>5 DEF CanRead
<1>8. Found(k, m)
  <2>1. ~HasCapacity(k) /\ k # "stdcpp_deque" /\ ~IsText(k)
    BY DEF HasCapacity, IsText, Strings
  <2>2. QED
    BY <1>2, <1>4, <1>6, <1>7, <2>1 DEF Found
<1>9. QED
  BY <1>2, <1>4, <1>5, <1>8 DEF Agrees

(* Views of strings and pointers to characters *)
LEMMA ViewAgrees ==
  ASSUME NEW k \in {"string_view", "zstring"}, NEW m \in IntactView
  PROVE  Agrees(k, m)
<1> DEFINE Made(b, n) == Plain([data |-> b, size |-> n], Run(b, n, 1), 0)
<1>0. IntactView = {Made(b, n) : b \in Bases, n \in 0 .. MaxLen}
  BY DEF IntactView
<1> HIDE DEF Made
<1>1. PICK b \in Bases, n \in 0 .. MaxLen : m = Made(b, n)
  BY <1>0
<1>2. /\ m.rep.data = b /\ m.rep.size = n /\ "size" \in DOMAIN m.rep
      /\ m.contents = Run(b, n, 1) /\ m.room = 0 /\ n \in Nat /\ n <= MaxLen
  BY <1>1, ConstantTypes DEF Plain, Made
<1>3. b \in Nat /\ b > 0 /\ b + n <= Unreadable
  BY <1>2, BaseTypes, ConstantTypes
<1>4. FieldsOK(k, m.rep)
  BY <1>2, <1>3 DEF FieldsOK, SizeFields
<1>5. SizeOf(k, m.rep) = n
  BY <1>2 DEF SizeOf
<1>6. \A i \in 0 .. n - 1 : ElementAt(k, m.rep, i) = b + i
  BY <1>2 DEF ElementAt
<1>7. ~HasCapacity(k) /\ k # "stdcpp_deque" /\ m.room \in Nat
  BY <1>2 DEF HasCapacity
<1>8. QED
  BY <1>2, <1>3, <1>4, <1>5, <1>6, <1>7, RunAgrees

(* Bits: the word and the place in it make up the number of the bit *)
LEMMA BitsAgree ==
  ASSUME NEW m \in IntactBits
  PROVE  Agrees("bitset", m)
<1> DEFINE k == "bitset"
           Made(n) == Plain([bits |-> n, array |-> n > WordBits], [i \in 1 .. n |-> i - 1], 0)
<1>0. IntactBits = {Made(n) : n \in 0 .. MaxLen}
  BY DEF IntactBits
<1> HIDE DEF Made
<1>1. PICK n \in 0 .. MaxLen : m = Made(n)
  BY <1>0
<1> DEFINE s == [i \in 1 .. n |-> i - 1]
<1>2. /\ m.rep.bits = n /\ m.rep.array = (n > WordBits) /\ "bits" \in DOMAIN m.rep
      /\ m.contents = s /\ m.room = 0 /\ n \in Nat
  BY <1>1, ConstantTypes DEF Plain, Made
<1>3. s \in Seq(Nat) /\ Len(s) = n /\ \A i \in 1 .. n : s[i] = i - 1
  BY <1>2
<1> HIDE DEF s
<1>4. FieldsOK(k, m.rep)
  BY <1>2 DEF FieldsOK, SizeFields
<1>5. SizeOf(k, m.rep) = n
  BY <1>2 DEF SizeOf, BitsetSize
<1>6. ASSUME NEW i \in 0 .. n - 1
      PROVE  ElementAt(k, m.rep, i) = m.contents[i + 1] /\ CanRead(k, m.contents[i + 1])
  <2>1. i \in Nat /\ i < n /\ i + 1 \in 1 .. n /\ i + 1 - 1 = i
    BY <1>2
  <2>2. s[i + 1] = i
    BY <1>3, <2>1
  <2> DEFINE d == i \div WordBits
             r == i % WordBits
  <2>3. d \in Nat /\ r \in Nat /\ i = WordBits * d + r /\ (i < WordBits => r = i)
    BY <2>1, ConstantTypes, Divided
  <2>4. ElementAt(k, m.rep, i) = (IF m.rep.array THEN d * WordBits ELSE 0) + r
    BY DEF ElementAt, BitElement
  <2> HIDE DEF d, r
  <2>5. CASE n > WordBits
    <3>1. m.rep.array
      BY Zenon, <1>2, <2>5
    <3>2. d * WordBits = WordBits * d
      BY <2>3, ConstantTypes
    <3>3. ElementAt(k, m.rep, i) = d * WordBits + r
      BY Zenon, <2>4, <3>1
    <3>4. QED
      BY <1>2, <2>1, <2>2, <2>3, <3>2, <3>3 DEF CanRead, Err
  <2>6. CASE ~(n > WordBits)
    <3>1. ~m.rep.array
      BY Zenon, <1>2, <2>6
    <3>2. ElementAt(k, m.rep, i) = 0 + r
      BY Zenon, <2>4, <3>1
    <3>3. r = i
      BY <1>2, <2>1, <2>3, <2>6, ConstantTypes
    <3>4. QED
      BY <1>2, <2>1, <2>2, <3>2, <3>3 DEF CanRead, Err
  <2>7. QED
    BY <2>5, <2>6
<1>7. Found(k, m)
  <2>1. ~HasCapacity(k) /\ k # "stdcpp_deque" /\ ~IsText(k)
    BY DEF HasCapacity, IsText, Strings
  <2>2. Len(m.contents) = n
    BY <1>2, <1>3
  <2>3. QED
    BY <1>2, <1>5, <1>6, <2>1, <2>2 DEF Found
<1>8. QED
  BY <1>2, <1>3, <1>4, <1>7 DEF Agrees

(* Strings that share their text *)
LEMMA CowAgrees ==
  ASSUME NEW m \in IntactCow
  PROVE  Agrees("cow_string", m)
<1> DEFINE Made(b, p) == Plain([data |-> b, length |-> p[1], capacity |-> p[2]], Run(b, p[1], 1), p[2])
<1>0. IntactCow = {Made(b, p) : b \in Bases, p \in Fits(0 .. MaxLen + 1)}
  BY DEF IntactCow
<1> HIDE DEF Made
<1>1. PICK b \in Bases, p \in Fits(0 .. MaxLen + 1) : m = Made(b, p)
  BY <1>0
<1> DEFINE n == p[1]
           c == p[2]
<1>2. n \in 0 .. MaxLen /\ c \in Nat
  BY ConstantTypes DEF Fits
<1>3. /\ m.rep.data = b /\ m.rep.length = n /\ m.rep.capacity = c /\ "length" \in DOMAIN m.rep
      /\ m.contents = Run(b, n, 1) /\ m.room = c
  BY <1>1 DEF Plain, Made
<1> HIDE DEF n, c
<1>4. b \in Nat /\ b > 0 /\ b + n <= Unreadable /\ n \in Nat
  BY <1>2, BaseTypes, ConstantTypes
<1> DEFINE k == "cow_string"
<1>5. FieldsOK(k, m.rep)
  BY <1>3, <1>4 DEF FieldsOK, SizeFields
<1>6. SizeOf(k, m.rep) = n /\ CapacityOf(k, m.rep) = m.room
  BY <1>3 DEF SizeOf, StringSize, CapacityOf
<1>7. \A i \in 0 .. n - 1 : ElementAt(k, m.rep, i) = b + i
  BY <1>3 DEF ElementAt, TextElement
<1>8. k # "stdcpp_deque" /\ k # "zstring" /\ m.room \in Nat /\ HasCapacity(k)
  BY <1>2, <1>3 DEF HasCapacity
<1> HIDE DEF k
<1>9. Agrees(k, m)
  BY <1>3, <1>4, <1>5, <1>6, <1>7, <1>8, RunAgrees
<1>10. QED
  BY <1>9 DEF k

(* Strings of libstdc++, in their own buffer or elsewhere *)
LEMMA Cxx11Agrees ==
  ASSUME NEW m \in IntactCxx11
  PROVE  Agrees("cxx11_string", m)
<1> DEFINE k == "cxx11_string"
           Short(cs) == LocalBuffer \div cs - 1
           Made(d, n, a, cs, c) ==
              Plain([data |-> d, length |-> n, allocated |-> a, cs |-> cs], Run(d, n, 1), c)
           Locals(cs) == {Made(Local, n, a, cs, Short(cs)) :
                            n \in {n \in 0 .. MaxLen : n <= Short(cs)}, a \in {0, 1}}
           Others(cs) == {Made(b, p[1], p[2], cs, p[2]) :
                            b \in Bases, p \in Fits(Short(cs) + 1 .. MaxLen + Short(cs) + 1)}
<1>0. IntactCxx11 = UNION {Locals(cs) \cup Others(cs) : cs \in {1, 2}}
  BY DEF IntactCxx11
<1>1. \E d \in Nat, n \in 0 .. MaxLen, a \in Nat, cs \in {1, 2}, c \in Nat :
         /\ m = Made(d, n, a, cs, c)
         /\ d > 0 /\ d + n <= Unreadable
         /\ n < LocalBuffer \/ c = a
  <2>1. \A cs \in {1, 2} : Short(cs) \in Int /\ Short(cs) < LocalBuffer /\ Short(cs) >= -1
    <3>1. LocalBuffer \div 1 = LocalBuffer /\ LocalBuffer \div 2 \in Nat /\ LocalBuffer \div 2 <= LocalBuffer
      BY ConstantTypes
    <3>2. QED
      BY <3>1, ConstantTypes
  <2> HIDE DEF Short, Made
  <2>2. PICK cs \in {1, 2} : m \in Locals(cs) \/ m \in Others(cs)
    <3> HIDE DEF Locals, Others
    <3>1. QED
      BY <1>0
  <2>3. CASE m \in Locals(cs)
    <3>1. PICK n \in {n \in 0 .. MaxLen : n <= Short(cs)}, a \in {0, 1} :
              m = Made(Local, n, a, cs, Short(cs))
      BY <2>3
    <3>2. n \in 0 .. MaxLen /\ n <= Short(cs) /\ a \in Nat /\ n < LocalBuffer
      BY <2>1, <3>1, ConstantTypes
    <3>3. Short(cs) \in Nat
      BY <2>1, <3>2, ConstantTypes
    <3>4. Local \in Nat /\ Local > 0 /\ Local + n <= Unreadable
      BY <3>2, ConstantTypes DEF Local
    <3>5. QED
      BY <3>1, <3>2, <3>3, <3>4
  <2>4. CASE m \in Others(cs)
    <3>1. PICK b \in Bases, p \in Fits(Short(cs) + 1 .. MaxLen + Short(cs) + 1) :
              m = Made(b, p[1], p[2], cs, p[2])
      BY <2>4
    <3>2. p[1] \in 0 .. MaxLen /\ p[2] \in Nat
      BY <2>1, ConstantTypes DEF Fits
    <3>3. b \in Nat /\ b > 0 /\ b + p[1] <= Unreadable
      BY <3>2, BaseTypes, ConstantTypes
    <3>4. QED
      BY <3>1, <3>2, <3>3
  <2>5. QED
    BY <2>2, <2>3, <2>4
<1> HIDE DEF Made, Short
<1>2. PICK d \in Nat, n \in 0 .. MaxLen, a \in Nat, cs \in {1, 2}, c \in Nat :
         /\ m = Made(d, n, a, cs, c)
         /\ d > 0 /\ d + n <= Unreadable
         /\ n < LocalBuffer \/ c = a
  BY <1>1
<1>3. /\ m.rep.data = d /\ m.rep.length = n /\ m.rep.allocated = a /\ "length" \in DOMAIN m.rep
      /\ m.contents = Run(d, n, 1) /\ m.room = c /\ n \in Nat
  BY <1>2, ConstantTypes DEF Plain, Made
<1>4. FieldsOK(k, m.rep)
  BY <1>3 DEF FieldsOK, SizeFields
<1>5. SizeOf(k, m.rep) = n
  BY <1>3 DEF SizeOf, StringSize
<1>6. \/ CapacityOf(k, m.rep) = m.room
      \/ /\ k = "cxx11_string" /\ m.rep.length < LocalBuffer
         /\ CapacityOf(k, m.rep) = LocalBuffer - 1
  <2>1. CapacityOf(k, m.rep) = IF n < LocalBuffer THEN LocalBuffer - 1 ELSE a
    BY <1>3 DEF CapacityOf, Cxx11Capacity
  <2>2. QED
    BY <1>2, <1>3, <2>1
<1>7. \A i \in 0 .. n - 1 : ElementAt(k, m.rep, i) = d + i
  BY <1>3 DEF ElementAt, TextElement
<1>8. k # "stdcpp_deque" /\ k # "zstring" /\ m.room \in Nat /\ HasCapacity(k)
  BY <1>3 DEF HasCapacity
<1> HIDE DEF k
<1>9. Agrees(k, m)
  BY <1>2, <1>3, <1>4, <1>5, <1>6, <1>7, <1>8, RunAgrees
<1>10. QED
  BY <1>9 DEF k

(* Half of a byte's values *)
LEMMA HalfRadix ==
  /\ Radix \div 2 \in Nat /\ Radix \div 2 >= 2 /\ Radix = 2 * (Radix \div 2)
  /\ HighBit \in Nat /\ MaxLen + 2 < HighBit /\ HighBit = Radix * (Radix \div 2)
  /\ ShortRoom \in Int /\ ShortRoom < Radix \div 2
<1> DEFINE H == Radix \div 2
<1>1. H \in Nat /\ Radix = 2 * H
  <2>1. Radix = 2 * (Radix \div 2) + (Radix % 2) /\ Radix \div 2 \in Nat
    BY ConstantTypes, Divided
  <2>2. QED
    BY <2>1, ConstantTypes
<1>2. HighBit = H * Radix /\ ShortRoom = H - 3
  BY DEF HighBit, ShortRoom
<1>3. MaxLen + 2 < H * Radix
  BY LayoutAssumption
<1> HIDE DEF H
<1>4. H >= 2
  BY <1>1, ConstantTypes
<1>5. H * Radix \in Nat /\ H * Radix = Radix * H
  BY <1>1, ConstantTypes
<1>6. H \in Nat /\ H >= 2 /\ Radix = 2 * H /\ HighBit \in Nat /\ MaxLen + 2 < HighBit
      /\ HighBit = Radix * H /\ ShortRoom \in Int /\ ShortRoom < H
  BY <1>1, <1>2, <1>3, <1>4, <1>5
<1>7. QED
  BY Zenon, <1>6 DEF H

(* The flag in a short libc++ string *)
LEMMA ShortFlag ==
  ASSUME NEW n \in Nat, n <= ShortRoom
  PROVE  /\ Bit(2 * n, 1) = 0 /\ (2 * n) \div 2 = n
         /\ Bit(n, Radix \div 2) = 0
<1> DEFINE H == Radix \div 2
<1>1. H \in Nat \ {0} /\ n < H
  BY HalfRadix
<1> HIDE DEF H
<1>2. (2 * n) \div 1 = 2 * n /\ (2 * n) % 2 = 0 /\ (2 * n) \div 2 = n
  OBVIOUS
<1>3. n \div H = 0
  BY <1>1, Divided
<1>4. Bit(n, H) = 0
  BY <1>3 DEF Bit
<1>5. Bit(2 * n, 1) = 0
  BY <1>2 DEF Bit
<1>6. QED
  BY <1>2, <1>4, <1>5 DEF H

(* The flag in the capacity of a long one: set, and nothing of the number  *)
LEMMA LongFlag ==
  ASSUME NEW c \in Nat, c <= MaxLen + 2, c % 2 = 0
  PROVE  /\ Bit((c + 1) % Radix, 1) = 1 /\ (c + 1) % Radix \in Nat
         /\ Bit(c + 1, 1) = 1
         /\ Bit((c + HighBit) \div Radix, Radix \div 2) = 1 /\ (c + HighBit) \div Radix \in Nat
         /\ Bit(c + HighBit, HighBit) = 1
<1> DEFINE H == Radix \div 2
           q == (c + 1) \div Radix
           r == (c + 1) % Radix
<1>1. /\ H \in Nat /\ H >= 2 /\ Radix = 2 * H /\ HighBit \in Nat /\ MaxLen + 2 < HighBit
      /\ HighBit = Radix * H /\ Radix \in Nat \ {0}
  BY HalfRadix, ConstantTypes
<1>2. q \in Nat /\ r \in Nat /\ c + 1 = Radix * q + r
  BY <1>1, Divided
<1>3. c = 2 * (c \div 2) /\ c \div 2 \in Nat
  <2>1. c = 2 * (c \div 2) + (c % 2) /\ c \div 2 \in Nat
    BY Divided
  <2>2. QED
    BY <2>1
<1> DEFINE e == c \div 2
<1>4. c = 2 * e /\ e \in Nat
  BY <1>3
<1> HIDE DEF H, q, r, e
<1>5. (c + 1) % 2 = 1 /\ (c + 1) \div 1 = c + 1
  BY <1>4
<1>6. Bit(c + 1, 1) = 1
  BY <1>5 DEF Bit
<1>7. Bit(r, 1) = 1
  <2>1. Radix * q = 2 * (H * q) /\ H * q \in Nat
    BY <1>1, <1>2
  <2> DEFINE x == H * q
  <2>2. x \in Nat /\ 2 * e + 1 = 2 * x + r
    BY <1>2, <1>4, <2>1
  <2> HIDE DEF x
  <2>3. r % 2 = 1 /\ r \div 1 = r
    BY <1>2, <1>4, <2>2
  <2>4. QED
    BY <2>3 DEF Bit
<1>8. Bit(c + HighBit, HighBit) = 1
  <2>1. HighBit \in Nat \ {0} /\ c \in 0 .. HighBit - 1
    BY <1>1, ConstantTypes
  <2>2. (HighBit * 1 + c) \div HighBit = 1
    BY <2>1, DividedParts
  <2>3. HighBit * 1 + c = c + HighBit
    BY <2>1
  <2>4. QED
    BY <2>2, <2>3 DEF Bit
<1> DEFINE d == c \div Radix
           s == c % Radix
<1>9. d \in Nat /\ s \in Nat /\ s < Radix /\ c = Radix * d + s
  BY <1>1, Divided
<1>10. d < H
  <2>1. c < Radix * H
    BY <1>1, ConstantTypes
  <2>2. QED
    BY <1>1, <2>1, DividedBelow
<1> HIDE DEF d, s
<1>11. (c + HighBit) \div Radix = H + d
  <2>1. Radix * (H + d) = Radix * H + Radix * d /\ Radix * H \in Nat /\ Radix * d \in Nat
    BY <1>1, <1>9
  <2>2. Radix * (H + d) + s = c + HighBit
    BY <1>1, <1>9, <2>1
  <2>3. H + d \in Nat /\ s \in 0 .. Radix - 1
    BY <1>1, <1>9
  <2>4. (Radix * (H + d) + s) \div Radix = H + d
    BY <1>1, <2>3, DividedParts
  <2>5. QED
    BY Zenon, <2>2, <2>4
<1>12. Bit(H + d, H) = 1
  <2>1. H \in Nat \ {0} /\ d \in 0 .. H - 1 /\ H * 1 + d = H + d
    BY <1>1, <1>9, <1>10
  <2>2. (H * 1 + d) \div H = 1
    BY <2>1, DividedParts
  <2>3. QED
    BY <2>1, <2>2 DEF Bit
<1>13. H + d \in Nat
  BY <1>1, <1>9
<1>14. Bit((c + HighBit) \div Radix, H) = 1 /\ (c + HighBit) \div Radix \in Nat
  BY Zenon, <1>11, <1>12, <1>13
<1>15. Bit((c + 1) % Radix, 1) = 1 /\ (c + 1) % Radix \in Nat
  BY Zenon, <1>2, <1>7 DEF r
<1>16. Bit((c + HighBit) \div Radix, Radix \div 2) = 1
  BY Zenon, <1>14 DEF H
<1>17. QED
  BY Zenon, <1>6, <1>8, <1>14, <1>15, <1>16

(* Strings of libc++ in a little endian debuggee, in either layout *)
LEMMA LibcxxAgrees ==
  ASSUME NEW m \in IntactLibcxx, Len(m.contents) <= MaxText
  PROVE  Agrees("libcxx_string", m)
<1> DEFINE k == "libcxx_string"
           H == Radix \div 2
           Caps == {c \in 2 .. MaxLen + 2 : c % 2 = 0}
           Seen(low, word) == IF low THEN word % Radix ELSE word \div Radix
           Long(low, c) == IF low THEN c + 1 ELSE c + HighBit
           MadeShort(low, n, alt, little) ==
              Plain([byte |-> IF low THEN 2 * n ELSE n,
                     cap |-> IF low THEN 2 * n ELSE n * Radix, size |-> 0, data |-> Local,
                     alternate |-> alt, little |-> little],
                    Run(Local, n, 1), ShortRoom)
           MadeLong(low, b, n, c, alt, little) ==
              Plain([byte |-> Seen(low, Long(low, c)), cap |-> Long(low, c), size |-> n, data |-> b,
                     alternate |-> alt, little |-> little],
                    Run(b, n, 1), c - 1)
           Shorts(alt, little) ==
              {MadeShort(FlagIsLow(alt, little), n, alt, little) : n \in 0 .. ShortRoom}
           Longs(alt, little) ==
              {MadeLong(FlagIsLow(alt, little), b, p[1], p[2], alt, little) :
                  b \in Bases, p \in {p \in Fits(Caps) : p[1] < p[2]}}
<1>0. IntactLibcxx = UNION {Shorts(alt, little) \cup Longs(alt, little) :
                              alt \in BOOLEAN, little \in BOOLEAN}
  BY DEF IntactLibcxx
<1>1. PICK alt \in BOOLEAN, little \in BOOLEAN : m \in Shorts(alt, little) \/ m \in Longs(alt, little)
  <2> HIDE DEF Shorts, Longs
  <2>1. QED
    BY <1>0
<1> DEFINE low == FlagIsLow(alt, little)
<1>2. little => (low <=> ~alt)
  BY DEF FlagIsLow
<1>3. low \in BOOLEAN
  BY DEF FlagIsLow
<1>4. CASE m \in Shorts(alt, little)
  <2> HIDE DEF low, MadeShort
  <2>1. PICK n \in 0 .. ShortRoom : m = MadeShort(low, n, alt, little)
    BY <1>4 DEF low
  <2>2. n \in Nat /\ n <= ShortRoom /\ ShortRoom \in Nat /\ 2 * n \in Nat
    BY HalfRadix
  <2>3. /\ m.rep.byte = (IF low THEN 2 * n ELSE n) /\ m.rep.size = 0
        /\ m.rep.data = Local /\ m.rep.alternate = alt /\ m.rep.little = little
        /\ {"byte", "size"} \subseteq DOMAIN m.rep
        /\ m.contents = Run(Local, n, 1) /\ m.room = ShortRoom
    BY <2>1 DEF Plain, MadeShort
  <2>4. Local \in Nat /\ Local > 0
    BY DEF Local
  <2>5. Len(m.contents) = n /\ m.contents \in Seq(Nat)
    BY <2>2, <2>3, <2>4, UnitRun
  <2>6. Local + n <= Unreadable
    BY <2>2, <2>5, ConstantTypes DEF Local
  <2>7. FieldsOK(k, m.rep)
    <3>1. m.rep.byte \in Nat /\ m.rep.size \in Nat
      BY <1>3, <2>2, <2>3
    <3>2. QED
      BY <2>3, <3>1 DEF FieldsOK, SizeFields
  <2>8. CASE ~little
    <3>1. Slips(k, m.rep)
      BY <2>3, <2>8 DEF Slips
    <3>2. QED
      BY <2>2, <2>3, <2>5, <2>7, <3>1 DEF Agrees
  <2>9. CASE little
    <3>1. IsSmall(m.rep) /\ LibcxxStringSize(m.rep) = n
      <4>1. CASE alt
        <5>1. m.rep.byte = n /\ m.rep.alternate
          BY Zenon, <1>2, <2>3, <2>9, <4>1
        <5>2. IsSmall(m.rep)
          BY Zenon, <2>2, <5>1, ShortFlag DEF IsSmall
        <5>3. QED
          BY Zenon, <5>1, <5>2 DEF LibcxxStringSize
      <4>2. CASE ~alt
        <5>1. m.rep.byte = 2 * n /\ ~m.rep.alternate
          BY Zenon, <1>2, <2>3, <2>9, <4>2
        <5>2. Bit(2 * n, 1) = 0 /\ (2 * n) \div 2 = n
          BY <2>2, ShortFlag
        <5>3. IsSmall(m.rep)
          BY Zenon, <5>1, <5>2 DEF IsSmall
        <5>4. QED
          BY Zenon, <5>1, <5>2, <5>3 DEF LibcxxStringSize
      <4>3. QED
        BY <4>1, <4>2
    <3>2. SizeOf(k, m.rep) = n
      BY <3>1 DEF SizeOf
    <3>3. CapacityOf(k, m.rep) = m.room
      <4>1. CapacityOf(k, m.rep) = LibcxxStringCapacity(m.rep)
        BY DEF CapacityOf
      <4>2. QED
        BY Zenon, <2>3, <3>1, <4>1 DEF LibcxxStringCapacity
    <3>4. \A i \in 0 .. n - 1 : ElementAt(k, m.rep, i) = Local + i
      <4> TAKE i \in 0 .. n - 1
      <4>1. ElementAt(k, m.rep, i) = LibcxxStringElement(m.rep, i)
        BY DEF ElementAt
      <4>2. QED
        BY Zenon, <3>1, <4>1 DEF LibcxxStringElement
    <3>5. k # "stdcpp_deque" /\ k # "zstring" /\ m.room \in Nat /\ HasCapacity(k)
      BY <2>2, <2>3 DEF HasCapacity
    <3> HIDE DEF k
    <3>6. Agrees(k, m)
      BY <2>2, <2>3, <2>4, <2>6, <2>7, <3>2, <3>3, <3>4, <3>5, RunAgrees
    <3>7. QED
      BY <3>6 DEF k
  <2>10. QED
    BY <2>8, <2>9
<1>5. CASE m \in Longs(alt, little)
  <2> HIDE DEF low, MadeLong
  <2>1. PICK b \in Bases, p \in {p \in Fits(Caps) : p[1] < p[2]} :
           m = MadeLong(low, b, p[1], p[2], alt, little)
    BY <1>5 DEF low
  <2> DEFINE n == p[1]
             c == p[2]
  <2>2. n \in 0 .. MaxLen /\ c \in Caps /\ n < c
    BY DEF Fits
  <2> HIDE DEF n, c
  <2>3. /\ n \in Nat /\ n <= MaxLen /\ c \in Nat /\ c <= MaxLen + 2 /\ c % 2 = 0 /\ c >= 2
        /\ c - 1 \in Nat
    BY <2>2, ConstantTypes
  <2>4. m = MadeLong(low, b, n, c, alt, little)
    BY <2>1 DEF n, c
  <2> DEFINE w == Long(low, c)
             y == Seen(low, w)
  <2>5. /\ w = (IF low THEN c + 1 ELSE c + HighBit)
        /\ y = (IF low THEN w % Radix ELSE w \div Radix)
    OBVIOUS
  <2>6. m = Plain([byte |-> y, cap |-> w, size |-> n, data |-> b,
                   alternate |-> alt, little |-> little], Run(b, n, 1), c - 1)
    BY <2>4 DEF MadeLong
  <2> HIDE DEF w, y
  <2>7. /\ m.rep.byte = y /\ m.rep.size = n /\ m.rep.cap = w
        /\ m.rep.data = b /\ m.rep.alternate = alt /\ m.rep.little = little
        /\ {"byte", "size"} \subseteq DOMAIN m.rep
        /\ m.contents = Run(b, n, 1) /\ m.room = c - 1
    BY <2>6 DEF Plain
  <2>8. b \in Nat /\ b > 0 /\ b # Local /\ b + n <= Unreadable
    BY <2>3, BaseTypes, ConstantTypes DEF Local
  <2>9. Len(m.contents) = n /\ m.contents \in Seq(Nat)
    BY <2>3, <2>7, <2>8, UnitRun
  <2>10. /\ Bit((c + 1) % Radix, 1) = 1 /\ (c + 1) % Radix \in Nat
         /\ Bit(c + 1, 1) = 1
         /\ Bit((c + HighBit) \div Radix, H) = 1 /\ (c + HighBit) \div Radix \in Nat
         /\ Bit(c + HighBit, HighBit) = 1
    BY <2>3, LongFlag
  <2>11. y \in Nat
    BY Zenon, <1>3, <2>5, <2>10
  <2>12. FieldsOK(k, m.rep)
    BY <2>3, <2>7, <2>11 DEF FieldsOK, SizeFields
  <2>13. CASE ~little
    <3>1. Slips(k, m.rep)
      BY <2>7, <2>13 DEF Slips
    <3>2. QED
      BY <2>3, <2>7, <2>9, <2>12, <3>1 DEF Agrees
  <2>14. CASE little
    <3>0. 1 # 0
      OBVIOUS
    <3>1. ~IsSmall(m.rep)
      <4>1. CASE alt
        BY Zenon, <1>2, <2>5, <2>7, <2>10, <2>14, <3>0, <4>1 DEF IsSmall
      <4>2. CASE ~alt
        BY Zenon, <1>2, <2>5, <2>7, <2>10, <2>14, <3>0, <4>2 DEF IsSmall
      <4>3. QED
        BY <4>1, <4>2
    <3>2. SizeOf(k, m.rep) = n
      BY <2>7, <3>1 DEF SizeOf, LibcxxStringSize
    <3>3. CapacityOf(k, m.rep) = c
      <4>1. CapacityOf(k, m.rep) = LibcxxStringCapacity(m.rep)
        BY DEF CapacityOf
      <4> DEFINE mask == IF m.rep.alternate THEN HighBit ELSE 1
      <4>2. LibcxxStringCapacity(m.rep) = w - Bit(w, mask) * mask
        BY Zenon, <2>7, <3>1 DEF LibcxxStringCapacity
      <4>3. CASE alt
        <5>1. mask = HighBit /\ w = c + HighBit /\ Bit(w, HighBit) = 1
          BY Zenon, <1>2, <2>5, <2>7, <2>10, <2>14, <4>3
        <5> HIDE DEF mask
        <5>2. LibcxxStringCapacity(m.rep) = w - 1 * HighBit
          BY Zenon, <4>2, <5>1
        <5>3. (c + HighBit) - 1 * HighBit = c
          BY <2>3, HalfRadix
        <5>4. QED
          BY <4>1, <5>1, <5>2, <5>3
      <4>4. CASE ~alt
        <5>1. mask = 1 /\ w = c + 1 /\ Bit(w, 1) = 1
          BY Zenon, <1>2, <2>5, <2>7, <2>10, <2>14, <4>4
        <5> HIDE DEF mask
        <5>2. LibcxxStringCapacity(m.rep) = w - 1 * 1
          BY Zenon, <4>2, <5>1
        <5>3. (c + 1) - 1 * 1 = c
          BY <2>3
        <5>4. QED
          BY <4>1, <5>1, <5>2, <5>3
      <4>5. QED
        BY <4>3, <4>4
    <3>4. m.room + 1 = c /\ m.room \in Nat
      BY <2>3, <2>7
    <3>5. \A i \in 0 .. n - 1 : ElementAt(k, m.rep, i) = b + i
      <4> TAKE i \in 0 .. n - 1
      <4>1. ElementAt(k, m.rep, i) = LibcxxStringElement(m.rep, i)
        BY DEF ElementAt
      <4>2. QED
        BY Zenon, <2>7, <3>1, <4>1 DEF LibcxxStringElement
    <3>6. k # "stdcpp_deque" /\ k # "zstring" /\ m.rep.data # Local /\ HasCapacity(k)
      BY <2>7, <2>8 DEF HasCapacity
    <3>7. k = "libcxx_string" /\ m.rep.data # Local /\ CapacityOf(k, m.rep) = m.room + 1
      BY <3>3, <3>4, <3>6
    <3> HIDE DEF k
    <3>8. Agrees(k, m)
      BY <2>3, <2>7, <2>8, <2>12, <3>2, <3>4, <3>5, <3>6, <3>7, RunAgrees
    <3>9. QED
      BY <3>8 DEF k
  <2>15. QED
    BY <2>13, <2>14
<1> HIDE DEF Shorts, Longs
<1>6. QED
  BY Zenon, <1>1, <1>4, <1>5

(* The figures of deques' blocks *)
LEMMA BlockTypes ==
  ASSUME NEW es \in ElementSizes
  PROVE  /\ es \in Nat \ {0}
         /\ BlockLength(es) \in Nat \ {0} /\ BlockLength(es) < Spacing
         /\ es < BufSize => /\ NodeLength(es) \in Nat \ {0} /\ NodeLength(es) < Spacing
                            /\ NodeSize(es) = NodeLength(es)
         /\ NodeLength(es) \in Nat \ {0} /\ NodeLength(es) <= BufSize
<1>1. es \in Nat \ {0}
  BY LimitsAssumption
<1>2. /\ BlockSizes[1] \in Nat \ {0} /\ BlockSizes[2] \in Nat \ {0} /\ BlockSizes[3] \in Nat \ {0}
      /\ BlockSizes[1] <= BlockSizes[2] /\ BlockSizes[2] < Spacing /\ BlockSizes[3] < Spacing
  <2>1. BlockSizes \in Seq(Nat \ {0}) /\ Len(BlockSizes) = 3
    BY LimitsAssumption
  <2>2. BlockSizes[1] \in Nat \ {0} /\ BlockSizes[2] \in Nat \ {0} /\ BlockSizes[3] \in Nat \ {0}
    <3>1. 1 \in 1 .. Len(BlockSizes) /\ 2 \in 1 .. Len(BlockSizes) /\ 3 \in 1 .. Len(BlockSizes)
      BY <2>1
    <3>2. \A i \in 1 .. Len(BlockSizes) : BlockSizes[i] \in Nat \ {0}
      BY <2>1, ElementOfSeq
    <3>3. QED
      BY Zenon, <3>1, <3>2
  <2>3. QED
    BY <2>2, LimitsAssumption, LayoutAssumption
<1>3. ASSUME NEW a \in Nat, a >= es
      PROVE  a \div es \in Nat \ {0} /\ a \div es <= a
  <2> DEFINE d == a \div es
             r == a % es
  <2>1. d \in Nat /\ r \in Nat /\ r < es /\ a = es * d + r
    BY <1>1, Divided
  <2> HIDE DEF d, r
  <2>2. d # 0
    <3> SUFFICES ASSUME d = 0 PROVE FALSE
      OBVIOUS
    <3>1. es * d = 0
      BY <1>1
    <3>2. QED
      BY <1>1, <1>3, <2>1, <3>1
  <2>3. d <= a
    <3>1. (es - 1) * d \in Nat
      <4>1. es - 1 \in Nat
        BY <1>1
      <4>2. QED
        BY <2>1, <4>1
    <3>2. (es - 1) * d = es * d - d
      BY <1>1, <2>1
    <3>3. es * d \in Nat
      BY <1>1, <2>1
    <3>4. QED
      BY <2>1, <3>1, <3>2, <3>3
  <2>4. QED
    BY <2>1, <2>2, <2>3 DEF d
<1>4. BlockLength(es) \in Nat \ {0} /\ BlockLength(es) < Spacing
  <2>1. CASE es < BlockSizes[1]
    <3>1. BlockLength(es) = BlockSizes[2] \div es
      BY <2>1 DEF BlockLength
    <3>2. BlockSizes[2] \in Nat /\ BlockSizes[2] >= es
      BY <1>1, <1>2, <2>1
    <3> DEFINE d == BlockSizes[2] \div es
    <3>3. d \in Nat \ {0} /\ d <= BlockSizes[2]
      BY <1>3, <3>2
    <3> HIDE DEF d
    <3>4. d < Spacing
      BY <1>2, <3>3, ConstantTypes
    <3>5. QED
      BY <3>1, <3>3, <3>4 DEF d
  <2>2. CASE ~(es < BlockSizes[1])
    BY <1>2, <2>2 DEF BlockLength
  <2>3. QED
    BY <2>1, <2>2
<1>5. NodeLength(es) \in Nat \ {0} /\ NodeLength(es) <= BufSize
  <2>1. CASE es < BufSize
    <3>1. NodeLength(es) = BufSize \div es
      BY <2>1 DEF NodeLength
    <3>2. BufSize \in Nat /\ BufSize >= es
      BY <1>1, <2>1, ConstantTypes
    <3>3. BufSize \div es \in Nat \ {0} /\ BufSize \div es <= BufSize
      BY <1>3, <3>2
    <3>4. QED
      BY Zenon, <3>1, <3>3
  <2>2. CASE ~(es < BufSize)
    BY <2>2, ConstantTypes DEF NodeLength
  <2>3. QED
    BY <2>1, <2>2
<1>6. ASSUME es < BufSize
      PROVE  /\ NodeLength(es) \in Nat \ {0} /\ NodeLength(es) < Spacing
             /\ NodeSize(es) = NodeLength(es)
  <2>1. NodeSize(es) = NodeLength(es)
    BY <1>6 DEF NodeLength, NodeSize
  <2>2. QED
    BY <1>5, <2>1, ConstantTypes
<1>7. QED
  BY <1>1, <1>4, <1>5, <1>6

(* Parts that are apart by Spacing, the last one first *)
LEMMA PartRange ==
  ASSUME NEW j \in 0 .. MapSize - 1, NEW r \in 0 .. Spacing - 1
  PROVE  /\ Spacing * (MapSize - j) \in Nat
         /\ Spacing * (MapSize - j) + r \in 1 .. Unreadable - 1
<1> DEFINE x == MapSize - j
<1>1. x \in Nat /\ x >= 1 /\ x <= MapSize
  BY ConstantTypes
<1> HIDE DEF x
<1>2. Spacing * x \in Nat
  BY <1>1, ConstantTypes
<1>3. Spacing * (x - 1) \in Nat /\ Spacing * (x - 1) = Spacing * x - Spacing
  <2>1. x - 1 \in Nat
    BY <1>1
  <2>2. QED
    BY <1>1, <2>1, ConstantTypes
<1>4. Spacing * (MapSize - x) \in Nat /\ Spacing * (MapSize - x) = Spacing * MapSize - Spacing * x
  <2>1. MapSize - x \in Nat
    BY <1>1, ConstantTypes
  <2>2. QED
    BY <1>1, <2>1, ConstantTypes
<1>5. Spacing * (MapSize + 1) = Spacing * MapSize + Spacing /\ Spacing * (MapSize + 1) < Unreadable
  BY ConstantTypes, LayoutAssumption
<1>6. Spacing * MapSize \in Nat
  BY ConstantTypes
<1>7. Spacing * x + r \in 1 .. Unreadable - 1
  BY <1>2, <1>3, <1>4, <1>5, <1>6, ConstantTypes
<1>8. QED
  BY <1>2, <1>7 DEF x

(* Deques of libc++ *)
LEMMA BlocksAgree ==
  ASSUME NEW m \in IntactBlocks
  PROVE  Agrees("libcxx_deque", m)
<1> DEFINE k == "libcxx_deque"
           At(len, j) == Spacing * (MapSize - j \div len) + (j % len)
           map == [i \in 1 .. MapSize |-> Spacing * (MapSize + 1 - i)]
           Made(f, n, es) ==
              Plain([map |-> map, first |-> f, size |-> n, es |-> es],
                    [i \in 1 .. n |-> At(BlockLength(es), f + i - 1)], 0)
           Those(f, n, es) ==
              {Made(f, n, es) : x \in {x \in {0} : f + n <= MapSize * BlockLength(es)}}
<1>0. IntactBlocks = UNION {Those(f, n, es) : es \in ElementSizes, f \in 0 .. 3, n \in 0 .. MaxLen}
  BY DEF IntactBlocks
<1>1. PICK es \in ElementSizes, f \in 0 .. 3, n \in 0 .. MaxLen : m \in Those(f, n, es)
  <2> HIDE DEF Those
  <2>1. QED
    BY <1>0
<1> DEFINE len == BlockLength(es)
<1>2. m = Made(f, n, es) /\ f + n <= MapSize * len
  <2> HIDE DEF Made
  <2>1. QED
    BY <1>1
<1> DEFINE s == [i \in 1 .. n |-> At(len, f + i - 1)]
<1>3. m = Plain([map |-> map, first |-> f, size |-> n, es |-> es], s, 0)
  BY <1>2
<1> HIDE DEF s, map, len
<1>4. /\ m.rep.map = map /\ m.rep.first = f /\ m.rep.size = n /\ m.rep.es = es
      /\ "size" \in DOMAIN m.rep /\ m.contents = s /\ m.room = 0
  BY <1>3 DEF Plain
<1>5. /\ len \in Nat \ {0} /\ len < Spacing /\ n \in Nat /\ f \in Nat /\ MapSize \in Nat \ {0}
      /\ f + n <= MapSize * len /\ MapSize * len = len * MapSize /\ len * MapSize \in Nat
  <2>1. len \in Nat \ {0} /\ len < Spacing
    BY BlockTypes DEF len
  <2>2. QED
    BY <1>2, <2>1, ConstantTypes
<1>6. ASSUME NEW j \in Nat, j < f + n
      PROVE  /\ j \div len \in 0 .. MapSize - 1 /\ j % len \in 0 .. Spacing - 1
             /\ At(len, j) \in 1 .. Unreadable - 1
  <2> DEFINE d == j \div len
             r == j % len
  <2>1. d \in Nat /\ r \in Nat /\ r < len
    BY <1>5, Divided
  <2>2. d < MapSize
    <3>1. j < len * MapSize
      BY <1>5, <1>6
    <3>2. QED
      BY <1>5, <3>1, DividedBelow
  <2> HIDE DEF d, r
  <2>3. d \in 0 .. MapSize - 1 /\ r \in 0 .. Spacing - 1
    BY <1>5, <2>1, <2>2, ConstantTypes
  <2>4. Spacing * (MapSize - d) + r \in 1 .. Unreadable - 1
    BY <2>3, PartRange
  <2>5. QED
    BY <2>3, <2>4 DEF d, r
<1> HIDE DEF At
<1>7. s \in Seq(Nat) /\ Len(s) = n /\ \A i \in 0 .. n - 1 : s[i + 1] = At(len, f + i)
  <2>1. \A i \in 1 .. n : At(len, f + i - 1) \in Nat
    <3> TAKE i \in 1 .. n
    <3>1. f + i - 1 \in Nat /\ f + i - 1 < f + n
      BY <1>5
    <3>2. At(len, f + i - 1) \in 1 .. Unreadable - 1
      BY <1>6, <3>1
    <3>3. QED
      BY <3>2, ConstantTypes
  <2>2. s \in Seq(Nat) /\ Len(s) = n /\ \A i \in 1 .. n : s[i] = At(len, f + i - 1)
    BY <1>5, <2>1 DEF s
  <2>3. ASSUME NEW i \in 0 .. n - 1
        PROVE  s[i + 1] = At(len, f + i)
    <3>1. i + 1 \in 1 .. n /\ f + (i + 1) - 1 = f + i
      BY <1>5
    <3>2. QED
      BY <2>2, <3>1
  <2>4. QED
    BY <2>2, <2>3
<1>8. FieldsOK(k, m.rep)
  BY <1>4, <1>5 DEF FieldsOK, SizeFields
<1>9. SizeOf(k, m.rep) = n
  BY <1>4 DEF SizeOf
<1>10. ASSUME NEW i \in 0 .. n - 1
       PROVE  ElementAt(k, m.rep, i) = m.contents[i + 1] /\ CanRead(k, m.contents[i + 1])
  <2> DEFINE j == f + i
             d == j \div len
             r == j % len
  <2>1. j \in Nat /\ j < f + n /\ i + f = j
    BY <1>5
  <2>2. d \in 0 .. MapSize - 1 /\ At(len, j) \in 1 .. Unreadable - 1
    BY <1>6, <2>1
  <2>3. m.contents[i + 1] = At(len, j)
    BY <1>4, <1>7
  <2>4. ElementAt(k, m.rep, i) = BlockElement(m.rep, i)
    BY DEF ElementAt
  <2>5. d + 1 \in 1 .. MapSize /\ MapSize + 1 - (d + 1) = MapSize - d
    BY <2>2, ConstantTypes
  <2>6. DOMAIN map = 1 .. MapSize /\ map[d + 1] = Spacing * (MapSize + 1 - (d + 1))
    BY <2>5 DEF map
  <2> HIDE DEF j
  <2>7. BlockElement(m.rep, i) =
            IF d + 1 \in DOMAIN map THEN map[d + 1] + r ELSE Err
    BY <1>4, <2>1 DEF BlockElement, len
  <2>8. map[d + 1] = Spacing * (MapSize - d)
    BY Zenon, <2>5, <2>6
  <2>9. At(len, j) = Spacing * (MapSize - d) + r
    BY DEF At
  <2>10. ElementAt(k, m.rep, i) = At(len, j)
    BY Zenon, <2>4, <2>5, <2>6, <2>7, <2>8, <2>9
  <2> HIDE DEF d, r
  <2>11. CanRead(k, At(len, j))
    BY <2>2, ConstantTypes DEF CanRead, Err
  <2>12. QED
    BY Zenon, <2>3, <2>10, <2>11
<1>11. Found(k, m)
  <2>1. ~HasCapacity(k) /\ k # "stdcpp_deque" /\ ~IsText(k)
    BY DEF HasCapacity, IsText, Strings
  <2>2. Len(m.contents) = n
    BY <1>4, <1>7
  <2>3. QED
    BY <1>4, <1>9, <1>10, <2>1, <2>2 DEF Found
<1>12. QED
  BY <1>4, <1>7, <1>8, <1>11 DEF Agrees

(* Any row of cursors that follows the loop's steps is the loop's *)
LEMMA CursorsAre ==
  ASSUME NEW r, NEW N \in Nat, NEW a,
         a = [k \in 0 .. N |->
                IF k = 0 THEN [cur |-> r.cur, node |-> r.node, last |-> r.last]
                ELSE IF a[k - 1].cur \in {Err, r.finish} THEN a[k - 1]
                ELSE Moved(r, a[k - 1])]
  PROVE  Cursors(r, N) = a
<1> DEFINE G(c, k) == IF k = 0 THEN [cur |-> r.cur, node |-> r.node, last |-> r.last]
                      ELSE IF c[k - 1].cur \in {Err, r.finish} THEN c[k - 1]
                      ELSE Moved(r, c[k - 1])
           cs == CHOOSE c : c = [k \in 0 .. N |-> G(c, k)]
<1>1. Cursors(r, N) = cs
  BY DEF Cursors
<1>2. a = [k \in 0 .. N |-> G(a, k)]
  OBVIOUS
<1>3. cs = [k \in 0 .. N |-> G(cs, k)]
  <2>1. \E c : c = [k \in 0 .. N |-> G(c, k)]
    BY <1>2
  <2>2. QED
    BY <2>1, Zenon
<1> HIDE DEF cs
<1>4. DOMAIN cs = 0 .. N /\ \A k \in 0 .. N : cs[k] = G(cs, k)
  BY <1>3
<1>5. DOMAIN a = 0 .. N /\ \A k \in 0 .. N : a[k] = G(a, k)
  BY <1>2
<1>6. \A k \in 0 .. N : cs[k] = a[k]
  <2> DEFINE T == {k \in 0 .. N : cs[k] # a[k]}
  <2> SUFFICES ASSUME T # {} PROVE FALSE
    OBVIOUS
  <2>1. PICK k \in T : \A j \in T : k <= j
    <3>1. T \in SUBSET Nat
      OBVIOUS
    <3> HIDE DEF T
    <3>2. QED
      BY <3>1, Smallest
  <2>2. k \in 0 .. N /\ cs[k] # a[k] /\ cs[k] = G(cs, k) /\ a[k] = G(a, k)
    BY <1>4, <1>5, <2>1
  <2>3. k # 0
    BY <2>2
  <2>4. k - 1 \in 0 .. N /\ ~(k <= k - 1)
    BY <2>2, <2>3
  <2>5. cs[k - 1] = a[k - 1]
    BY <2>1, <2>4
  <2>6. QED
    BY <2>2, <2>3, <2>5
<1>7. cs = [k \in 0 .. N |-> cs[k]] /\ a = [k \in 0 .. N |-> a[k]]
  BY <1>3, <1>2
<1>8. QED
  BY <1>1, <1>6, <1>7

(* Where a node of a libstdc++ deque begins, which node holds element k of *)
(* a deque that begins in node s at o, and where it is                     *)
NodeStart(i) == Spacing * (MapSize + 1 - i)
NodeNumber(s, o, len, k) == s + (o + k) \div len
Place(s, o, len, k) == NodeStart(NodeNumber(s, o, len, k)) + ((o + k) % len)

(* The nodes of a deque with n elements, and of the end, fit in its map *)
FitsInMap(s, o, len, n) ==
    /\ len \in Nat \ {0} /\ len < Spacing /\ s \in Nat \ {0} /\ o \in 0 .. len - 1 /\ n \in Nat
    /\ s + (o + n) \div len <= MapSize

(* Where the elements of such a deque are *)
LEMMA PlaceTypes ==
  ASSUME NEW len, NEW s, NEW o, NEW n, FitsInMap(s, o, len, n), NEW k \in 0 .. n
  PROVE  /\ (o + k) \div len \in Nat /\ (o + k) % len \in 0 .. len - 1
         /\ NodeNumber(s, o, len, k) \in s .. s + (o + n) \div len
         /\ NodeNumber(s, o, len, k) \in 1 .. MapSize
         /\ NodeStart(NodeNumber(s, o, len, k)) \in Nat
         /\ Place(s, o, len, k) \in 1 .. Unreadable - 1
<1>0. /\ len \in Nat \ {0} /\ len < Spacing /\ s \in Nat \ {0} /\ o \in 0 .. len - 1 /\ n \in Nat
      /\ s + (o + n) \div len <= MapSize
  BY DEF FitsInMap
<1> DEFINE d == (o + k) \div len
           r == (o + k) % len
           q == (o + n) \div len
           j == s + d
<1>1. d \in Nat /\ r \in Nat /\ r < len /\ q \in Nat
  BY <1>0, Divided
<1>2. d <= q
  <2>1. o + k \in Nat /\ o + n \in Nat /\ o + k <= o + n
    BY <1>0
  <2>2. QED
    BY Zenon, <1>0, <2>1, DividedOrder
<1>3. s + q <= MapSize
  BY <1>0
<1> HIDE DEF d, r, q
<1>4. j \in s .. s + q /\ j \in 1 .. MapSize /\ j - 1 \in 0 .. MapSize - 1 /\ r \in 0 .. Spacing - 1
      /\ MapSize - (j - 1) = MapSize + 1 - j
  BY <1>0, <1>1, <1>2, <1>3, ConstantTypes
<1>5. NodeNumber(s, o, len, k) = j
  BY DEF NodeNumber, d
<1> HIDE DEF j
<1>6. Spacing * (MapSize - (j - 1)) \in Nat /\ Spacing * (MapSize - (j - 1)) + r \in 1 .. Unreadable - 1
  BY <1>0, <1>4, PartRange
<1>7. NodeStart(j) = Spacing * (MapSize - (j - 1))
  BY Zenon, <1>4 DEF NodeStart
<1>8. Place(s, o, len, k) = NodeStart(j) + r
  BY Zenon, <1>5 DEF Place, r
<1>9. NodeStart(j) \in Nat /\ NodeStart(j) + r \in 1 .. Unreadable - 1
  BY Zenon, <1>6, <1>7
<1>10. r \in 0 .. len - 1
  BY <1>0, <1>1
<1>11. d \in Nat /\ j \in s .. s + q /\ j \in 1 .. MapSize
  BY <1>0, <1>1, <1>4
<1>12. QED
  BY Zenon, <1>5, <1>8, <1>9, <1>10, <1>11 DEF d, r, q

(* Nodes do not overlap *)
LEMMA NodesApart ==
  ASSUME NEW i \in 1 .. MapSize, NEW j \in 1 .. MapSize,
         NEW u \in 0 .. Spacing - 1, NEW v \in 0 .. Spacing - 1,
         NodeStart(i) + u = NodeStart(j) + v
  PROVE  i = j /\ u = v
<1> DEFINE x == MapSize + 1 - i
           y == MapSize + 1 - j
<1>1. x \in Nat /\ y \in Nat /\ Spacing \in Nat \ {0}
  BY ConstantTypes
<1>2. Spacing * x + u = Spacing * y + v
  BY DEF NodeStart
<1>3. x = y => i = j
  BY ConstantTypes
<1> HIDE DEF x, y
<1>4. x = y /\ u = v
  BY <1>1, <1>2, DividedOnce
<1>5. QED
  BY <1>3, <1>4

(* The place where a deque's elements end holds none of them *)
LEMMA PlacesApart ==
  ASSUME NEW len, NEW s, NEW o, NEW n, FitsInMap(s, o, len, n), NEW k \in 0 .. n, k < n
  PROVE  Place(s, o, len, k) # Place(s, o, len, n)
<1>0. /\ len \in Nat \ {0} /\ len < Spacing /\ s \in Nat \ {0} /\ o \in 0 .. len - 1 /\ n \in Nat
      /\ s + (o + n) \div len <= MapSize
  BY DEF FitsInMap
<1> SUFFICES ASSUME Place(s, o, len, k) = Place(s, o, len, n) PROVE FALSE
  BY <1>0
<1> DEFINE d == (o + k) \div len
           r == (o + k) % len
           q == (o + n) \div len
           t == (o + n) % len
           i == NodeNumber(s, o, len, k)
           j == NodeNumber(s, o, len, n)
<1>1. n \in 0 .. n
  BY <1>0
<1>2. i \in 1 .. MapSize /\ j \in 1 .. MapSize /\ r \in 0 .. len - 1 /\ t \in 0 .. len - 1
      /\ d \in Nat /\ q \in Nat
  BY <1>0, <1>1, PlaceTypes
<1>3. NodeStart(i) + r = NodeStart(j) + t
  BY DEF Place
<1>4. i = s + d /\ j = s + q
  BY DEF NodeNumber
<1>5. o + k = len * d + r /\ o + n = len * q + t
  <2>1. o + k \in Nat /\ o + n \in Nat
    BY <1>0
  <2>2. QED
    BY <1>0, <2>1, Divided
<1> HIDE DEF d, r, q, t, i, j
<1>6. r \in 0 .. Spacing - 1 /\ t \in 0 .. Spacing - 1
  BY <1>0, <1>2, ConstantTypes
<1>7. i = j /\ r = t
  BY <1>0, <1>2, <1>3, <1>6, NodesApart
<1>8. d = q
  BY <1>0, <1>2, <1>4, <1>7
<1>9. o + k = o + n
  BY Zenon, <1>5, <1>7, <1>8
<1>10. QED
  BY <1>0, <1>9

(* One step of the loops over a deque, before its end *)
LEMMA CursorMoves ==
  ASSUME NEW r, NEW len, NEW s, NEW o, NEW n, FitsInMap(s, o, len, n), NEW k \in 0 .. n, k < n,
         NodeSize(r.es) = len, r.finish = Place(s, o, len, n),
         r.map = [i \in 1 .. MapSize |->
                    IF i \in s .. s + (o + n) \div len THEN NodeStart(i) ELSE 0]
  PROVE  Moved(r, [cur  |-> Place(s, o, len, k), node |-> NodeNumber(s, o, len, k),
                   last |-> NodeStart(NodeNumber(s, o, len, k)) + len])
         = [cur  |-> Place(s, o, len, k + 1), node |-> NodeNumber(s, o, len, k + 1),
            last |-> NodeStart(NodeNumber(s, o, len, k + 1)) + len]
<1>0. /\ len \in Nat \ {0} /\ len < Spacing /\ s \in Nat \ {0} /\ o \in 0 .. len - 1 /\ n \in Nat
      /\ s + (o + n) \div len <= MapSize
  BY DEF FitsInMap
<1> DEFINE d == (o + k) \div len
           e == (o + k) % len
           i == NodeNumber(s, o, len, k)
           j == NodeNumber(s, o, len, k + 1)
           f == NodeNumber(s, o, len, n)
           p == Place(s, o, len, k)
           c == [cur |-> p, node |-> i, last |-> NodeStart(i) + len]
<1>1. k + 1 \in 0 .. n /\ n \in 0 .. n /\ o + k \in Nat
  BY <1>0
<1>2. /\ d \in Nat /\ e \in 0 .. len - 1 /\ i \in 1 .. MapSize /\ NodeStart(i) \in Nat
      /\ j \in s .. s + (o + n) \div len /\ j \in 1 .. MapSize /\ NodeStart(j) \in Nat
      /\ f \in 1 .. MapSize /\ NodeStart(f) \in Nat /\ (o + n) % len \in 0 .. len - 1
  BY <1>0, <1>1, PlaceTypes
<1>3. p = NodeStart(i) + e /\ r.finish = NodeStart(f) + ((o + n) % len)
  BY DEF Place
<1>4. i = s + d /\ j = s + (o + (k + 1)) \div len
  BY DEF NodeNumber
<1>5. (o + k) + 1 = o + (k + 1)
  BY <1>0
<1>6. /\ e + 1 < len => (o + (k + 1)) \div len = d /\ (o + (k + 1)) % len = e + 1
      /\ e + 1 = len => (o + (k + 1)) \div len = d + 1 /\ (o + (k + 1)) % len = 0
  <2>1. /\ e + 1 < len => (o + k + 1) \div len = d /\ (o + k + 1) % len = e + 1
        /\ e + 1 = len => (o + k + 1) \div len = d + 1 /\ (o + k + 1) % len = 0
    BY <1>0, <1>1, DividedNext
  <2>2. o + k + 1 = o + (k + 1)
    BY <1>0, <1>5
  <2>3. QED
    BY Zenon, <2>1, <2>2
<1>7. Place(s, o, len, k + 1) = NodeStart(j) + ((o + (k + 1)) % len)
  BY DEF Place
<1>8. c.cur = p /\ c.node = i /\ c.last = NodeStart(i) + len
  BY <1>0
<1> DEFINE P == Place(s, o, len, k + 1)
           g == (o + n) % len
<1>9. CASE e + 1 < len
  <2>1. j = i /\ P = NodeStart(i) + (e + 1)
    BY Zenon, <1>4, <1>6, <1>7, <1>9
  <2> HIDE DEF d, e, i, j, f, p, P
  <2>0. len \in Nat
    BY <1>0
  <2>2. p + 1 = P /\ p + 1 # NodeStart(i) + len
    BY <2>0, <1>2, <1>3, <1>9, <2>1
  <2> HIDE DEF c
  <2>3. Moved(r, c) = [c EXCEPT !.cur = @ + 1]
    BY Zenon, <1>8, <2>2 DEF Moved
  <2>4. [c EXCEPT !.cur = @ + 1] = [cur |-> p + 1, node |-> i, last |-> NodeStart(i) + len]
    BY DEF c
  <2>5. Moved(r, c) = [cur |-> P, node |-> j, last |-> NodeStart(j) + len]
    BY Zenon, <2>1, <2>2, <2>3, <2>4
  <2>6. QED
    BY <1>0, <2>5 DEF c, i, j, p, P
<1>10. CASE e + 1 = len
  <2>1. j = s + (d + 1) /\ P = NodeStart(j) + 0
    BY Zenon, <1>4, <1>6, <1>7, <1>10
  <2>2. g \in 0 .. len - 1 /\ r.finish = NodeStart(f) + g
    BY <1>0, <1>2, <1>3
  <2>3. r.map[j] = NodeStart(j) /\ j \in DOMAIN r.map
    BY <1>0, <1>2
  <2> HIDE DEF d, e, i, j, f, p, P, g
  <2>4. j = i + 1 /\ P = NodeStart(j)
    BY <1>0, <1>2, <1>4, <2>1
  <2>0. len \in Nat /\ e \in Nat /\ NodeStart(i) \in Nat /\ p = NodeStart(i) + e
    BY <1>0, <1>2, <1>3
  <2>5. p + 1 = NodeStart(i) + len
    BY <2>0, <1>10
  <2>6. r.finish # p + 1
    <3> SUFFICES ASSUME r.finish = p + 1 PROVE FALSE
      BY <1>0
    <3>1. g \in 0 .. Spacing - 1 /\ len \in 0 .. Spacing - 1
      BY <1>0, <2>2, ConstantTypes
    <3>2. NodeStart(f) + g = NodeStart(i) + len
      BY <1>0, <2>2, <2>5
    <3>3. g = len
      BY <1>0, <1>2, <3>1, <3>2, NodesApart
    <3>4. QED
      BY <1>0, <2>2, <3>3
  <2> HIDE DEF c
  <2>7. Moved(r, c) = [cur |-> NodeStart(j), node |-> j, last |-> NodeStart(j) + len]
    <3>1. c.cur + 1 = c.last /\ c.cur + 1 # r.finish /\ c.node + 1 = j
      BY Zenon, <1>8, <2>4, <2>5, <2>6
    <3>2. Moved(r, c) = LET base == IF c.node + 1 \in DOMAIN r.map THEN r.map[c.node + 1] ELSE Err
                        IN  [cur |-> base, node |-> c.node + 1, last |-> base + NodeSize(r.es)]
      BY Zenon, <3>1 DEF Moved
    <3>3. QED
      BY Zenon, <2>3, <3>1, <3>2
  <2>8. Moved(r, c) = [cur |-> P, node |-> j, last |-> NodeStart(j) + len]
    BY Zenon, <2>4, <2>7
  <2>9. QED
    BY <1>0, <2>8 DEF c, i, j, p, P
<1>11. e + 1 < len \/ e + 1 = len
  <2> HIDE DEF e
  <2>1. QED
    BY <1>0, <1>2
<1>12. QED
  BY <1>0, <1>9, <1>10, <1>11

(* A deque with these places *)
Holds(r, s, o, len, n) ==
    /\ NodeSize(r.es) = len /\ r.finish = Place(s, o, len, n)
    /\ r.node = s /\ r.cur = Place(s, o, len, 0) /\ r.last = NodeStart(s) + len
    /\ r.map = [i \in 1 .. MapSize |->
                    IF i \in s .. s + (o + n) \div len THEN NodeStart(i) ELSE 0]

(* The loops visit every element, then stay at the end *)
LEMMA CursorsVisit ==
  ASSUME NEW r, NEW len, NEW s, NEW o, NEW n, FitsInMap(s, o, len, n),
         Holds(r, s, o, len, n), NEW N \in Nat, NEW k \in 0 .. N
  PROVE  /\ k < n => /\ Cursors(r, N)[k].cur = Place(s, o, len, k)
                     /\ Cursors(r, N)[k].cur # r.finish
         /\ k >= n => Cursors(r, N)[k].cur = r.finish
<1>0. /\ len \in Nat \ {0} /\ len < Spacing /\ s \in Nat \ {0} /\ o \in 0 .. len - 1 /\ n \in Nat
      /\ s + (o + n) \div len <= MapSize
  BY DEF FitsInMap
<1>a. /\ NodeSize(r.es) = len /\ r.finish = Place(s, o, len, n)
      /\ r.node = s /\ r.cur = Place(s, o, len, 0) /\ r.last = NodeStart(s) + len
      /\ r.map = [i \in 1 .. MapSize |->
                    IF i \in s .. s + (o + n) \div len THEN NodeStart(i) ELSE 0]
  BY DEF Holds
<1> DEFINE C(i) == [cur  |-> Place(s, o, len, i), node |-> NodeNumber(s, o, len, i),
                    last |-> NodeStart(NodeNumber(s, o, len, i)) + len]
           a == [i \in 0 .. N |-> IF i <= n THEN C(i) ELSE C(n)]
           start == [cur |-> r.cur, node |-> r.node, last |-> r.last]
           G(i) == IF i = 0 THEN start
                   ELSE IF a[i - 1].cur \in {Err, r.finish} THEN a[i - 1]
                   ELSE Moved(r, a[i - 1])
<1>1. C(0) = start
  <2>1. o \div len = 0 /\ o + 0 = o /\ s + 0 = s
    BY <1>0, Divided
  <2>2. NodeNumber(s, o, len, 0) = s
    BY Zenon, <2>1 DEF NodeNumber
  <2>3. QED
    BY Zenon, <1>a, <2>2
<1>2. \A i : C(i).cur = Place(s, o, len, i)
  BY <1>0
<1>3. ASSUME NEW i \in 0 .. n, i < n
      PROVE  C(i).cur \notin {Err, r.finish} /\ Moved(r, C(i)) = C(i + 1)
  <2>1. Place(s, o, len, i) \in 1 .. Unreadable - 1
    BY PlaceTypes
  <2>2. Place(s, o, len, i) # r.finish
    <3>1. Place(s, o, len, i) # Place(s, o, len, n)
      BY <1>3, PlacesApart
    <3>2. QED
      BY Zenon, <1>a, <3>1
  <2>3. Moved(r, C(i)) = C(i + 1)
    BY <1>3, <1>a, CursorMoves
  <2> HIDE DEF C
  <2>4. QED
    BY <1>0, <1>2, <2>1, <2>2, <2>3, ConstantTypes DEF Err
<1>4. C(n).cur = r.finish
  BY <1>a
<1> HIDE DEF C, start
<1>5. \A i \in 0 .. N : a[i] = IF i <= n THEN C(i) ELSE C(n)
  BY <1>0
<1>6. DOMAIN a = 0 .. N /\ a = [i \in 0 .. N |-> a[i]]
  BY <1>0
<1> HIDE DEF a
<1>7. ASSUME NEW i \in 0 .. N
      PROVE  a[i] = G(i)
  <2>1. CASE i = 0
    <3>1. 0 <= n /\ a[0] = IF 0 <= n THEN C(0) ELSE C(n)
      BY <1>0, <1>5, <2>1
    <3>2. QED
      BY Zenon, <1>1, <2>1, <3>1
  <2>2. CASE i # 0
    <3>1. i - 1 \in 0 .. N /\ i - 1 + 1 = i /\ i - 1 >= 0
      BY <1>0, <2>2
    <3>2. CASE i <= n
      <4>1. i - 1 <= n /\ i - 1 < n /\ i - 1 \in 0 .. n
        BY <1>0, <3>1, <3>2
      <4>2. a[i] = C(i) /\ a[i - 1] = C(i - 1)
        BY <1>0, <1>5, <3>1, <3>2, <4>1
      <4>3. C(i - 1).cur \notin {Err, r.finish} /\ Moved(r, C(i - 1)) = C(i - 1 + 1)
        BY <1>0, <1>3, <4>1
      <4>4. QED
        BY Zenon, <2>2, <3>1, <4>2, <4>3
    <3>3. CASE ~(i <= n)
      <4>1. a[i] = C(n)
        BY <1>0, <1>5, <3>3
      <4>2. a[i - 1] = C(n)
        <5>1. CASE i - 1 <= n
          <6>1. i - 1 = n
            BY <1>0, <3>1, <3>3, <5>1
          <6>2. QED
            BY <1>0, <1>5, <3>1, <5>1, <6>1
        <5>2. CASE ~(i - 1 <= n)
          BY <1>0, <1>5, <3>1, <5>2
        <5>3. QED
          BY <1>0, <5>1, <5>2
      <4>3. QED
        BY Zenon, <1>4, <2>2, <4>1, <4>2
    <3>4. QED
      BY <1>0, <3>2, <3>3
  <2>3. QED
    BY <1>0, <2>1, <2>2
<1>8. a = [i \in 0 .. N |-> G(i)]
  <2> HIDE DEF G
  <2>1. QED
    BY <1>0, <1>6, <1>7
<1>9. Cursors(r, N) = a
  BY <1>8, CursorsAre DEF start
<1>10. CASE k < n
  <2>1. k <= n /\ k \in 0 .. n /\ ~(k >= n)
    BY <1>0, <1>10
  <2>2. a[k] = C(k)
    BY <1>0, <1>5, <2>1
  <2>3. C(k).cur \notin {Err, r.finish} /\ C(k).cur = Place(s, o, len, k)
    BY <1>0, <1>2, <1>3, <1>10, <2>1
  <2>4. QED
    BY <1>0, <1>9, <2>1, <2>2, <2>3
<1>11. CASE ~(k < n)
  <2>1. a[k] = C(n)
    <3>1. CASE k <= n
      <4>1. k = n
        BY <1>0, <1>11, <3>1
      <4>2. QED
        BY <1>0, <1>5, <3>1, <4>1
    <3>2. CASE ~(k <= n)
      BY <1>0, <1>5, <3>2
    <3>3. QED
      BY <1>0, <3>1, <3>2
  <2>2. QED
    BY <1>0, <1>4, <1>9, <1>11, <2>1
<1>12. QED
  BY <1>0, <1>10, <1>11

(* Deques of libstdc++, whose elements are smaller than a node *)
LEMMA DequeAgrees ==
  ASSUME NEW m \in IntactDeque
  PROVE  Agrees("stdcpp_deque", m)
<1> DEFINE k == "stdcpp_deque"
           Node(i) == Spacing * (MapSize + 1 - i)
           At(len, s, o, j) == Node(s + (o + j) \div len) + ((o + j) % len)
           Last(len, s, o, n) == s + (o + n) \div len
           Made(len, es, s, o, n) ==
              Plain([map |-> [i \in 1 .. MapSize |-> IF i \in s .. Last(len, s, o, n) THEN Node(i) ELSE 0],
                     node |-> s, cur |-> At(len, s, o, 0), last |-> Node(s) + len,
                     finish |-> At(len, s, o, n), es |-> es],
                    [i \in 1 .. n |-> At(len, s, o, i - 1)], 0)
           Those(es, s, o, n) ==
              {Made(NodeLength(es), es, s, o, n) :
                  x \in {x \in {0} : o < NodeLength(es) /\ Last(NodeLength(es), s, o, n) <= MapSize}}
<1>0. IntactDeque = UNION {Those(es, s, o, n) :
                              es \in ElementSizes, s \in 1 .. 2, o \in 0 .. BufSize - 1, n \in 0 .. MaxLen}
  BY DEF IntactDeque
<1>1. PICK es \in ElementSizes, s \in 1 .. 2, o \in 0 .. BufSize - 1, n \in 0 .. MaxLen :
         m \in Those(es, s, o, n)
  <2> HIDE DEF Those
  <2>1. QED
    BY <1>0
<1> DEFINE len == NodeLength(es)
<1>2. m = Made(len, es, s, o, n) /\ o < len /\ Last(len, s, o, n) <= MapSize
  <2> HIDE DEF Made, Last
  <2>1. QED
    BY <1>1
<1>3. len \in Nat \ {0} /\ len <= BufSize /\ es \in Nat \ {0}
  BY BlockTypes
<1> HIDE DEF len
<1>4. FitsInMap(s, o, len, n) /\ n \in Nat
  <2>1. s \in Nat \ {0} /\ o \in 0 .. len - 1 /\ n \in Nat /\ len < Spacing
    BY <1>2, <1>3, ConstantTypes
  <2>2. s + (o + n) \div len <= MapSize
    BY <1>2
  <2>3. QED
    BY <1>3, <2>1, <2>2 DEF FitsInMap
<1> DEFINE P(j) == Place(s, o, len, j)
           c == [i \in 1 .. n |-> P(i - 1)]
           map == [i \in 1 .. MapSize |-> IF i \in s .. s + (o + n) \div len THEN NodeStart(i) ELSE 0]
<1>5. m = Plain([map |-> map, node |-> s, cur |-> P(0), last |-> NodeStart(s) + len,
                 finish |-> P(n), es |-> es], c, 0)
  BY <1>2 DEF Place, NodeNumber, NodeStart
<1> HIDE DEF c, P, map
<1>6. /\ m.rep.map = map /\ m.rep.node = s /\ m.rep.cur = P(0) /\ m.rep.last = NodeStart(s) + len
      /\ m.rep.finish = P(n) /\ m.rep.es = es /\ {"es", "map"} \subseteq DOMAIN m.rep
      /\ m.contents = c /\ m.room = 0
  BY <1>5 DEF Plain
<1>7. \A j \in 0 .. n : P(j) \in 1 .. Unreadable - 1
  BY <1>4, PlaceTypes DEF P
<1>8. c \in Seq(Nat) /\ Len(c) = n /\ \A i \in 0 .. n - 1 : c[i + 1] = P(i)
  <2>1. \A i \in 1 .. n : P(i - 1) \in Nat
    <3> TAKE i \in 1 .. n
    <3>1. i - 1 \in 0 .. n
      BY <1>4
    <3>2. QED
      BY <1>7, <3>1, ConstantTypes
  <2>2. c \in Seq(Nat) /\ Len(c) = n /\ \A i \in 1 .. n : c[i] = P(i - 1)
    BY <1>4, <2>1 DEF c
  <2>3. ASSUME NEW i \in 0 .. n - 1
        PROVE  c[i + 1] = P(i)
    <3>1. i + 1 \in 1 .. n /\ i + 1 - 1 = i
      BY <1>4
    <3>2. QED
      BY <2>2, <3>1
  <2>4. QED
    BY <2>2, <2>3
<1>9. Len(map) = MapSize
  <2>1. MapSize \in Nat
    BY ConstantTypes
  <2>2. QED
    BY <2>1 DEF map
<1>10. FieldsOK(k, m.rep)
  BY <1>3, <1>6, <1>9, ConstantTypes DEF FieldsOK, SizeFields
<1>11. ASSUME ~Slips(k, m.rep)
       PROVE  Found(k, m)
  <2>1. es < BufSize /\ ~(MaxDequeSize(m.rep) > MaxSize)
    BY <1>3, <1>6, <1>11, ConstantTypes DEF Slips
  <2>2. NodeSize(m.rep.es) = len
    BY <1>6, <2>1, BlockTypes DEF len
  <2> DEFINE max == MaxDequeSize(m.rep)
             r == m.rep
  <2>3. max = MapSize * len /\ max \in Nat
    BY <1>3, <1>6, <1>9, <2>2, ConstantTypes DEF MaxDequeSize
  <2>4. Holds(r, s, o, len, n)
    BY <1>6, <2>2 DEF Holds, P, map
  <2> HIDE DEF max, r
  <2>6. ASSUME NEW N \in Nat, NEW j \in 0 .. N
        PROVE  /\ j < n => /\ Cursors(r, N)[j].cur = P(j)
                           /\ Cursors(r, N)[j].cur # r.finish
               /\ j >= n => Cursors(r, N)[j].cur = r.finish
    BY <1>4, <2>4, CursorsVisit DEF P
  <2>7. n <= max
    <3> DEFINE q == (o + n) \div len
               t == (o + n) % len
    <3>1. o + n \in Nat
      BY <1>4
    <3>2. q \in Nat /\ t \in Nat /\ t < len /\ o + n = len * q + t
      BY <1>3, <3>1, Divided
    <3>3. s + q <= MapSize
      BY <1>4 DEF FitsInMap
    <3> HIDE DEF q, t
    <3>4. MapSize - q - 1 \in Nat
      BY <3>2, <3>3, ConstantTypes
    <3>5. len * (MapSize - q - 1) \in Nat
      BY <1>3, <3>4
    <3>6. len * (MapSize - q - 1) = len * MapSize - len * q - len
      BY <1>3, <3>2, ConstantTypes
    <3>7. len * MapSize = max /\ len * q \in Nat
      BY <1>3, <2>3, <3>2, ConstantTypes
    <3>8. QED
      BY <1>3, <1>4, <2>3, <3>2, <3>5, <3>6, <3>7
  <2>8. SizeOf(k, r) = n
    <3> DEFINE ends == {j \in 0 .. max : Cursors(r, max)[j].cur = r.finish}
    <3>1. SizeOf(k, r) = DequeSize(r)
      BY DEF SizeOf
    <3>2. n \in 0 .. max
      BY <1>4, <2>3, <2>7
    <3>3. n \in ends
      BY <1>4, <2>3, <2>6, <3>2
    <3>4. \A j \in ends : n <= j
      <4> TAKE j \in ends
      <4>1. j \in 0 .. max /\ ~(j < n)
        BY <2>3, <2>6
      <4>2. QED
        BY <1>4, <2>3, <4>1
    <3>5. \A j \in ends : j \in Nat
      BY <2>3
    <3> HIDE DEF ends
    <3> DEFINE least == CHOOSE j \in ends : \A i \in ends : j <= i
    <3>6. least \in ends /\ \A i \in ends : least <= i
      BY <3>3, <3>4
    <3> HIDE DEF least
    <3>7. least = n
      BY <1>4, <3>3, <3>4, <3>5, <3>6
    <3>8. DequeSize(r) = IF max > MaxSize \/ ends = {} THEN Err ELSE least
      BY Zenon DEF DequeSize, max, ends, least, r
    <3>9. ~(max > MaxSize) /\ ends # {}
      BY <2>1, <3>3 DEF max
    <3>10. QED
      BY Zenon, <3>1, <3>7, <3>8, <3>9
  <2>9. ASSUME NEW i \in Nat
        PROVE  /\ i < n => ElementAt(k, r, i) = P(i)
               /\ i >= n => ElementAt(k, r, i) = Err
    <3>1. ElementAt(k, r, i) = DequeElement(r, i)
      BY DEF ElementAt
    <3>2. i \in 0 .. i
      OBVIOUS
    <3>3. /\ i < n => Cursors(r, i)[i].cur = P(i) /\ Cursors(r, i)[i].cur # r.finish
          /\ i >= n => Cursors(r, i)[i].cur = r.finish
      BY <2>6, <3>2
    <3>4. QED
      BY Zenon, <3>1, <3>3 DEF DequeElement
  <2>10. ASSUME NEW i \in 0 .. n - 1
         PROVE  ElementAt(k, r, i) = c[i + 1] /\ CanRead(k, c[i + 1])
    <3>1. i \in Nat /\ i < n /\ i \in 0 .. n
      BY <1>4
    <3>2. P(i) \in 1 .. Unreadable - 1
      BY <1>7, <3>1
    <3>3. QED
      BY <1>8, <2>9, <3>1, <3>2, ConstantTypes DEF CanRead, Err
  <2>11. ~HasCapacity(k) /\ ~IsText(k)
    BY DEF HasCapacity, IsText, Strings
  <2>12. QED
    BY <1>6, <1>8, <2>8, <2>9, <2>10, <2>11 DEF Found, r
<1>12. QED
  BY <1>6, <1>8, <1>10, <1>11 DEF Agrees

(* Whatever the library leaves, the formatter finds; except for its slips *)
LEMMA LibraryAgrees ==
  ASSUME NEW k \in Kinds, NEW m \in IntactOf(k)
  PROVE  Agrees(k, m) /\ (IsText(k) => Len(m.contents) <= MaxText)
<1>1. m \in IntactAny(k) /\ (IsText(k) => Len(m.contents) <= MaxText)
  BY DEF IntactOf
<1>2. CASE k = "vector"
  BY <1>1, <1>2, VectorAgrees DEF IntactAny
<1>3. CASE k \in {"libcxx_valarray", "sub_match"}
  BY <1>1, <1>3, RangeAgrees DEF IntactAny
<1>4. CASE k = "array"
  BY <1>1, <1>4, ArrayAgrees DEF IntactAny
<1>5. CASE k = "valarray"
  <2>1. m \in IntactSlice({1}) /\ {1} \in SUBSET {1, 2}
    BY <1>1, <1>5 DEF IntactAny
  <2>2. QED
    BY <1>1, <1>5, <2>1, SliceAgrees
<1>6. CASE k = "slice_array"
  <2>1. m \in IntactSlice({1, 2}) /\ {1, 2} \in SUBSET {1, 2}
    BY <1>1, <1>6 DEF IntactAny
  <2>2. QED
    BY <1>1, <1>6, <2>1, SliceAgrees
<1>7. CASE k = "match_results"
  BY <1>1, <1>7, MatchesAgree DEF IntactAny
<1>8. CASE k = "stdcpp_deque"
  BY <1>1, <1>8, DequeAgrees DEF IntactAny
<1>9. CASE k = "libcxx_deque"
  BY <1>1, <1>9, BlocksAgree DEF IntactAny
<1>10. CASE k = "bitset"
  BY <1>1, <1>10, BitsAgree DEF IntactAny
<1>11. CASE k \in {"string_view", "zstring"}
  BY <1>1, <1>11, ViewAgrees DEF IntactAny
<1>12. CASE k = "cow_string"
  BY <1>1, <1>12, CowAgrees DEF IntactAny
<1>13. CASE k = "cxx11_string"
  BY <1>1, <1>13, Cxx11Agrees DEF IntactAny
<1>14. CASE k = "libcxx_string"
  <2>1. m \in IntactLibcxx
    BY <1>1, <1>14 DEF IntactAny
  <2>2. IsText(k)
    BY <1>14 DEF IsText, Strings
  <2>3. QED
    BY <1>1, <1>14, <2>1, <2>2, LibcxxAgrees
<1>15. QED
  BY EachKind, <1>2, <1>3, <1>4, <1>5, <1>6, <1>7, <1>8, <1>9, <1>10, <1>11, <1>12, <1>13, <1>14

(* Sizes are numbers or errors, of damaged containers as well *)
LEMMA SizeTypes ==
  ASSUME NEW k \in Kinds, NEW r, FieldsOK(k, r)
  PROVE  SizeOf(k, r) \in {Err} \cup Nat
<1> DEFINE S == {Err} \cup Nat
<1>1. CASE k \in {"vector", "libcxx_valarray", "sub_match", "match_results"}
  <2>1. r.start \in Nat /\ r.finish \in Nat
    BY <1>1 DEF FieldsOK, SizeFields
  <2> DEFINE d == r.finish - r.start
  <2>2. d \in Int
    BY <2>1
  <2>3. VectorSize(r) = IF d < 0 \/ d > MaxVector THEN Err ELSE d
    BY DEF VectorSize
  <2>4. VectorSize(r) \in S
    BY <2>2, <2>3
  <2>5. \A x \in Int : x % Modulus \in Nat
    BY ConstantTypes
  <2>6. RangeSize(r) \in S
    <3>1. RangeSize(r) = d % Modulus
      BY DEF RangeSize, Minus
    <3> HIDE DEF d
    <3>2. QED
      BY <2>2, <2>5, <3>1
  <2>7. MatchResultsSize(r) \in S
    <3>1. CASE VectorSize(r) = Err
      BY <3>1 DEF MatchResultsSize
    <3>2. CASE VectorSize(r) # Err
      <4>1. VectorSize(r) - 3 \in Int
        BY <2>4, <3>2
      <4>2. MatchResultsSize(r) = (VectorSize(r) - 3) % Modulus
        BY <3>2 DEF MatchResultsSize, Minus
      <4>3. QED
        BY <2>5, <4>1, <4>2
    <3>3. QED
      BY <3>1, <3>2
  <2>8. SizeOf(k, r) \in {VectorSize(r), RangeSize(r), MatchResultsSize(r)}
    BY <1>1 DEF SizeOf
  <2>9. QED
    BY <2>4, <2>6, <2>7, <2>8
<1>2. CASE k = "stdcpp_deque"
  <2>1. Len(r.map) \in Nat /\ r.es \in Nat /\ r.es # 0
    BY <1>2 DEF FieldsOK, SizeFields
  <2>2. NodeSize(r.es) \in Nat
    <3>1. CASE r.es < BufSize
      <4>1. r.es \in Nat \ {0} /\ BufSize \in Nat
        BY <2>1, ConstantTypes
      <4>2. BufSize \div r.es \in Nat
        BY <4>1, Divided
      <4>3. QED
        BY <3>1, <4>2 DEF NodeSize
    <3>2. CASE ~(r.es < BufSize)
      BY <2>1, <3>2 DEF NodeSize
    <3>3. QED
      BY <3>1, <3>2
  <2> DEFINE max == MaxDequeSize(r)
             ends == {j \in 0 .. max : Cursors(r, max)[j].cur = r.finish}
             least == CHOOSE j \in ends : \A i \in ends : j <= i
  <2>3. max \in Nat
    BY <2>1, <2>2 DEF MaxDequeSize
  <2>4. DequeSize(r) = IF max > MaxSize \/ ends = {} THEN Err ELSE least
    BY Zenon DEF DequeSize
  <2> HIDE DEF max
  <2>5. ends \in SUBSET Nat
    BY <2>3
  <2> HIDE DEF ends
  <2>6. ends # {} => least \in Nat
    BY <2>5, Smallest
  <2> HIDE DEF least
  <2>7. DequeSize(r) \in S
    BY Zenon, <2>4, <2>6
  <2>8. QED
    BY <1>2, <2>7 DEF SizeOf
<1>3. CASE k = "array"
  <2>1. r.length \in Nat /\ r.parameter \in Nat
    BY <1>3 DEF FieldsOK, SizeFields
  <2>2. ArraySize(r) \in S /\ LibcxxArraySize(r) \in S
    BY <2>1 DEF ArraySize, LibcxxArraySize
  <2>3. SizeOf(k, r) = IF r.libcxx THEN LibcxxArraySize(r) ELSE ArraySize(r)
    BY <1>3 DEF SizeOf
  <2>4. QED
    BY Zenon, <2>2, <2>3
<1>4. CASE k = "bitset"
  BY <1>4 DEF FieldsOK, SizeFields, SizeOf, BitsetSize
<1>5. CASE k \in {"cow_string", "cxx11_string"}
  BY <1>5 DEF FieldsOK, SizeFields, SizeOf, StringSize
<1>6. CASE k = "libcxx_string"
  <2>1. r.byte \in Nat /\ r.size \in Nat
    BY <1>6 DEF FieldsOK, SizeFields
  <2>2. r.byte \div 2 \in Nat
    BY <2>1
  <2>3. SizeOf(k, r) = LibcxxStringSize(r)
    BY <1>6 DEF SizeOf
  <2>4. LibcxxStringSize(r) \in {r.size, r.byte, r.byte \div 2}
    BY Zenon DEF LibcxxStringSize
  <2>5. QED
    BY <2>1, <2>2, <2>3, <2>4
<1>7. CASE k \in {"valarray", "slice_array", "libcxx_deque", "string_view", "zstring"}
  BY <1>7 DEF FieldsOK, SizeFields, SizeOf
<1>8. QED
  BY EachKind, <1>1, <1>2, <1>3, <1>4, <1>5, <1>6, <1>7

-----------------------------------------------------------------------------
(* Text: the characters that bytes make up *)

(* The bytes of a character, or of what is none *)
Width(l) == IF l = 0 THEN 1 ELSE l

(* Positions e that the characters of s end at *)
Ends(s, e) ==
    /\ e \in [0 .. Len(s) -> Int]
    /\ e[0] = 0
    /\ \A c \in 1 .. Len(s) : e[c] = e[c - 1] + Width(s[c])
    /\ \A c, d \in 0 .. Len(s) : c <= d => e[c] + (d - c) <= e[d]

(* Characters s take n bytes *)
Coded(s, n) == s \in Seq(0 .. WideChars) /\ \E e : Ends(s, e) /\ e[Len(s)] = n

(* What follows the first character has the rest of the bytes *)
LEMMA CodedRest ==
  ASSUME NEW s, NEW n \in Nat, n # 0, Coded(s, n)
  PROVE  \E l \in 0 .. WideChars : \E t :
            /\ l <= n /\ n - Width(l) \in Nat
            /\ Coded(t, n - Width(l)) /\ s = <<l>> \o t
<1> DEFINE S == 0 .. WideChars
           l == s[1]
           w == Width(l)
           t == Tail(s)
<1>1. PICK e : s \in Seq(S) /\ Ends(s, e) /\ e[Len(s)] = n
  BY DEF Coded
<1>2. Len(s) \in Nat /\ Len(s) # 0
  BY <1>1 DEF Ends
<1>3. s # <<>>
  BY <1>2
<1>4. t \in Seq(S) /\ Len(t) = Len(s) - 1 /\ \A i \in 1 .. Len(t) : t[i] = s[i + 1]
  BY <1>1, <1>3, HeadTailProperties
<1>5. l \in S
  <2>1. 1 \in 1 .. Len(s)
    BY <1>2
  <2> HIDE DEF S
  <2>2. \A i \in 1 .. Len(s) : s[i] \in S
    BY <1>1, ElementOfSeq
  <2>3. QED
    BY <2>1, <2>2
<1>6. w \in Nat /\ w >= 1 /\ w >= l
  BY <1>5, ConstantTypes DEF Width
<1>7. s = <<l>> \o t
  <2> DEFINE u == <<l>>
  <2>1. u \in Seq(S) /\ Len(u) = 1 /\ u[1] = l
    BY <1>5
  <2> HIDE DEF u, t, l, S
  <2>2. /\ u \o t \in Seq(S) /\ Len(u \o t) = Len(u) + Len(t)
        /\ \A i \in 1 .. Len(u) + Len(t) : (u \o t)[i] = IF i <= Len(u) THEN u[i] ELSE t[i - Len(u)]
    <3>1. u \in Seq(S) /\ t \in Seq(S)
      BY <1>4, <2>1
    <3>2. QED
      BY Zenon, <3>1, ConcatProperties
  <2>3. Len(u \o t) = Len(s)
    BY <1>2, <1>4, <2>1, <2>2
  <2>4. ASSUME NEW i \in 1 .. Len(s)
        PROVE  s[i] = (u \o t)[i]
    <3>1. i \in 1 .. Len(u) + Len(t)
      BY <1>2, <1>4, <2>1
    <3>2. CASE i = 1
      <4>1. (u \o t)[i] = u[i]
        BY <2>1, <2>2, <3>1, <3>2
      <4>2. QED
        BY <2>1, <3>2, <4>1 DEF l
    <3>3. CASE i # 1
      <4>1. (u \o t)[i] = t[i - 1]
        BY <2>1, <2>2, <3>1, <3>3
      <4>2. i - 1 \in 1 .. Len(t) /\ i - 1 + 1 = i
        BY <1>2, <1>4, <3>3
      <4>3. QED
        BY <1>4, <4>1, <4>2
    <3>4. QED
      BY <3>2, <3>3
  <2>5. s = u \o t
    BY <1>1, <2>2, <2>3, <2>4, SeqEqual
  <2>6. QED
    BY <2>5 DEF u
<1> HIDE DEF t, l, w
<1>8. /\ e \in [0 .. Len(s) -> Int] /\ e[0] = 0
      /\ \A c \in 1 .. Len(s) : e[c] = e[c - 1] + Width(s[c])
      /\ \A c, d \in 0 .. Len(s) : c <= d => e[c] + (d - c) <= e[d]
  BY <1>1 DEF Ends
<1>9. e[1] = w
  <2>1. e[1] = e[1 - 1] + Width(s[1])
    BY <1>2, <1>8
  <2>2. 1 - 1 = 0
    OBVIOUS
  <2>3. QED
    BY <1>6, <1>8, <2>1, <2>2 DEF w, l
<1>10. w <= n
  BY <1>1, <1>2, <1>6, <1>8, <1>9
<1> DEFINE f == [c \in 0 .. Len(t) |-> e[c + 1] - w]
<1>11. \A c \in 0 .. Len(t) : c + 1 \in 0 .. Len(s) /\ e[c + 1] \in Int
  BY <1>2, <1>4, <1>8
<1>12. f \in [0 .. Len(t) -> Int]
  BY <1>6, <1>11
<1>13. \A c \in 0 .. Len(t) : f[c] = e[c + 1] - w
  OBVIOUS
<1> HIDE DEF f
<1>14. f[0] = 0
  BY <1>2, <1>4, <1>6, <1>9, <1>13
<1>15. ASSUME NEW c \in 1 .. Len(t)
       PROVE  f[c] = f[c - 1] + Width(t[c])
  <2>1. c \in 0 .. Len(t) /\ c - 1 \in 0 .. Len(t) /\ c + 1 \in 1 .. Len(s)
        /\ c - 1 + 1 = c /\ c + 1 - 1 = c
    BY <1>2, <1>4
  <2>2. f[c] = e[c + 1] - w /\ f[c - 1] = e[c] - w
    BY <1>13, <2>1
  <2>3. e[c + 1] = e[c] + Width(t[c])
    BY <1>4, <1>8, <2>1
  <2>4. e[c] \in Int /\ Width(t[c]) \in Int
    <3>1. t[c] \in S
      BY <1>4, ElementOfSeq
    <3>2. c \in 0 .. Len(s)
      BY <1>2, <1>4
    <3>3. QED
      BY <1>8, <3>1, <3>2, ConstantTypes DEF Width
  <2>5. QED
    BY <1>6, <2>2, <2>3, <2>4
<1>16. ASSUME NEW c \in 0 .. Len(t), NEW d \in 0 .. Len(t), c <= d
       PROVE  f[c] + (d - c) <= f[d]
  <2>1. c + 1 \in 0 .. Len(s) /\ d + 1 \in 0 .. Len(s) /\ c + 1 <= d + 1 /\ (d + 1) - (c + 1) = d - c
    BY <1>2, <1>4, <1>16
  <2>2. e[c + 1] + ((d + 1) - (c + 1)) <= e[d + 1]
    BY <1>8, <2>1
  <2>3. f[c] = e[c + 1] - w /\ f[d] = e[d + 1] - w
    BY <1>13
  <2>4. e[c + 1] \in Int /\ e[d + 1] \in Int
    BY <1>8, <2>1
  <2>5. QED
    BY <1>6, <2>1, <2>2, <2>3, <2>4
<1>17. Ends(t, f)
  BY <1>12, <1>14, <1>15, <1>16 DEF Ends
<1>18. f[Len(t)] = n - w
  <2>1. Len(t) \in 0 .. Len(t) /\ Len(t) + 1 = Len(s)
    BY <1>2, <1>4
  <2>2. QED
    BY <1>1, <1>13, <2>1
<1>19. Coded(t, n - w)
  BY <1>4, <1>17, <1>18 DEF Coded
<1>20. n - w \in Nat /\ l <= n
  BY <1>5, <1>6, <1>10, ConstantTypes
<1>21. QED
  BY <1>5, <1>7, <1>19, <1>20 DEF w

(* One character more, at the begin *)
LEMMA CodedMore ==
  ASSUME NEW t, NEW n \in Nat, NEW l \in 0 .. WideChars, Coded(t, n)
  PROVE  Coded(<<l>> \o t, n + Width(l))
<1> DEFINE S == 0 .. WideChars
           w == Width(l)
           u == <<l>>
           s == u \o t
<1>1. PICK e : t \in Seq(S) /\ Ends(t, e) /\ e[Len(t)] = n
  BY DEF Coded
<1>2. w \in Nat /\ w >= 1
  BY ConstantTypes DEF Width
<1>3. u \in Seq(S) /\ Len(u) = 1 /\ u[1] = l
  OBVIOUS
<1> HIDE DEF S, u, w
<1>4. /\ s \in Seq(S) /\ Len(s) = Len(u) + Len(t)
      /\ \A i \in 1 .. Len(u) + Len(t) : s[i] = IF i <= Len(u) THEN u[i] ELSE t[i - Len(u)]
  <2>1. u \in Seq(S) /\ t \in Seq(S)
    BY <1>1, <1>3
  <2>2. QED
    BY Zenon, <2>1, ConcatProperties
<1>5. Len(t) \in Nat
  BY <1>1
<1> HIDE DEF s
<1>6. Len(s) = Len(t) + 1 /\ s[1] = l /\ \A i \in 1 .. Len(t) : s[i + 1] = t[i]
  <2>1. Len(s) = Len(t) + 1
    BY <1>3, <1>4, <1>5
  <2>2. s[1] = l
    <3>1. 1 \in 1 .. Len(u) + Len(t) /\ 1 <= Len(u)
      BY <1>3, <1>5
    <3>2. QED
      BY <1>3, <1>4, <3>1
  <2>3. ASSUME NEW i \in 1 .. Len(t)
        PROVE  s[i + 1] = t[i]
    <3>1. i + 1 \in 1 .. Len(u) + Len(t) /\ ~(i + 1 <= Len(u)) /\ i + 1 - Len(u) = i
      BY <1>3, <1>5
    <3>2. s[i + 1] = t[i + 1 - Len(u)]
      BY <1>4, <3>1
    <3>3. QED
      BY Zenon, <3>1, <3>2
  <2>4. QED
    BY <2>1, <2>2, <2>3
<1>7. /\ e \in [0 .. Len(t) -> Int] /\ e[0] = 0
      /\ \A c \in 1 .. Len(t) : e[c] = e[c - 1] + Width(t[c])
      /\ \A c, d \in 0 .. Len(t) : c <= d => e[c] + (d - c) <= e[d]
  BY <1>1 DEF Ends
<1> DEFINE f == [c \in 0 .. Len(s) |-> IF c = 0 THEN 0 ELSE e[c - 1] + w]
<1>8. \A c \in 1 .. Len(s) : c - 1 \in 0 .. Len(t) /\ e[c - 1] \in Int
  <2> TAKE c \in 1 .. Len(s)
  <2>1. c - 1 \in 0 .. Len(t)
    BY <1>5, <1>6
  <2>2. QED
    BY <1>7, <2>1
<1>9. f \in [0 .. Len(s) -> Int]
  <2>1. \A c \in 0 .. Len(s) : (IF c = 0 THEN 0 ELSE e[c - 1] + w) \in Int
    <3> TAKE c \in 0 .. Len(s)
    <3>1. CASE c = 0
      BY <3>1
    <3>2. CASE c # 0
      <4>1. c \in 1 .. Len(s)
        BY <1>5, <1>6, <3>2
      <4>2. e[c - 1] \in Int
        BY <1>8, <4>1
      <4>3. QED
        BY <1>2, <3>2, <4>2
    <3>3. QED
      BY <3>1, <3>2
  <2>2. QED
    BY <2>1
<1>10. f[0] = 0 /\ \A c \in 1 .. Len(s) : f[c] = e[c - 1] + w
  <2>1. 0 \in 0 .. Len(s)
    BY <1>5, <1>6
  <2>2. \A c \in 1 .. Len(s) : c \in 0 .. Len(s) /\ c # 0
    OBVIOUS
  <2>3. QED
    BY <2>1, <2>2
<1> HIDE DEF f
<1>11. ASSUME NEW c \in 1 .. Len(s)
       PROVE  f[c] = f[c - 1] + Width(s[c])
  <2>1. CASE c = 1
    <3>1. c - 1 = 0
      BY <2>1
    <3>2. f[c] = e[0] + w /\ f[c - 1] = 0 /\ Width(s[c]) = w
      BY <1>6, <1>10, <2>1, <3>1 DEF w
    <3>3. QED
      BY <1>2, <1>7, <3>2
  <2>2. CASE c # 1
    <3> DEFINE b == c - 1
    <3>1. b \in 1 .. Len(t) /\ b \in 1 .. Len(s) /\ b + 1 = c
      BY <1>5, <1>6, <2>2
    <3>2. f[c] = e[b] + w /\ f[b] = e[b - 1] + w
      BY <1>10, <3>1
    <3>3. e[b] = e[b - 1] + Width(t[b]) /\ s[c] = t[b]
      BY <1>6, <1>7, <3>1
    <3>4. e[b] \in Int /\ e[b - 1] \in Int
      BY <1>8, <3>1
    <3>5. Width(t[b]) \in Int
      <4>1. t[b] \in S
        BY <1>1, <3>1, ElementOfSeq
      <4>2. QED
        BY <4>1, ConstantTypes DEF Width, S
    <3> HIDE DEF b
    <3>6. f[c] = f[b] + Width(s[c])
      BY <1>2, <3>2, <3>3, <3>4, <3>5
    <3>7. QED
      BY <3>6 DEF b
  <2>3. QED
    BY <2>1, <2>2
<1>12. ASSUME NEW c \in 0 .. Len(s), NEW d \in 0 .. Len(s), c <= d
       PROVE  f[c] + (d - c) <= f[d]
  <2>1. CASE d = 0
    BY <1>10, <1>12, <2>1
  <2>2. CASE d # 0
    <3>1. d \in 1 .. Len(s) /\ d - 1 \in 0 .. Len(t) /\ 0 \in 0 .. Len(t)
      BY <1>5, <1>6, <2>2
    <3>2. f[d] = e[d - 1] + w /\ e[d - 1] \in Int
      BY <1>8, <1>10, <3>1
    <3>3. CASE c = 0
      <4>1. e[0] + ((d - 1) - 0) <= e[d - 1]
        <5>1. 0 <= d - 1
          BY <3>1
        <5>2. QED
          BY <1>7, <3>1, <5>1
      <4>2. QED
        BY <1>2, <1>7, <1>10, <3>2, <3>3, <4>1
    <3>4. CASE c # 0
      <4>1. c \in 1 .. Len(s) /\ c - 1 \in 0 .. Len(t) /\ c - 1 <= d - 1 /\ (d - 1) - (c - 1) = d - c
        BY <1>5, <1>6, <1>12, <3>4
      <4>2. e[c - 1] + ((d - 1) - (c - 1)) <= e[d - 1]
        BY Zenon, <1>7, <3>1, <4>1
      <4>3. f[c] = e[c - 1] + w /\ e[c - 1] \in Int
        BY <1>8, <1>10, <4>1
      <4>4. d - c \in Int
        OBVIOUS
      <4>5. QED
        BY <1>2, <3>2, <4>1, <4>2, <4>3, <4>4
    <3>5. QED
      BY <3>3, <3>4
  <2>3. QED
    BY <2>1, <2>2
<1>13. Ends(s, f)
  BY <1>9, <1>10, <1>11, <1>12 DEF Ends
<1>14. f[Len(s)] = n + w
  <2>1. Len(s) \in 1 .. Len(s) /\ Len(s) - 1 = Len(t)
    BY <1>5, <1>6
  <2>2. f[Len(s)] = e[Len(s) - 1] + w
    BY <1>10, <2>1
  <2>3. QED
    BY <1>1, <2>1, <2>2
<1>15. Coded(s, n + w)
  BY <1>4, <1>13, <1>14 DEF Coded, S
<1>16. QED
  BY <1>15 DEF s, u, w

(* No characters take no bytes *)
LEMMA CodedNone ==
  ASSUME NEW s
  PROVE  Coded(s, 0) <=> s = <<>>
<1>1. ASSUME Coded(s, 0) PROVE s = <<>>
  <2>1. PICK e : s \in Seq(0 .. WideChars) /\ Ends(s, e) /\ e[Len(s)] = 0
    BY <1>1 DEF Coded
  <2>2. Len(s) \in Nat /\ 0 \in 0 .. Len(s) /\ Len(s) \in 0 .. Len(s) /\ 0 <= Len(s)
    BY <2>1
  <2>3. e[0] = 0 /\ e[0] + (Len(s) - 0) <= e[Len(s)]
    BY <2>1, <2>2 DEF Ends
  <2>4. Len(s) = 0
    BY <2>1, <2>2, <2>3
  <2>5. QED
    BY <2>1, <2>4, EmptySeq
<1>2. ASSUME s = <<>> PROVE Coded(s, 0)
  <2> DEFINE e == [c \in 0 .. 0 |-> 0]
  <2>1. s \in Seq(0 .. WideChars) /\ Len(s) = 0
    BY <1>2
  <2>2. e \in [0 .. 0 -> Int] /\ \A c \in 0 .. 0 : e[c] = 0 /\ c = 0
    OBVIOUS
  <2> HIDE DEF e
  <2>3. Ends(s, e)
    BY <2>1, <2>2 DEF Ends
  <2>4. QED
    BY <2>1, <2>2, <2>3 DEF Coded
<1>3. QED
  BY <1>1, <1>2

(* Codings is what it says: every row of characters that take the bytes *)
LEMMA CodingsAre ==
  ASSUME NEW n \in 0 .. MaxText
  PROVE  \A s : s \in Codings[n] <=> Coded(s, n)
<1> DEFINE S == 0 .. WideChars
           G(a, k) == IF k = 0 THEN {<<>>}
                      ELSE UNION {{<<l>> \o s : s \in a[k - IF l = 0 THEN 1 ELSE l]} :
                                    l \in {l \in 0 .. WideChars : l <= k}}
           W == [k \in 0 .. MaxText |-> {s \in Seq(S) : Coded(s, k)}]
<1>1. \A k \in 0 .. MaxText : \A s : s \in W[k] <=> Coded(s, k)
  BY DEF Coded
<1>2. \A l : (IF l = 0 THEN 1 ELSE l) = Width(l)
  BY DEF Width
<1>3. DOMAIN W = 0 .. MaxText /\ W = [k \in 0 .. MaxText |-> W[k]]
  OBVIOUS
<1> HIDE DEF W, S
<1>4. ASSUME NEW k \in 0 .. MaxText
      PROVE  W[k] = G(W, k)
  <2>0. MaxText \in Nat /\ k \in Nat
    BY ConstantTypes
  <2>1. CASE k = 0
    BY <1>1, <2>1, CodedNone
  <2>2. CASE k # 0
    <3>1. ASSUME NEW s \in W[k] PROVE s \in G(W, k)
      <4>1. Coded(s, k)
        BY <1>1
      <4>2. PICK l \in 0 .. WideChars : \E t :
                /\ l <= k /\ k - Width(l) \in Nat
                /\ Coded(t, k - Width(l)) /\ s = <<l>> \o t
        BY <2>0, <2>2, <4>1, CodedRest
      <4>3. PICK t : /\ l <= k /\ k - Width(l) \in Nat
                     /\ Coded(t, k - Width(l)) /\ s = <<l>> \o t
        BY <4>2
      <4>4. k - Width(l) \in 0 .. MaxText
        <5>1. Width(l) \in Nat
          BY ConstantTypes DEF Width
        <5>2. QED
          BY <2>0, <4>3, <5>1
      <4>5. t \in W[k - Width(l)]
        BY <1>1, <4>3, <4>4
      <4>6. s \in {<<l>> \o u : u \in W[k - Width(l)]}
        BY <4>3, <4>5
      <4>7. l \in {i \in 0 .. WideChars : i <= k}
        BY <4>3
      <4>8. QED
        BY <1>2, <2>2, <4>6, <4>7
    <3>2. ASSUME NEW s \in G(W, k) PROVE s \in W[k]
      <4>1. PICK l \in {i \in 0 .. WideChars : i <= k} : s \in {<<l>> \o u : u \in W[k - Width(l)]}
        BY <1>2, <2>2
      <4>2. PICK t \in W[k - Width(l)] : s = <<l>> \o t
        BY <4>1
      <4>3. /\ l \in 0 .. WideChars /\ Width(l) \in Nat /\ k - Width(l) \in Nat
            /\ k - Width(l) \in 0 .. MaxText /\ (k - Width(l)) + Width(l) = k
        <5>1. l \in 0 .. WideChars /\ l <= k
          BY <4>1
        <5>2. Width(l) \in Nat /\ Width(l) <= k
          BY <2>0, <2>2, <5>1, ConstantTypes DEF Width
        <5>3. QED
          BY <2>0, <5>1, <5>2
      <4>4. Coded(t, k - Width(l))
        BY <1>1, <4>2, <4>3
      <4>5. Coded(s, (k - Width(l)) + Width(l))
        BY <4>2, <4>3, <4>4, CodedMore
      <4>6. Coded(s, k)
        BY Zenon, <4>3, <4>5
      <4>7. QED
        BY <1>1, <4>6
    <3> HIDE DEF G
    <3>3. QED
      BY <3>1, <3>2
  <2>3. QED
    BY <2>1, <2>2
<1> DEFINE cs == CHOOSE a : a = [k \in 0 .. MaxText |-> G(a, k)]
<1>5. Codings = cs
  BY DEF Codings
<1>6. cs = [k \in 0 .. MaxText |-> G(cs, k)]
  <2>1. W = [k \in 0 .. MaxText |-> G(W, k)]
    <3> HIDE DEF G
    <3>1. QED
      BY <1>3, <1>4
  <2> HIDE DEF G
  <2>2. \E a : a = [k \in 0 .. MaxText |-> G(a, k)]
    BY <2>1
  <2>3. QED
    BY <2>2, Zenon
<1> HIDE DEF cs
<1>7. \A k \in 0 .. MaxText : cs[k] = G(cs, k)
  <2> HIDE DEF G
  <2>1. QED
    BY <1>6
<1>8. \A k \in 0 .. MaxText : cs[k] = W[k]
  <2> DEFINE T == {k \in 0 .. MaxText : cs[k] # W[k]}
  <2> SUFFICES ASSUME T # {} PROVE FALSE
    OBVIOUS
  <2>1. PICK k \in T : \A j \in T : k <= j
    <3>1. T \in SUBSET Nat
      BY ConstantTypes
    <3> HIDE DEF T
    <3>2. QED
      BY <3>1, Smallest
  <2>2. k \in 0 .. MaxText /\ k \in Nat /\ cs[k] # W[k] /\ MaxText \in Nat
    BY <2>1, ConstantTypes
  <2>3. \A j \in 0 .. MaxText : j < k => cs[j] = W[j]
    <3> TAKE j \in 0 .. MaxText
    <3> HAVE j < k
    <3>1. ~(k <= j)
      BY <2>2
    <3>2. QED
      BY <2>1, <3>1
  <2>4. \A l \in {l \in 0 .. WideChars : l <= k} :
            k # 0 => cs[k - Width(l)] = W[k - Width(l)]
    <3> TAKE l \in {l \in 0 .. WideChars : l <= k}
    <3> HAVE k # 0
    <3>1. l \in 0 .. WideChars /\ l <= k
      OBVIOUS
    <3>2. Width(l) \in Nat /\ Width(l) <= k /\ Width(l) > 0
      BY <2>2, <3>1, ConstantTypes DEF Width
    <3>3. k - Width(l) \in 0 .. MaxText /\ k - Width(l) < k
      BY <2>2, <3>2
    <3>4. QED
      BY <2>3, <3>3
  <2>5. G(cs, k) = G(W, k)
    <3>1. CASE k = 0
      BY <3>1
    <3>2. CASE k # 0
      <4> DEFINE Part(a, l) == {<<l>> \o s : s \in a[k - Width(l)]}
                 L == {l \in 0 .. WideChars : l <= k}
      <4>1. \A l \in L : Part(cs, l) = Part(W, l)
        BY <2>4, <3>2
      <4>2. G(cs, k) = UNION {Part(cs, l) : l \in L} /\ G(W, k) = UNION {Part(W, l) : l \in L}
        BY <3>2 DEF Width
      <4> HIDE DEF Part, L, G
      <4>3. {Part(cs, l) : l \in L} = {Part(W, l) : l \in L}
        BY <4>1
      <4>4. QED
        BY Zenon, <4>2, <4>3
    <3>3. QED
      BY <3>1, <3>2
  <2> HIDE DEF G
  <2>6. QED
    BY <1>4, <1>7, <2>2, <2>5
<1>9. QED
  BY <1>1, <1>5, <1>8

(* A text of n one-byte characters *)
LEMMA CodedBytes ==
  ASSUME NEW n \in Nat
  PROVE  Coded([i \in 1 .. n |-> 1], n)
<1> DEFINE s == [i \in 1 .. n |-> 1]
           e == [c \in 0 .. n |-> c]
<1>1. s \in Seq(0 .. WideChars) /\ Len(s) = n /\ \A c \in 1 .. n : s[c] = 1
  <2>1. 1 \in 0 .. WideChars
    BY ConstantTypes
  <2>2. QED
    BY <2>1
<1>2. e \in [0 .. n -> Int] /\ \A c \in 0 .. n : e[c] = c
  OBVIOUS
<1> HIDE DEF s, e
<1>3. \A c \in 1 .. n : e[c] = e[c - 1] + Width(s[c])
  <2> TAKE c \in 1 .. n
  <2>1. c \in 0 .. n /\ c - 1 \in 0 .. n /\ c = c - 1 + 1
    OBVIOUS
  <2>2. Width(s[c]) = 1
    BY <1>1 DEF Width
  <2>3. QED
    BY <1>2, <2>1, <2>2
<1>4. \A c, d \in 0 .. n : c <= d => e[c] + (d - c) <= e[d]
  BY <1>2
<1>5. Ends(s, e)
  BY <1>1, <1>2, <1>3, <1>4 DEF Ends
<1>6. Coded(s, n)
  BY <1>1, <1>2, <1>5 DEF Coded
<1>7. QED
  BY <1>6 DEF s

-----------------------------------------------------------------------------
(* The container and the result on display *)

(* The fields can be read as sizes; an intact container is one the library *)
(* makes, with characters that take its bytes; and the size in the result  *)
(* of a deque is the deque's, until the debuggee runs.                     *)
AInv ==
    /\ TypeOK
    /\ FieldsOK(kind, rep)
    /\ intact => \E m \in IntactOf(kind) : rep = m.rep /\ contents = m.contents /\ room = m.room
    /\ intact /\ IsText(kind) => Coded(chars, Len(contents))
    /\ fresh /\ kind = "stdcpp_deque" /\ kept # Err => kept = SizeOf(kind, rep)

(* Init establishes it *)
LEMMA InitA == Init => AInv
<1> SUFFICES ASSUME Init PROVE AInv
  OBVIOUS
<1>1. kind \in Kinds
  BY DEF Init
<1>2. PICK m \in IntactOf(kind) :
         /\ rep = m.rep /\ contents = m.contents /\ room = m.room
         /\ chars \in IF IsText(kind) THEN Codings[Len(m.contents)] ELSE {<<>>}
  BY DEF Init
<1>3. Agrees(kind, m) /\ (IsText(kind) => Len(m.contents) <= MaxText)
  BY <1>1, <1>2, LibraryAgrees
<1>4. FieldsOK(kind, rep) /\ contents \in Seq(Nat) /\ room \in Nat
  BY <1>2, <1>3 DEF Agrees
<1>5. IsText(kind) => Coded(chars, Len(contents))
  <2>1. Len(m.contents) \in Nat
    BY <1>2, <1>4
  <2>2. ASSUME IsText(kind) PROVE Coded(chars, Len(contents))
    <3>1. Len(m.contents) \in 0 .. MaxText
      BY <1>3, <2>1, <2>2, ConstantTypes
    <3>2. chars \in Codings[Len(m.contents)]
      BY <1>2, <2>2
    <3>3. QED
      BY <1>2, <3>1, <3>2, CodingsAre
  <2>3. QED
    BY <2>2
<1>6. chars \in Seq(0 .. WideChars)
  <2>1. CASE IsText(kind)
    BY <1>5, <2>1 DEF Coded
  <2>2. CASE ~IsText(kind)
    BY <1>2, <2>2, EmptySeq
  <2>3. QED
    BY <2>1, <2>2
<1>7. TypeOK
  <2>1. asserts \in BOOLEAN /\ intact \in BOOLEAN /\ fresh \in BOOLEAN /\ ~fresh
    BY DEF Init
  <2>2. changes \in 0 .. MaxChanges /\ kept = Err /\ answer.what = "none"
    BY ConstantTypes DEF Init, NoAnswer
  <2>3. QED
    BY <1>1, <1>4, <1>6, <2>1, <2>2 DEF TypeOK
<1>8. ~fresh
  BY DEF Init
<1>9. QED
  BY <1>2, <1>4, <1>5, <1>7, <1>8 DEF AInv

(* A damaged container has its fields, and its type is unharmed *)
LEMMA DamageKeepsFields ==
  ASSUME NEW k \in Kinds, NEW r, FieldsOK(k, r), NEW v \in Nat,
         NEW f \in DOMAIN r \ {"es", "cs", "bits", "array", "alternate", "little", "map"}
  PROVE  FieldsOK(k, [r EXCEPT ![f] = v])
<1> DEFINE q == [r EXCEPT ![f] = v]
<1>1. DOMAIN q = DOMAIN r /\ \A g \in DOMAIN r : q[g] = IF g = f THEN v ELSE r[g]
  OBVIOUS
<1> HIDE DEF q
<1>2. \A g \in SizeFields(k) : g \in DOMAIN q /\ q[g] \in Nat
  BY <1>1 DEF FieldsOK
<1>3. k = "stdcpp_deque" => /\ "map" \in DOMAIN q /\ Len(q.map) \in Nat
                            /\ q.es # 0
  <2>1. ASSUME k = "stdcpp_deque" PROVE "map" \in DOMAIN r /\ Len(r.map) \in Nat /\ r.es # 0
                                        /\ "es" \in DOMAIN r
    BY <2>1 DEF FieldsOK, SizeFields
  <2>2. ASSUME k = "stdcpp_deque" PROVE q.map = r.map /\ q.es = r.es
    BY <1>1, <2>1, <2>2
  <2>3. QED
    BY <1>1, <2>1, <2>2
<1>4. FieldsOK(k, q)
  BY <1>2, <1>3 DEF FieldsOK
<1>5. QED
  BY <1>4 DEF q

(* Formatting keeps a size that can be shown *)
LEMMA FormatKeepsA == AInv /\ Format => AInv'
<1> SUFFICES ASSUME AInv, Format PROVE AInv'
  OBVIOUS
<1>1. /\ kind' = kind /\ rep' = rep /\ contents' = contents /\ room' = room /\ chars' = chars
      /\ intact' = intact /\ asserts' = asserts /\ changes' = changes /\ fresh' = TRUE
  BY DEF Format, memory
<1>2. kind \in Kinds /\ FieldsOK(kind, rep)
  BY DEF AInv, TypeOK
<1>3. \/ /\ FormatFails(kind, rep) /\ answer' = [what |-> "error"] /\ kept' = Err
      \/ /\ ~FormatFails(kind, rep) /\ kept' = SizeOf(kind, rep)
         /\ answer'.what = "format"
  <2>1. CASE FormatFails(kind, rep)
    BY <2>1 DEF Format
  <2>2. CASE ~FormatFails(kind, rep)
    BY <2>2 DEF Format
  <2>3. QED
    BY <2>1, <2>2
<1>4. kept' \in {Err} \cup 0 .. MaxSize /\ answer'.what \in {"error", "format"}
  <2>1. CASE FormatFails(kind, rep)
    <3>1. answer' = [what |-> "error"] /\ kept' = Err
      BY <1>3, <2>1
    <3>2. QED
      BY <3>1
  <2>2. CASE ~FormatFails(kind, rep)
    <3>1. SizeOf(kind, rep) # Err /\ ~(SizeOf(kind, rep) > MaxSize)
      BY <2>2 DEF FormatFails, CheckSize
    <3>2. SizeOf(kind, rep) \in Nat
      BY <1>2, <3>1, SizeTypes
    <3>3. QED
      BY <1>3, <2>2, <3>1, <3>2, ConstantTypes
  <2>3. QED
    BY <2>1, <2>2
<1>5. TypeOK'
  BY <1>1, <1>4 DEF AInv, TypeOK
<1>6. (kept # Err => kept = SizeOf(kind, rep))'
  BY <1>1, <1>3
<1>7. QED
  BY <1>1, <1>5, <1>6 DEF AInv

(* What a step on the same container leaves of AInv *)
LEMMA SameContainer ==
  ASSUME AInv, UNCHANGED memory, fresh' = fresh, kept' = kept,
         answer'.what \in {"error", "text", "begin", "element", "no element", "aborted"}
  PROVE  AInv'
<1>1. /\ kind' = kind /\ rep' = rep /\ contents' = contents /\ room' = room /\ chars' = chars
      /\ intact' = intact /\ asserts' = asserts /\ changes' = changes
  BY DEF memory
<1>2. TypeOK'
  BY <1>1 DEF AInv, TypeOK
<1>3. QED
  BY <1>1, <1>2 DEF AInv

(* A pointer to characters leaves everything *)
LEMMA FormatPointerKeepsA == AInv /\ FormatPointer => AInv'
<1> SUFFICES ASSUME AInv, FormatPointer PROVE AInv'
  OBVIOUS
<1>1. UNCHANGED memory /\ fresh' = fresh /\ kept' = kept
  BY DEF FormatPointer
<1>2. answer'.what \in {"error", "text"}
  <2>1. CASE TextReadable(kind, rep)
    <3>1. answer' = [what |-> "text", text |-> ShownText(kind, rep)]
      BY <2>1 DEF FormatPointer
    <3>2. QED
      BY <3>1
  <2>2. CASE ~TextReadable(kind, rep)
    <3>1. answer' = [what |-> "error"]
      BY <2>2 DEF FormatPointer
    <3>2. QED
      BY <3>1
  <2>3. QED
    BY <2>1, <2>2
<1>3. QED
  BY <1>1, <1>2, SameContainer

(* What expanding a child answers *)
LEMMA Expanded ==
  ASSUME NEW idx, Expand(idx)
  PROVE  /\ UNCHANGED memory /\ fresh' = fresh /\ kept' = kept
         /\ kept # Err /\ idx < Len(Begins(kind)) + kept
         /\ \/ idx < Len(Begins(kind)) /\ answer'.what = "begin"
            \/ /\ ~(idx < Len(Begins(kind)))
               /\ \/ ~Assertion(kind, rep, ElementIndex(idx)) /\ answer'.what = "aborted"
                  \/ /\ Assertion(kind, rep, ElementIndex(idx))
                     /\ ElementFails(kind, rep, ElementIndex(idx))
                     /\ answer'.what = "no element" /\ answer'.at = idx
                  \/ /\ Assertion(kind, rep, ElementIndex(idx))
                     /\ ~ElementFails(kind, rep, ElementIndex(idx))
                     /\ answer'.what = "element" /\ answer'.at = idx
                     /\ answer'.address = ElementAt(kind, rep, ElementIndex(idx))
<1> DEFINE i == ElementIndex(idx)
           A == IF idx < Len(Begins(kind)) THEN [what |-> "begin", child |-> Begins(kind)[idx + 1]]
                ELSE IF ~Assertion(kind, rep, i) THEN [what |-> "aborted"]
                ELSE IF ElementFails(kind, rep, i) THEN [what |-> "no element", at |-> idx]
                ELSE [what |-> "element", at |-> idx, address |-> ElementAt(kind, rep, i)]
<1>1. /\ UNCHANGED memory /\ fresh' = fresh /\ kept' = kept
      /\ kept # Err /\ idx < Len(Begins(kind)) + kept /\ answer' = A
  BY DEF Expand
<1> HIDE DEF i
<1>2. \/ idx < Len(Begins(kind)) /\ A.what = "begin"
      \/ /\ ~(idx < Len(Begins(kind)))
         /\ \/ ~Assertion(kind, rep, i) /\ A.what = "aborted"
            \/ /\ Assertion(kind, rep, i) /\ ElementFails(kind, rep, i)
               /\ A.what = "no element" /\ A.at = idx
            \/ /\ Assertion(kind, rep, i) /\ ~ElementFails(kind, rep, i)
               /\ A.what = "element" /\ A.at = idx
               /\ A.address = ElementAt(kind, rep, i)
  <2>1. CASE idx < Len(Begins(kind))
    <3>1. A = [what |-> "begin", child |-> Begins(kind)[idx + 1]]
      BY <2>1
    <3> HIDE DEF A
    <3>2. QED
      BY <2>1, <3>1
  <2>2. CASE ~(idx < Len(Begins(kind))) /\ ~Assertion(kind, rep, i)
    <3>1. A = [what |-> "aborted"]
      BY <2>2
    <3> HIDE DEF A
    <3>2. QED
      BY <2>2, <3>1
  <2>3. CASE ~(idx < Len(Begins(kind))) /\ Assertion(kind, rep, i) /\ ElementFails(kind, rep, i)
    <3>1. A = [what |-> "no element", at |-> idx]
      BY <2>3
    <3> HIDE DEF A
    <3>2. QED
      BY <2>3, <3>1
  <2>4. CASE ~(idx < Len(Begins(kind))) /\ Assertion(kind, rep, i) /\ ~ElementFails(kind, rep, i)
    <3>1. A = [what |-> "element", at |-> idx, address |-> ElementAt(kind, rep, i)]
      BY <2>4
    <3> HIDE DEF A
    <3>2. QED
      BY <2>4, <3>1
  <2>5. QED
    BY Zenon, <2>1, <2>2, <2>3, <2>4
<1> HIDE DEF A
<1>3. QED
  BY Zenon, <1>1, <1>2 DEF i

(* Expanding a child leaves the container and the result *)
LEMMA ExpandKeepsA ==
  ASSUME AInv, NEW idx, Expand(idx)
  PROVE  AInv'
<1>1. UNCHANGED memory /\ fresh' = fresh /\ kept' = kept
  BY Zenon, Expanded
<1>2. answer'.what \in {"begin", "aborted", "element", "no element"}
  BY Expanded
<1>3. QED
  BY <1>1, <1>2, SameContainer

(* The library's changes *)
LEMMA ChangeKeepsA == AInv /\ Change => AInv'
<1> SUFFICES ASSUME AInv, Change PROVE AInv'
  OBVIOUS
<1>1. /\ kind' = kind /\ asserts' = asserts /\ kept' = kept /\ fresh' = FALSE
      /\ changes' = changes + 1 /\ changes < MaxChanges /\ answer' = NoAnswer
  BY DEF Change
<1>2. PICK m \in IntactOf(kind) : Contain(m)
  BY DEF Change
<1>3. /\ rep' = m.rep /\ contents' = m.contents /\ room' = m.room /\ intact' = TRUE
      /\ chars' = IF IsText(kind) THEN [i \in DOMAIN m.contents |-> 1] ELSE <<>>
  BY <1>2 DEF Contain
<1>4. kind \in Kinds
  BY DEF AInv, TypeOK
<1>5. FieldsOK(kind, m.rep) /\ m.contents \in Seq(Nat) /\ m.room \in Nat
  BY <1>2, <1>4, LibraryAgrees DEF Agrees
<1>6. IsText(kind) => Coded(chars', Len(m.contents))
  <2>1. Len(m.contents) \in Nat /\ DOMAIN m.contents = 1 .. Len(m.contents)
    BY <1>5
  <2>2. Coded([i \in 1 .. Len(m.contents) |-> 1], Len(m.contents))
    BY <2>1, CodedBytes
  <2>3. QED
    BY Zenon, <1>3, <2>1, <2>2
<1>7. chars' \in Seq(0 .. WideChars)
  <2>1. CASE IsText(kind)
    BY <1>6, <2>1 DEF Coded
  <2>2. CASE ~IsText(kind)
    BY <1>3, <2>2, EmptySeq
  <2>3. QED
    BY <2>1, <2>2
<1>8. TypeOK'
  <2>1. changes' \in 0 .. MaxChanges
    <3>1. changes \in 0 .. MaxChanges
      BY Zenon DEF AInv, TypeOK
    <3>2. QED
      BY <1>1, <3>1, ConstantTypes
  <2>2. answer'.what = "none"
    BY <1>1 DEF NoAnswer
  <2>3. QED
    BY <1>1, <1>3, <1>5, <1>7, <2>1, <2>2 DEF AInv, TypeOK
<1>9. FieldsOK(kind', rep')
  BY <1>1, <1>3, <1>5
<1>10. \E c \in IntactOf(kind') : rep' = c.rep /\ contents' = c.contents /\ room' = c.room
  BY <1>1, <1>2, <1>3
<1>11. IsText(kind') => Coded(chars', Len(contents'))
  BY <1>1, <1>3, <1>6
<1>12. QED
  BY <1>1, <1>8, <1>9, <1>10, <1>11 DEF AInv

(* Damage *)
LEMMA DamageKeepsA == AInv /\ Damage => AInv'
<1> SUFFICES ASSUME AInv, Damage PROVE AInv'
  OBVIOUS
<1>1. /\ kind' = kind /\ contents' = contents /\ room' = room /\ chars' = chars
      /\ asserts' = asserts /\ kept' = kept /\ fresh' = FALSE /\ intact' = FALSE
      /\ changes' = changes + 1 /\ changes < MaxChanges /\ answer' = NoAnswer
  BY DEF Damage
<1>2. PICK f \in DOMAIN rep \ {"es", "cs", "bits", "array", "alternate", "little", "map"} :
         \E v \in {0, 1, Radix - 1} \cup IF f = "byte" THEN {} ELSE {Unreadable - 1, Unreadable} :
            rep' = [rep EXCEPT ![f] = v]
  BY DEF Damage
<1>3. PICK v \in {0, 1, Radix - 1} \cup IF f = "byte" THEN {} ELSE {Unreadable - 1, Unreadable} :
            rep' = [rep EXCEPT ![f] = v]
  BY <1>2
<1>4. v \in Nat
  BY ConstantTypes
<1>5. FieldsOK(kind', rep')
  BY <1>1, <1>3, <1>4, DamageKeepsFields DEF AInv, TypeOK
<1>6. TypeOK'
  <2>1. changes' \in 0 .. MaxChanges
    <3>1. changes \in 0 .. MaxChanges
      BY Zenon DEF AInv, TypeOK
    <3>2. QED
      BY <1>1, <3>1, ConstantTypes
  <2>2. answer'.what = "none"
    BY <1>1 DEF NoAnswer
  <2>3. QED
    BY <1>1, <2>1, <2>2 DEF AInv, TypeOK
<1>7. QED
  BY <1>1, <1>5, <1>6 DEF AInv

(* A step of the next-state relation, or none, keeps AInv *)
LEMMA NextA == AInv /\ [Next]_vars => AInv'
<1> SUFFICES ASSUME AInv, [Next]_vars PROVE AInv'
  OBVIOUS
<1>1. CASE UNCHANGED vars
  BY <1>1 DEF vars, memory, AInv, TypeOK
<1>2. CASE \E idx \in 0 .. MaxSize + 3 : Expand(idx)
  BY <1>2, ExpandKeepsA
<1>3. QED
  BY <1>1, <1>2, FormatKeepsA, FormatPointerKeepsA, ChangeKeepsA, DamageKeepsA DEF Next

(* TypeOK: whatever the debuggee's memory holds, no size above             *)
(* max_container_size is kept or shown.                                    *)
THEOREM ArrayTypeCorrect == Spec => []TypeOK
<1>1. Init => AInv
  BY InitA
<1>2. AInv /\ [Next]_vars => AInv'
  BY NextA
<1>3. AInv => TypeOK
  BY DEF AInv
<1>4. QED
  BY <1>1, <1>2, <1>3, PTL DEF Spec

-----------------------------------------------------------------------------
(* Answers about intact containers *)

(* An intact container's sizes, capacities and elements, unless misread *)
LEMMA IntactFound ==
  ASSUME AInv, intact, ~Misread
  PROVE  /\ contents \in Seq(Nat) /\ room \in Nat
         /\ \/ SizeOf(kind, rep) = Len(contents)
            \/ /\ SizeOf(kind, rep) = Err /\ Len(contents) > MaxSize
               /\ kind # "stdcpp_deque"
         /\ HasCapacity(kind) =>
              \/ CapacityOf(kind, rep) = room
              \/ /\ kind = "cxx11_string" /\ rep.length < LocalBuffer
                 /\ CapacityOf(kind, rep) = LocalBuffer - 1
              \/ /\ kind = "libcxx_string" /\ rep.data # Local
                 /\ CapacityOf(kind, rep) = room + 1
         /\ ~HasCapacity(kind) => room = 0
         /\ \A i \in 0 .. Len(contents) - 1 :
                ElementAt(kind, rep, i) = contents[i + 1] /\ CanRead(kind, contents[i + 1])
         /\ kind = "stdcpp_deque" =>
                \A i \in Nat : i >= Len(contents) => ElementAt(kind, rep, i) = Err
         /\ IsText(kind) =>
                \E b \in Nat : /\ \A i \in 1 .. Len(contents) : contents[i] = b + (i - 1)
                               /\ kind = "zstring" => b = rep.data
<1>1. kind \in Kinds
  BY DEF AInv, TypeOK
<1>2. PICK m \in IntactOf(kind) : rep = m.rep /\ contents = m.contents /\ room = m.room
  BY DEF AInv
<1>3. Agrees(kind, m)
  BY <1>1, <1>2, LibraryAgrees
<1>4. ~Slips(kind, m.rep)
  BY <1>2 DEF Misread, Slips
<1>5. Found(kind, m) /\ contents \in Seq(Nat) /\ room \in Nat
  BY Zenon, <1>2, <1>3, <1>4 DEF Agrees
<1>6. QED
  BY Zenon, <1>2, <1>5 DEF Found

(* The characters to read, a natural number *)
LEMMA ReadTypes == CharsToRead \in Nat /\ MaxPrinted + 1 <= CharsToRead
<1>1. MaxPrinted \in Nat /\ WideChars \in Nat /\ WideChars >= 1
  BY ConstantTypes
<1>2. \A p \in Nat, w \in Nat : w >= 1 => p * w \in Nat /\ p <= p * w
  <2> TAKE p \in Nat, w \in Nat
  <2> HAVE w >= 1
  <2>1. p * w = p + p * (w - 1) /\ w - 1 \in Nat
    OBVIOUS
  <2> DEFINE v == w - 1
  <2> HIDE DEF v
  <2>2. p * v \in Nat
    BY <2>1 DEF v
  <2>3. QED
    BY <2>1, <2>2 DEF v
<1>3. QED
  BY <1>1, <1>2 DEF CharsToRead

(* A text is read up to its end, or as far as it is printed and a          *)
(* character more; the zero of a pointer's text is where it ends           *)
LEMMA TextMeasured ==
  ASSUME AInv, intact, ~Misread, IsText(kind), kind = "zstring" \/ SizeOf(kind, rep) # Err
  PROVE  /\ TextLength(kind, rep) = Least(Len(contents), CharsToRead)
         /\ Least(Len(contents), CharsToRead) \in Nat
         /\ Least(Len(contents), CharsToRead) <= Len(contents)
<1>1. Len(contents) \in Nat /\ contents \in Seq(Nat)
  BY IntactFound
<1>2. CharsToRead \in Nat
  BY ReadTypes
<1> DEFINE n == Len(contents)
<1>3. CASE kind # "zstring"
  <2>1. SizeOf(kind, rep) = n
    BY <1>3, IntactFound
  <2>2. TextLength(kind, rep) = Least(n, CharsToRead)
    BY <1>3, <2>1 DEF TextLength
  <2>3. QED
    BY <1>1, <1>2, <2>2 DEF Least
<1>4. CASE kind = "zstring"
  <2> DEFINE zeros == {i \in 0 .. CharsToRead - 1 : rep.data + i = contents[n] + 1}
  <2>1. TextLength(kind, rep) = IF contents = <<>> \/ zeros = {}
                                THEN IF contents = <<>> THEN 0 ELSE CharsToRead
                                ELSE CHOOSE i \in zeros : TRUE
    BY <1>4 DEF TextLength
  <2>2. CASE contents = <<>>
    <3>1. n = 0 /\ TextLength(kind, rep) = 0
      BY <2>1, <2>2
    <3>2. QED
      BY <1>2, <3>1 DEF Least
  <2>3. CASE contents # <<>>
    <3>1. n \in Nat \ {0}
      BY <1>1, <2>3
    <3>2. PICK b \in Nat : (\A i \in 1 .. n : contents[i] = b + (i - 1)) /\ b = rep.data
      BY <1>4, IntactFound
    <3>3. contents[n] = b + (n - 1)
      BY <3>1, <3>2
    <3>4. zeros = {i \in 0 .. CharsToRead - 1 : i = n}
      BY <1>2, <3>1, <3>2, <3>3
    <3> HIDE DEF zeros, n
    <3>5. CASE n \in 0 .. CharsToRead - 1
      <4>1. zeros = {n}
        BY <3>4, <3>5
      <4>2. TextLength(kind, rep) = n
        BY <2>1, <2>3, <4>1
      <4>3. QED
        BY <1>2, <3>1, <3>5, <4>2 DEF Least, n
    <3>6. CASE n \notin 0 .. CharsToRead - 1
      <4>1. zeros = {}
        BY <3>4, <3>6
      <4>2. TextLength(kind, rep) = CharsToRead
        BY <2>1, <2>3, <4>1
      <4>3. QED
        BY <1>2, <3>1, <3>6, <4>2 DEF Least, n
    <3>7. QED
      BY <3>5, <3>6
  <2>4. QED
    BY <2>2, <2>3
<1>5. QED
  BY <1>3, <1>4

(* All of it can be read *)
LEMMA TextCanBeRead ==
  ASSUME AInv, intact, ~Misread, IsText(kind), kind = "zstring" \/ SizeOf(kind, rep) # Err
  PROVE  TextReadable(kind, rep)
<1>1. Len(contents) \in Nat
  BY IntactFound
<1> DEFINE t == TextLength(kind, rep)
<1>2. t \in Nat /\ t <= Len(contents)
  BY TextMeasured
<1>3. ASSUME NEW i \in 0 .. t - 1 PROVE CanRead(kind, ElementAt(kind, rep, i))
  <2>1. i \in 0 .. Len(contents) - 1
    BY <1>1, <1>2, <1>3
  <2>2. QED
    BY <2>1, IntactFound
<1>4. QED
  BY <1>3 DEF TextReadable

(* Capacities are numbers, so that formatting an intact container fails    *)
(* for its size only                                                       *)
LEMMA IntactFormats ==
  ASSUME AInv, intact, ~Misread, kind # "zstring", FormatFails(kind, rep)
  PROVE  Len(contents) > MaxSize
<1>1. Len(contents) \in Nat /\ room \in Nat
  BY IntactFound
<1>2. CASE SizeOf(kind, rep) = Err
  <2>1. SizeOf(kind, rep) # Len(contents)
    BY <1>1, <1>2 DEF Err
  <2>2. QED
    BY <2>1, IntactFound
<1>3. CASE SizeOf(kind, rep) # Err
  <2>1. SizeOf(kind, rep) = Len(contents)
    BY <1>3, IntactFound
  <2>2. ~(HasCapacity(kind) /\ CapacityOf(kind, rep) = Err)
    <3>1. ASSUME HasCapacity(kind) PROVE CapacityOf(kind, rep) \in {room, LocalBuffer - 1, room + 1}
      BY <3>1, IntactFound
    <3>2. {room, LocalBuffer - 1, room + 1} \subseteq Nat
      BY <1>1, ConstantTypes
    <3>3. Err \notin Nat
      BY DEF Err
    <3>4. QED
      BY <3>1, <3>2, <3>3
  <2>3. ~(IsText(kind) /\ ~TextReadable(kind, rep))
    BY <1>3, TextCanBeRead
  <2>4. CheckSize(SizeOf(kind, rep))
    BY Zenon, <1>3, <2>2, <2>3 DEF FormatFails
  <2>5. QED
    BY <2>1, <2>4 DEF CheckSize
<1>4. QED
  BY <1>2, <1>3

(* What formatting answers *)
LEMMA Formatted ==
  ASSUME Format
  PROVE  /\ UNCHANGED memory /\ kind # "zstring"
         /\ \/ /\ FormatFails(kind, rep) /\ answer'.what = "error"
            \/ /\ ~FormatFails(kind, rep) /\ answer'.what = "format"
               /\ answer'.size = SizeOf(kind, rep)
               /\ answer'.capacity = (IF HasCapacity(kind) THEN CapacityOf(kind, rep) ELSE 0)
               /\ answer'.text = (IF IsText(kind) THEN ShownText(kind, rep) ELSE NoText)
<1>1. UNCHANGED memory /\ kind # "zstring"
  BY DEF Format
<1>2. CASE FormatFails(kind, rep)
  <2>1. answer' = [what |-> "error"]
    BY <1>2 DEF Format
  <2>2. QED
    BY <1>1, <1>2, <2>1
<1>3. CASE ~FormatFails(kind, rep)
  <2> DEFINE c == IF HasCapacity(kind) THEN CapacityOf(kind, rep) ELSE 0
             t == IF IsText(kind) THEN ShownText(kind, rep) ELSE NoText
  <2>1. answer' = [what |-> "format", size |-> SizeOf(kind, rep), capacity |-> c, text |-> t]
    BY <1>3 DEF Format
  <2> HIDE DEF c, t
  <2>2. /\ answer'.what = "format" /\ answer'.size = SizeOf(kind, rep)
        /\ answer'.capacity = c /\ answer'.text = t
    BY <2>1
  <2>3. QED
    BY Zenon, <1>1, <1>3, <2>2 DEF c, t
<1>4. QED
  BY Zenon, <1>2, <1>3

(* What formatting a pointer to characters answers *)
LEMMA PointerFormatted ==
  ASSUME FormatPointer
  PROVE  /\ UNCHANGED memory /\ kind = "zstring"
         /\ \/ /\ ~TextReadable(kind, rep) /\ answer'.what = "error"
            \/ /\ TextReadable(kind, rep) /\ answer'.what = "text"
               /\ answer'.text = ShownText(kind, rep)
<1>1. UNCHANGED memory /\ kind = "zstring"
  BY DEF FormatPointer
<1>2. CASE TextReadable(kind, rep)
  <2>1. answer' = [what |-> "text", text |-> ShownText(kind, rep)]
    BY <1>2 DEF FormatPointer
  <2>2. QED
    BY <1>1, <1>2, <2>1
<1>3. CASE ~TextReadable(kind, rep)
  <2>1. answer' = [what |-> "error"]
    BY <1>3 DEF FormatPointer
  <2>2. QED
    BY <1>1, <1>3, <2>1
<1>4. QED
  BY Zenon, <1>2, <1>3

(* A container that stays as it is stays misread, or does not *)
LEMMA SameMisread ==
  ASSUME UNCHANGED memory
  PROVE  Misread' <=> Misread
<1>1. kind' = kind /\ rep' = rep
  BY DEF memory
<1>2. QED
  BY <1>1 DEF Misread

(* A step of the next-state relation keeps SizesAgree *)
LEMMA NextSizes == AInv /\ SizesAgree /\ [Next]_vars => SizesAgree'
<1> SUFFICES ASSUME AInv, SizesAgree, [Next]_vars PROVE SizesAgree'
  OBVIOUS
<1>1. CASE UNCHANGED vars
  <2>1. UNCHANGED memory /\ answer' = answer
    BY <1>1 DEF vars
  <2>2. Misread' <=> Misread
    BY <2>1, SameMisread
  <2>3. QED
    BY <2>1, <2>2 DEF SizesAgree, memory
<1>2. ASSUME answer'.what \notin {"format", "error"} PROVE SizesAgree'
  BY <1>2 DEF SizesAgree
<1>3. CASE Format
  <2>1. UNCHANGED memory /\ kind # "zstring" /\ (Misread' <=> Misread)
    BY <1>3, Formatted, SameMisread
  <2>2. /\ kind' = kind /\ rep' = rep /\ contents' = contents /\ room' = room
        /\ intact' = intact
    BY <2>1 DEF memory
  <2>3. CASE ~(intact /\ ~Misread)
    BY <2>1, <2>2, <2>3 DEF SizesAgree
  <2>4. CASE intact /\ ~Misread /\ FormatFails(kind, rep)
    <3>1. answer'.what = "error"
      BY <1>3, <2>4, Formatted
    <3>2. Len(contents') > MaxSize
      BY <2>1, <2>2, <2>4, IntactFormats
    <3>3. QED
      BY <3>1, <3>2 DEF SizesAgree
  <2>5. CASE intact /\ ~Misread /\ ~FormatFails(kind, rep)
    <3>1. /\ answer'.what = "format" /\ answer'.size = SizeOf(kind, rep)
          /\ answer'.capacity = IF HasCapacity(kind) THEN CapacityOf(kind, rep) ELSE 0
      BY Zenon, <1>3, <2>5, Formatted
    <3>2. SizeOf(kind, rep) = Len(contents)
      BY <2>5, IntactFound DEF FormatFails
    <3>3. \/ answer'.capacity = room
          \/ /\ kind = "cxx11_string" /\ rep.length < LocalBuffer
             /\ answer'.capacity = LocalBuffer - 1
          \/ kind = "libcxx_string" /\ rep.data # Local /\ answer'.capacity = room + 1
      <4>1. CASE HasCapacity(kind)
        <5>1. answer'.capacity = CapacityOf(kind, rep)
          BY <3>1, <4>1
        <5>2. QED
          BY <2>5, <4>1, <5>1, IntactFound
      <4>2. CASE ~HasCapacity(kind)
        <5>1. answer'.capacity = 0 /\ room = 0
          BY <2>5, <3>1, <4>2, IntactFound
        <5>2. QED
          BY <5>1
      <4>3. QED
        BY <4>1, <4>2
    <3>4. QED
      BY <2>2, <3>1, <3>2, <3>3 DEF SizesAgree
  <2>6. QED
    BY <2>3, <2>4, <2>5
<1>4. CASE FormatPointer
  <2>1. UNCHANGED memory /\ kind = "zstring" /\ (Misread' <=> Misread)
    BY <1>4, PointerFormatted, SameMisread
  <2>2. intact' = intact
    BY <2>1 DEF memory
  <2>3. CASE intact /\ ~Misread
    <3>1. TextReadable(kind, rep)
      BY <2>1, <2>3, TextCanBeRead DEF IsText
    <3>2. answer'.what = "text"
      BY <1>4, <3>1, PointerFormatted
    <3>3. QED
      BY <1>2, <3>2
  <2>4. CASE ~(intact /\ ~Misread)
    BY <2>1, <2>2, <2>4 DEF SizesAgree
  <2>5. QED
    BY <2>3, <2>4
<1>5. CASE \E idx \in 0 .. MaxSize + 3 : Expand(idx)
  <2>1. answer'.what \in {"begin", "aborted", "element", "no element"}
    BY <1>5, Expanded
  <2>2. QED
    BY <1>2, <2>1
<1>6. CASE Change \/ Damage
  <2>1. answer' = NoAnswer
    BY <1>6 DEF Change, Damage
  <2>2. QED
    BY <1>2, <2>1 DEF NoAnswer
<1>7. QED
  BY <1>1, <1>3, <1>4, <1>5, <1>6 DEF Next

(* SizesAgree: an intact container's size and capacity are shown as the    *)
(* library has them, for every kind, number of elements, place of its      *)
(* blocks and size of its elements, and only a size above                  *)
(* max_container_size is refused.                                          *)
THEOREM ArraySizes == Spec => []SizesAgree
<1>1. Init => AInv /\ SizesAgree
  <2> SUFFICES ASSUME Init PROVE AInv /\ SizesAgree
    OBVIOUS
  <2>1. answer.what = "none"
    BY DEF Init, NoAnswer
  <2>2. QED
    BY <2>1, InitA DEF SizesAgree
<1>2. AInv /\ SizesAgree /\ [Next]_vars => (AInv /\ SizesAgree)'
  BY NextA, NextSizes
<1>3. QED
  BY <1>1, <1>2, PTL DEF Spec

(* The children before the elements are a number of them *)
LEMMA BeginsLength ==
  ASSUME NEW k
  PROVE  Len(Begins(k)) \in Nat
<1> DEFINE S == {"size", "capacity", "begin", "end"}
           c == IF HasCapacity(k) THEN <<"capacity">> ELSE <<>>
           b == IF k = "sub_match" THEN <<"begin", "end">> ELSE <<>>
<1>1. <<"size">> \in Seq(S) /\ c \in Seq(S) /\ b \in Seq(S)
  <2>1. \A x \in S, y \in S : <<>> \in Seq(S) /\ <<x>> \in Seq(S) /\ <<x, y>> \in Seq(S)
    <3> HIDE DEF S
    <3>1. QED
      OBVIOUS
  <2>2. <<>> \in Seq(S) /\ <<"size">> \in Seq(S) /\ <<"capacity">> \in Seq(S)
    BY <2>1
  <2>3. <<"begin", "end">> \in Seq(S)
    BY <2>1
  <2> HIDE DEF S
  <2>4. QED
    BY Zenon, <2>2, <2>3
<1>2. Begins(k) = <<"size">> \o c \o b
  BY DEF Begins
<1> HIDE DEF S, c, b
<1>3. Begins(k) \in Seq(S)
  BY <1>1, <1>2
<1>4. QED
  BY <1>3

(* What expanding a child past those of the proxies answers *)
LEMMA ElementExpanded ==
  ASSUME AInv, NEW idx \in Nat, Expand(idx), answer'.what # "begin"
  PROVE  \E i \in Nat :
            /\ i = ElementIndex(idx) /\ idx = i + Len(Begins(kind)) /\ i < kept /\ kept # Err
            /\ \/ ~Assertion(kind, rep, i) /\ answer'.what = "aborted"
               \/ /\ ElementFails(kind, rep, i)
                  /\ answer'.what = "no element" /\ answer'.at = idx
               \/ /\ ~ElementFails(kind, rep, i)
                  /\ answer'.what = "element" /\ answer'.at = idx
                  /\ answer'.address = ElementAt(kind, rep, i)
<1> DEFINE i == ElementIndex(idx)
           l == Len(Begins(kind))
<1>1. l \in Nat
  BY BeginsLength
<1>2. idx < l + kept /\ kept # Err /\ ~(idx < l)
  BY Zenon, Expanded
<1>3. kept \in Int
  <2>1. kept \in {Err} \cup 0 .. MaxSize
    BY DEF AInv, TypeOK
  <2>2. QED
    BY <2>1, ConstantTypes DEF Err
<1>4. i = idx - l
  BY DEF ElementIndex
<1>5. i \in Nat /\ idx = i + l /\ i < kept
  BY <1>1, <1>2, <1>3, <1>4
<1>6. \/ ~Assertion(kind, rep, i) /\ answer'.what = "aborted"
      \/ /\ ElementFails(kind, rep, i)
         /\ answer'.what = "no element" /\ answer'.at = idx
      \/ /\ ~ElementFails(kind, rep, i)
         /\ answer'.what = "element" /\ answer'.at = idx
         /\ answer'.address = ElementAt(kind, rep, i)
  BY Zenon, Expanded
<1>7. QED
  BY Zenon, <1>2, <1>5, <1>6

(* A step of the next-state relation keeps ElementsAgree *)
LEMMA NextElements == AInv /\ ElementsAgree /\ [Next]_vars => ElementsAgree'
<1> SUFFICES ASSUME AInv, ElementsAgree, [Next]_vars PROVE ElementsAgree'
  OBVIOUS
<1>1. CASE UNCHANGED vars
  <2>1. UNCHANGED memory /\ answer' = answer
    BY <1>1 DEF vars
  <2>2. Misread' <=> Misread
    BY <2>1, SameMisread
  <2>3. kind' = kind /\ contents' = contents /\ intact' = intact
    BY <2>1 DEF memory
  <2>4. Begins(kind)' = Begins(kind)
    BY <2>3
  <2>5. QED
    BY <2>1, <2>2, <2>3, <2>4 DEF ElementsAgree
<1>2. ASSUME answer'.what \notin {"element", "no element"} PROVE ElementsAgree'
  BY <1>2 DEF ElementsAgree
<1>3. CASE Format
  BY <1>2, <1>3, Formatted
<1>4. CASE FormatPointer
  BY <1>2, <1>4, PointerFormatted
<1>5. ASSUME NEW idx \in 0 .. MaxSize + 3, Expand(idx) PROVE ElementsAgree'
  <2>1. UNCHANGED memory /\ (Misread' <=> Misread) /\ idx \in Nat
    <3>1. UNCHANGED memory
      BY Zenon, <1>5, Expanded
    <3>2. QED
      BY <3>1, SameMisread, ConstantTypes
  <2>2. kind' = kind /\ contents' = contents /\ intact' = intact
    BY <2>1 DEF memory
  <2>3. Begins(kind)' = Begins(kind)
    BY <2>2
  <2>4. CASE ~(intact /\ ~Misread)
    BY <2>1, <2>2, <2>4 DEF ElementsAgree
  <2>5. CASE answer'.what = "begin"
    BY <1>2, <2>5
  <2>6. CASE intact /\ ~Misread /\ answer'.what # "begin"
    <3> DEFINE l == Len(Begins(kind))
               n == Len(contents)
    <3>1. l \in Nat /\ n \in Nat
      BY <2>6, BeginsLength, IntactFound
    <3>2. PICK i \in Nat :
            /\ i = ElementIndex(idx) /\ idx = i + l /\ i < kept /\ kept # Err
            /\ \/ ~Assertion(kind, rep, i) /\ answer'.what = "aborted"
               \/ /\ ElementFails(kind, rep, i)
                  /\ answer'.what = "no element" /\ answer'.at = idx
               \/ /\ ~ElementFails(kind, rep, i)
                  /\ answer'.what = "element" /\ answer'.at = idx
                  /\ answer'.address = ElementAt(kind, rep, i)
      BY Zenon, <1>5, <2>1, <2>6, ElementExpanded
    <3>3. i < n => ElementAt(kind, rep, i) = contents[i + 1] /\ CanRead(kind, contents[i + 1])
      <4>1. i < n => i \in 0 .. n - 1
        BY <3>1
      <4>2. QED
        BY <2>6, <4>1, IntactFound
    <3>4. (idx < l + n <=> i < n) /\ idx - l + 1 = i + 1 /\ (i >= n => idx >= l + n)
      <4>1. idx = i + l
        BY <3>2
      <4> HIDE DEF l, n
      <4>2. QED
        BY <3>1, <4>1
    <3>6. CASE answer'.what = "element"
      <4>1. answer'.at = idx /\ answer'.address = ElementAt(kind, rep, i)
        BY <3>2, <3>6
      <4>2. idx < l + n => answer'.address = contents[idx - l + 1]
        BY <3>3, <3>4, <4>1
      <4> HIDE DEF l, n
      <4>3. (answer.at < l + n => answer.address = contents[answer.at - l + 1])'
        BY <2>2, <2>3, <4>1, <4>2 DEF l, n
      <4>4. QED
        BY <3>6, <4>3 DEF ElementsAgree, l, n
    <3>7. CASE answer'.what = "no element"
      <4>1. answer'.at = idx /\ ElementFails(kind, rep, i)
        BY <3>2, <3>7
      <4>2. ~(kind = "stdcpp_deque" /\ asserts /\ SizeOf(kind, rep) = Err)
        <5>1. SizeOf(kind, rep) = n \/ kind # "stdcpp_deque"
          BY <2>6, IntactFound
        <5>2. n # Err
          BY <3>1 DEF Err
        <5>3. QED
          BY <5>1, <5>2
      <4>3. ~CanRead(kind, ElementAt(kind, rep, i))
        BY <4>1, <4>2 DEF ElementFails
      <4>4. idx >= l + n
        <5>1. ~(i < n)
          BY Zenon, <3>3, <4>3
        <5>2. i >= n => idx >= l + n
          BY Zenon, <3>4
        <5> HIDE DEF l, n
        <5>3. i >= n
          BY <3>1, <5>1
        <5>4. QED
          BY Zenon, <5>2, <5>3
      <4>5. (answer.at >= Len(Begins(kind)) + Len(contents))'
        BY <2>2, <2>3, <4>1, <4>4
      <4>6. QED
        BY <3>7, <4>5 DEF ElementsAgree
    <3>8. CASE answer'.what = "aborted"
      BY <1>2, <3>8
    <3>9. QED
      BY <3>2, <3>6, <3>7, <3>8
  <2>7. QED
    BY <2>4, <2>5, <2>6
<1>6. CASE Change \/ Damage
  <2>1. answer' = NoAnswer
    BY <1>6 DEF Change, Damage
  <2>2. QED
    BY <1>2, <2>1 DEF NoAnswer
<1>7. QED
  BY <1>1, <1>3, <1>4, <1>5, <1>6 DEF Next

(* ElementsAgree: child number i of an intact container is the element of  *)
(* number i, wherever the blocks of a vector, the nodes of a deque, the    *)
(* words of a bitset or the local buffer of a string lie and whatever the  *)
(* sizes of their elements; no element is left out.                        *)
THEOREM ArrayElements == Spec => []ElementsAgree
<1>1. Init => AInv /\ ElementsAgree
  <2> SUFFICES ASSUME Init PROVE AInv /\ ElementsAgree
    OBVIOUS
  <2>1. answer.what = "none"
    BY DEF Init, NoAnswer
  <2>2. QED
    BY <2>1, InitA DEF ElementsAgree
<1>2. AInv /\ ElementsAgree /\ [Next]_vars => (AInv /\ ElementsAgree)'
  BY NextA, NextElements
<1>3. QED
  BY <1>1, <1>2, PTL DEF Spec

(* A step of the next-state relation keeps DequeOutlivesResult *)
LEMMA NextDeques == AInv /\ DequeOutlivesResult /\ [Next]_vars => DequeOutlivesResult'
<1> SUFFICES ASSUME AInv, DequeOutlivesResult, [Next]_vars PROVE DequeOutlivesResult'
  OBVIOUS
<1>1. CASE UNCHANGED vars
  <2>1. UNCHANGED memory /\ answer' = answer /\ fresh' = fresh
    BY <1>1 DEF vars
  <2>2. Misread' <=> Misread
    BY <2>1, SameMisread
  <2>3. kind' = kind /\ contents' = contents /\ intact' = intact
    BY <2>1 DEF memory
  <2>4. QED
    BY <2>1, <2>2, <2>3 DEF DequeOutlivesResult
<1>2. ASSUME answer'.what \notin {"aborted", "element"} PROVE DequeOutlivesResult'
  BY <1>2 DEF DequeOutlivesResult
<1>3. CASE Format
  BY <1>2, <1>3, Formatted
<1>4. CASE FormatPointer
  BY <1>2, <1>4, PointerFormatted
<1>5. ASSUME NEW idx \in 0 .. MaxSize + 3, Expand(idx) PROVE DequeOutlivesResult'
  <2>1. UNCHANGED memory /\ (Misread' <=> Misread) /\ idx \in Nat /\ fresh' = fresh
    <3>1. UNCHANGED memory /\ fresh' = fresh
      BY Zenon, <1>5, Expanded
    <3>2. QED
      BY <3>1, SameMisread, ConstantTypes
  <2>2. kind' = kind /\ contents' = contents /\ intact' = intact
    BY <2>1 DEF memory
  <2>3. CASE kind # "stdcpp_deque"
    BY <2>2, <2>3 DEF DequeOutlivesResult
  <2>4. CASE answer'.what = "begin"
    BY <1>2, <2>4
  <2>5. CASE kind = "stdcpp_deque" /\ answer'.what # "begin"
    <3> DEFINE l == Len(Begins(kind))
    <3>1. PICK i \in Nat :
            /\ i = ElementIndex(idx) /\ idx = i + l /\ i < kept /\ kept # Err
            /\ \/ ~Assertion(kind, rep, i) /\ answer'.what = "aborted"
               \/ /\ ElementFails(kind, rep, i)
                  /\ answer'.what = "no element" /\ answer'.at = idx
               \/ /\ ~ElementFails(kind, rep, i)
                  /\ answer'.what = "element" /\ answer'.at = idx
                  /\ answer'.address = ElementAt(kind, rep, i)
      BY Zenon, <1>5, <2>1, <2>5, ElementExpanded
    <3>2. answer'.what = "aborted" => ~fresh'
      <4>1. SUFFICES ASSUME ~Assertion(kind, rep, i), fresh PROVE FALSE
        BY <2>1, <3>1
      <4>2. kept = SizeOf(kind, rep)
        BY <2>5, <3>1, <4>1 DEF AInv
      <4>3. i < SizeOf(kind, rep)
        BY <3>1, <4>2
      <4>4. QED
        BY <4>1, <4>3 DEF Assertion
    <3>3. ASSUME intact, ~Misread, answer'.what = "element"
          PROVE  \E j \in DOMAIN contents : contents[j] = answer'.address
      <4>1. ~ElementFails(kind, rep, i) /\ answer'.address = ElementAt(kind, rep, i)
        BY <3>1, <3>3
      <4>2. ElementAt(kind, rep, i) # Err
        BY <4>1 DEF ElementFails, CanRead
      <4>3. contents \in Seq(Nat) /\ Len(contents) \in Nat
        BY <3>3, IntactFound
      <4>4. i < Len(contents)
        <5>1. ~(i >= Len(contents))
          BY <2>5, <3>3, <4>2, IntactFound
        <5>2. QED
          BY <4>3, <5>1
      <4>5. i \in 0 .. Len(contents) - 1 /\ i + 1 \in DOMAIN contents
        BY <4>3, <4>4
      <4>6. ElementAt(kind, rep, i) = contents[i + 1]
        BY <3>3, <4>5, IntactFound
      <4>7. QED
        BY <4>1, <4>5, <4>6
    <3>4. QED
      BY <2>1, <2>2, <3>2, <3>3 DEF DequeOutlivesResult
  <2>6. QED
    BY <2>3, <2>4, <2>5
<1>6. CASE Change \/ Damage
  <2>1. answer' = NoAnswer
    BY <1>6 DEF Change, Damage
  <2>2. QED
    BY <1>2, <2>1 DEF NoAnswer
<1>7. QED
  BY <1>1, <1>3, <1>4, <1>5, <1>6 DEF Next

(* DequeOutlivesResult: the assertion of stdcpp_deque_formatter::element   *)
(* stops the debugger only after the debuggee has run, and a child of an   *)
(* intact deque is one of its elements, however old the result is.         *)
THEOREM DequeResults == Spec => []DequeOutlivesResult
<1>1. Init => AInv /\ DequeOutlivesResult
  <2> SUFFICES ASSUME Init PROVE AInv /\ DequeOutlivesResult
    OBVIOUS
  <2>1. answer.what = "none"
    BY DEF Init, NoAnswer
  <2>2. QED
    BY <2>1, InitA DEF DequeOutlivesResult
<1>2. AInv /\ DequeOutlivesResult /\ [Next]_vars => (AInv /\ DequeOutlivesResult)'
  BY NextA, NextDeques
<1>3. QED
  BY <1>1, <1>2, PTL DEF Spec

-----------------------------------------------------------------------------
(* The text shown of an intact string *)

(* Characters end where End says *)
LEMMA EndsAreEnd ==
  ASSUME chars \in Seq(0 .. WideChars), NEW e, Ends(chars, e)
  PROVE  \A c \in 0 .. Len(chars) : End[c] = e[c]
<1> DEFINE L == Len(chars)
           G(f, c) == IF c = 0 THEN 0 ELSE f[c - 1] + IF chars[c] = 0 THEN 1 ELSE chars[c]
<1>1. L \in Nat
  OBVIOUS
<1>2. DOMAIN e = 0 .. L /\ e[0] = 0 /\ \A c \in 1 .. L : e[c] = e[c - 1] + Width(chars[c])
  BY DEF Ends
<1>3. e = [c \in 0 .. L |-> e[c]]
  BY DEF Ends
<1>4. \A c \in 0 .. L : e[c] = G(e, c)
  BY <1>1, <1>2 DEF Width
<1>5. End = CHOOSE f : f = [c \in 0 .. L |-> G(f, c)]
  BY DEF End
<1> HIDE DEF G
<1>6. e = [c \in 0 .. L |-> G(e, c)]
  BY <1>3, <1>4
<1>7. End = [c \in 0 .. L |-> G(End, c)]
  <2>1. \E f : f = [c \in 0 .. L |-> G(f, c)]
    BY <1>6
  <2>2. QED
    BY <2>1, <1>5, Zenon
<1>8. \A c \in 0 .. L : End[c] = G(End, c)
  BY <1>7
<1> DEFINE T == {c \in 0 .. L : End[c] # e[c]}
<1> SUFFICES ASSUME T # {} PROVE FALSE
  OBVIOUS
<1>9. PICK c \in T : \A d \in T : c <= d
  <2>1. T \in SUBSET Nat
    OBVIOUS
  <2> HIDE DEF T
  <2>2. QED
    BY <2>1, Smallest
<1>10. c \in 0 .. L /\ End[c] # e[c] /\ End[c] = G(End, c) /\ e[c] = G(e, c)
  BY <1>4, <1>8, <1>9
<1>11. c # 0
  BY <1>10 DEF G
<1>12. c - 1 \in 0 .. L /\ ~(c <= c - 1)
  BY <1>10, <1>11
<1>13. End[c - 1] = e[c - 1]
  BY <1>9, <1>12
<1>14. QED
  BY <1>10, <1>11, <1>13 DEF G

(* No character takes more than WideChars bytes *)
LEMMA EndBounds ==
  ASSUME chars \in Seq(0 .. WideChars), NEW e, Ends(chars, e)
  PROVE  \A c \in 0 .. Len(chars) : e[c] \in Nat /\ e[c] <= c * WideChars
<1> DEFINE L == Len(chars)
           T == {c \in 0 .. L : ~(e[c] \in Nat /\ e[c] <= c * WideChars)}
<1>1. L \in Nat /\ WideChars \in Nat /\ WideChars >= 1
  BY ConstantTypes
<1>2. e[0] = 0 /\ (\A c \in 1 .. L : e[c] = e[c - 1] + Width(chars[c]))
  BY DEF Ends
<1>3. \A c \in 1 .. L : chars[c] \in 0 .. WideChars
  BY <1>1
<1> SUFFICES ASSUME T # {} PROVE FALSE
  OBVIOUS
<1>4. PICK c \in T : \A d \in T : c <= d
  <2>1. T \in SUBSET Nat
    OBVIOUS
  <2> HIDE DEF T
  <2>2. QED
    BY <2>1, Smallest
<1>5. c \in 0 .. L /\ ~(e[c] \in Nat /\ e[c] <= c * WideChars)
  BY <1>4
<1>6. c # 0
  BY <1>1, <1>2, <1>5
<1>7. c \in 1 .. L /\ c - 1 \in 0 .. L /\ ~(c <= c - 1)
  BY <1>1, <1>5, <1>6
<1>8. e[c - 1] \in Nat /\ e[c - 1] <= (c - 1) * WideChars
  BY <1>4, <1>7
<1> DEFINE w == Width(chars[c])
<1>9. w \in Nat /\ w <= WideChars
  BY <1>1, <1>3, <1>7 DEF Width
<1>10. e[c] = e[c - 1] + w
  BY <1>2, <1>7
<1>11. c * WideChars = (c - 1) * WideChars + WideChars
  BY <1>1, <1>7
<1>12. (c - 1) * WideChars \in Nat
  <2> DEFINE d == c - 1
  <2>1. d \in Nat
    BY <1>1, <1>7
  <2> HIDE DEF d
  <2>2. d * WideChars \in Nat
    BY <1>1, <2>1
  <2>3. QED
    BY <2>2 DEF d
<1> DEFINE q == (c - 1) * WideChars
           p == c * WideChars
<1>13. p = q + WideChars /\ q \in Nat /\ e[c - 1] <= q
  BY <1>8, <1>11, <1>12
<1>14. ~(e[c] \in Nat /\ e[c] <= p)
  BY <1>5
<1> HIDE DEF q, p, w
<1>15. QED
  BY <1>1, <1>8, <1>9, <1>10, <1>13, <1>14

(* Every byte read of an intact string is in its place *)
LEMMA BytesInPlace ==
  ASSUME AInv, intact, ~Misread, IsText(kind), kind = "zstring" \/ SizeOf(kind, rep) # Err
  PROVE  Bytes(kind, rep) = [i \in 1 .. Least(Len(contents), CharsToRead) |-> i]
<1> DEFINE n == Len(contents)
           t == Least(n, CharsToRead)
           Spot(i) == {j \in DOMAIN contents : contents[j] = ElementAt(kind, rep, i - 1)}
<1>1. TextLength(kind, rep) = t /\ t \in Nat /\ t <= n
  BY TextMeasured
<1>2. n \in Nat /\ contents \in Seq(Nat) /\ DOMAIN contents = 1 .. n
  BY IntactFound
<1>3. PICK b \in Nat : \A i \in 1 .. n : contents[i] = b + (i - 1)
  BY IntactFound
<1>4. Bytes(kind, rep) = [i \in 1 .. t |-> IF Spot(i) = {} THEN 0 ELSE CHOOSE j \in Spot(i) : TRUE]
  BY <1>1 DEF Bytes
<1> HIDE DEF t
<1>5. ASSUME NEW i \in 1 .. t PROVE Spot(i) = {i}
  <2>1. i \in 1 .. n /\ i - 1 \in 0 .. n - 1 /\ (i - 1) + 1 = i
    BY <1>1, <1>2
  <2>2. ElementAt(kind, rep, i - 1) = contents[i]
    BY <2>1, IntactFound
  <2>3. \A j \in 1 .. n : contents[j] = contents[i] => j = i
    <3> TAKE j \in 1 .. n
    <3>1. contents[j] = b + (j - 1) /\ contents[i] = b + (i - 1)
      BY <1>3, <2>1
    <3>2. QED
      BY <1>2, <2>1, <3>1
  <2>4. QED
    BY <1>2, <2>1, <2>2, <2>3
<1>6. \A i \in 1 .. t : (IF Spot(i) = {} THEN 0 ELSE CHOOSE j \in Spot(i) : TRUE) = i
  <2> TAKE i \in 1 .. t
  <2>1. Spot(i) = {i}
    BY <1>5
  <2> HIDE DEF Spot
  <2>2. QED
    BY <2>1
<1> HIDE DEF Spot
<1>7. QED
  BY <1>4, <1>6 DEF t

(* What is converted is whole: all of the characters, or more of them than *)
(* are printed                                                             *)
LEMMA ConvertedEnough ==
  ASSUME chars \in Seq(0 .. WideChars), \A c \in DOMAIN chars : chars[c] > 0,
         NEW e, Ends(chars, e), NEW t \in Nat,
         t = Least(e[Len(chars)], CharsToRead)
  PROVE  LET m == Converted([i \in 1 .. t |-> i]) IN
         /\ m \in 0 .. Len(chars)
         /\ \/ m = Len(chars) /\ End[m] = t
            \/ m < Len(chars) /\ m > MaxPrinted
<1> DEFINE L == Len(chars)
           bytes == [i \in 1 .. t |-> i]
           Right(m) == /\ \A c \in 1 .. m : chars[c] > 0
                       /\ \A p \in 1 .. End[m] : p \in DOMAIN bytes /\ bytes[p] = p
                       /\ m < L =>
                           \/ chars[m + 1] = 0
                           \/ \E p \in End[m] + 1 .. End[m + 1] : p \notin DOMAIN bytes \/ bytes[p] # p
           Fit(m) == End[m] <= t /\ (m < L => End[m + 1] > t)
<1>1. L \in Nat /\ DOMAIN chars = 1 .. L
  OBVIOUS
<1>2. \A c \in 0 .. L : End[c] = e[c] /\ End[c] \in Nat /\ End[c] <= c * WideChars
  BY EndsAreEnd, EndBounds
<1>3. ASSUME NEW m \in 0 .. L PROVE Right(m) <=> Fit(m)
  <2>1. End[m] \in Nat /\ \A c \in 1 .. m : chars[c] > 0
    BY <1>1, <1>2
  <2>2. (\A p \in 1 .. End[m] : p \in DOMAIN bytes /\ bytes[p] = p) <=> End[m] <= t
    <3>1. ASSUME End[m] <= t PROVE \A p \in 1 .. End[m] : p \in DOMAIN bytes /\ bytes[p] = p
      BY <2>1, <3>1
    <3>2. ASSUME ~(End[m] <= t) PROVE End[m] \in 1 .. End[m] /\ End[m] \notin DOMAIN bytes
      BY <2>1, <3>2
    <3>3. QED
      BY <3>1, <3>2
  <2>3. ASSUME m < L, End[m] <= t
        PROVE  (\/ chars[m + 1] = 0
                \/ \E p \in End[m] + 1 .. End[m + 1] : p \notin DOMAIN bytes \/ bytes[p] # p)
               <=> End[m + 1] > t
    <3>1. m + 1 \in 0 .. L /\ m + 1 \in 1 .. L
      BY <1>1, <2>3
    <3>2. End[m + 1] \in Nat /\ chars[m + 1] # 0
      BY <1>1, <1>2, <3>1
    <3>3. ASSUME End[m + 1] > t
          PROVE  End[m + 1] \in End[m] + 1 .. End[m + 1] /\ End[m + 1] \notin DOMAIN bytes
      BY <2>1, <2>3, <3>2, <3>3
    <3>4. ASSUME ~(End[m + 1] > t), NEW p \in End[m] + 1 .. End[m + 1]
          PROVE  p \in DOMAIN bytes /\ bytes[p] = p
      BY <2>1, <3>2, <3>4
    <3>5. QED
      BY <3>2, <3>3, <3>4
  <2>4. QED
    BY <2>1, <2>2, <2>3
<1>4. Converted(bytes) = CHOOSE m \in 0 .. L : Right(m)
  BY DEF Converted
<1>5. CharsToRead \in Nat
  BY ReadTypes
<1>6. e[L] \in Nat /\ e[0] = 0 /\ End[0] = 0 /\ End[L] = e[L] /\ t <= e[L]
  <2>1. L \in 0 .. L /\ 0 \in 0 .. L
    BY <1>1
  <2>2. End[L] = e[L] /\ End[L] \in Nat /\ End[0] = e[0] /\ e[0] = 0
    BY <1>2, <2>1 DEF Ends
  <2> HIDE DEF L
  <2>3. QED
    BY <1>5, <2>2 DEF Least, L
<1> HIDE DEF Right
<1>7. \E m \in 0 .. L : Fit(m)
  <2>1. CASE e[L] <= t
    <3>1. L \in 0 .. L /\ Fit(L)
      BY <1>1, <1>6, <2>1
    <3> HIDE DEF Fit
    <3>2. QED
      BY <3>1
  <2>2. CASE ~(e[L] <= t)
    <3> DEFINE T == {c \in 0 .. L : End[c] > t}
    <3>1. L \in T
      BY <1>1, <1>6, <2>2
    <3>2. T \in SUBSET Nat
      OBVIOUS
    <3>3. PICK c \in T : \A d \in T : c <= d
      <4> HIDE DEF T
      <4>1. QED
        BY <3>1, <3>2, Smallest
    <3>4. c \in 0 .. L /\ End[c] > t /\ c # 0
      BY <1>6, <3>3
    <3>5. c - 1 \in 0 .. L /\ ~(c <= c - 1) /\ (c - 1) + 1 = c
      BY <1>1, <3>4
    <3>6. End[c - 1] <= t
      <4>1. c - 1 \notin T
        BY <3>3, <3>5
      <4>2. End[c - 1] \in Nat
        BY <1>2, <3>5
      <4>3. QED
        BY <3>5, <4>1, <4>2
    <3>7. Fit(c - 1)
      BY <3>4, <3>5, <3>6
    <3> HIDE DEF Fit
    <3>8. QED
      BY <3>5, <3>7
  <2>3. QED
    BY <2>1, <2>2
<1> DEFINE m == Converted(bytes)
<1>8. m \in 0 .. L /\ Right(m)
  <2> HIDE DEF Fit, bytes, L
  <2>1. \E x \in 0 .. L : Right(x)
    BY <1>3, <1>7
  <2>2. QED
    BY Zenon, <1>4, <2>1
<1>9. Fit(m)
  <2> HIDE DEF Fit, bytes, L
  <2>1. QED
    BY <1>3, <1>8
<1>10. m < L => m > MaxPrinted
  <2> SUFFICES ASSUME m < L PROVE m > MaxPrinted
    OBVIOUS
  <2> HIDE DEF m, bytes
  <2>1. m + 1 \in 0 .. L /\ m \in Nat /\ L \in 0 .. L
    BY <1>1, <1>8
  <2>2. End[m + 1] > t /\ End[m + 1] = e[m + 1] /\ End[m + 1] <= (m + 1) * WideChars
        /\ End[m + 1] \in Nat
    BY <1>2, <1>9, <2>1
  <2>3. e[m + 1] <= e[L]
    <3>1. e[m + 1] + (L - (m + 1)) <= e[L] /\ m + 1 <= L
      BY <2>1 DEF Ends
    <3>2. QED
      BY <1>1, <1>6, <2>1, <2>2, <3>1
  <2>4. t = CharsToRead
    <3> HIDE DEF L
    <3>1. QED
      BY <1>5, <1>6, <2>2, <2>3 DEF Least, L
  <2>5. (m + 1) * WideChars > (MaxPrinted + 1) * WideChars
    <3> DEFINE x == (m + 1) * WideChars
    <3>1. x \in Nat
      BY <2>1, ConstantTypes
    <3> HIDE DEF x
    <3>2. x > CharsToRead
      BY <1>5, <2>2, <2>4, <3>1 DEF x
    <3>3. QED
      BY <3>2 DEF x, CharsToRead
  <2>6. \A a, b, w \in Nat : a * w > b * w => a > b
    <3> TAKE a, b, w \in Nat
    <3>1. CASE a <= b
      <4>1. PICK d \in Nat : b = a + d
        BY <3>1
      <4>2. b * w = a * w + d * w /\ d * w \in Nat /\ a * w \in Nat /\ b * w \in Nat
        BY <4>1
      <4>3. QED
        BY <4>2
    <3>2. QED
      BY <3>1
  <2>7. m + 1 > MaxPrinted + 1
    BY <2>1, <2>5, <2>6, ConstantTypes
  <2>8. QED
    BY <2>1, <2>7, ConstantTypes
<1>11. m = L => End[m] = t
  <2> HIDE DEF m, bytes
  <2>1. m = L => End[m] <= t /\ End[m] = e[L]
    BY <1>6, <1>9
  <2>2. QED
    BY <1>6, <2>1
<1>12. m = L \/ m < L
  <2>1. \A x \in 0 .. L : x = L \/ x < L
    <3>1. L \in Nat
      BY <1>1
    <3> HIDE DEF L
    <3>2. QED
      BY <3>1
  <2>2. QED
    BY Zenon, <1>8, <2>1
<1>13. QED
  <2> HIDE DEF Fit
  <2>1. QED
    BY <1>8, <1>10, <1>11, <1>12

(* An intact string's text is shown *)
LEMMA TextShown ==
  ASSUME AInv, intact, ~Misread, IsText(kind), kind = "zstring" \/ SizeOf(kind, rep) # Err,
         \A c \in DOMAIN chars : chars[c] > 0
  PROVE  ShownText(kind, rep) =
            [printed |-> [c \in 1 .. Least(Len(chars), MaxPrinted) |-> <<"char", c>>],
             cut     |-> Len(chars) > MaxPrinted]
<1> DEFINE L == Len(chars)
           t == Least(Len(contents), CharsToRead)
           bytes == [i \in 1 .. t |-> i]
           m == Converted(bytes)
           raw == Len(bytes) - End[m]
           more == IF m > MaxPrinted THEN 0 ELSE Least(raw, MaxPrinted + 1 - m)
           front == [c \in 1 .. m |-> <<"char", c>>]
           back == [i \in 1 .. more |-> <<"byte", bytes[End[m] + i]>>]
<1>1. chars \in Seq(0 .. WideChars) /\ \E e : Ends(chars, e) /\ e[Len(chars)] = Len(contents)
  BY DEF AInv, Coded
<1>2. t \in Nat /\ Bytes(kind, rep) = bytes /\ L \in Nat
  BY Zenon, <1>1, TextMeasured, BytesInPlace, LenProperties
<1>3. m \in 0 .. L /\ ((m = L /\ End[m] = t) \/ (m < L /\ m > MaxPrinted))
  <2>1. PICK e : Ends(chars, e) /\ e[Len(chars)] = Len(contents)
    BY <1>1
  <2>2. t = Least(e[Len(chars)], CharsToRead)
    BY <2>1
  <2> HIDE DEF t
  <2>3. QED
    BY Zenon, <1>1, <1>2, <2>1, <2>2, ConvertedEnough
<1>4. ShownText(kind, rep) = [printed |-> Printed(front \o back), cut |-> Cut(front \o back)]
  <2>1. WideText(bytes) = front \o back
    BY DEF WideText
  <2> HIDE DEF front, back, bytes
  <2>2. QED
    BY <1>2, <2>1 DEF ShownText
<1>5. Len(bytes) = t
  <2> HIDE DEF t
  <2>1. QED
    BY <1>2
<1> HIDE DEF bytes, m
<1>6. more = 0
  <2>1. CASE m < L /\ m > MaxPrinted
    BY <2>1
  <2>2. CASE m = L /\ End[m] = t
    <3>1. raw = 0
      <4> HIDE DEF t
      <4>1. QED
        BY <1>2, <1>5, <2>2
    <3>2. more = IF L > MaxPrinted THEN 0 ELSE Least(0, MaxPrinted + 1 - L)
      BY <2>2, <3>1
    <3> HIDE DEF more, L
    <3>3. QED
      BY <1>2, <3>2, ConstantTypes DEF Least
  <2>3. QED
    BY <1>3, <2>1, <2>2
<1>7. front \o back = front
  <2>1. back = <<>>
    BY <1>6
  <2> HIDE DEF back
  <2> DEFINE S == {front[c] : c \in 1 .. m}
  <2>2. front \in Seq(S)
    <3>1. m \in Nat
      BY <1>2, <1>3
    <3>2. front = [c \in 1 .. m |-> front[c]]
      OBVIOUS
    <3> HIDE DEF front
    <3>3. \A c \in 1 .. m : front[c] \in S
      OBVIOUS
    <3> HIDE DEF S
    <3>4. QED
      BY <3>1, <3>2, <3>3
  <2>3. front \o <<>> = front
    <3> HIDE DEF front, S
    <3>1. QED
      BY <2>2
  <2>4. QED
    BY <2>1, <2>3
<1>8. Printed(front) = [c \in 1 .. Least(L, MaxPrinted) |-> <<"char", c>>]
      /\ (Cut(front) <=> L > MaxPrinted)
  <2>1. Len(front) = m /\ m \in Nat
    BY <1>2, <1>3
  <2>2. Least(m, MaxPrinted) = Least(L, MaxPrinted) /\ (m > MaxPrinted <=> L > MaxPrinted)
    <3> HIDE DEF L
    <3>1. QED
      BY <1>2, <1>3, ConstantTypes DEF Least
  <2> DEFINE k == Least(m, MaxPrinted)
  <2>3. k \in 0 .. m
    BY <2>1, ConstantTypes DEF Least
  <2>4. SubSeq(front, 1, k) = [c \in 1 .. k |-> front[c]]
    <3> HIDE DEF k, front
    <3>1. QED
      BY <2>1, <2>3
  <2>5. \A c \in 1 .. k : front[c] = <<"char", c>>
    <3> HIDE DEF k
    <3>1. QED
      BY <2>1, <2>3
  <2>6. SubSeq(front, 1, k) = [c \in 1 .. k |-> <<"char", c>>]
    <3> HIDE DEF k, front
    <3>1. QED
      BY <2>4, <2>5
  <2> HIDE DEF front
  <2>7. QED
    BY <2>1, <2>2, <2>6 DEF Printed, Cut
<1> HIDE DEF front, back, L
<1>9. Cut(front) = (L > MaxPrinted)
  BY <1>8 DEF Cut
<1>10. QED
  BY <1>4, <1>7, <1>8, <1>9 DEF L

(* A step of the next-state relation keeps TextAgrees *)
LEMMA NextText == AInv /\ TextAgrees /\ [Next]_vars => TextAgrees'
<1> SUFFICES ASSUME AInv, TextAgrees, [Next]_vars PROVE TextAgrees'
  OBVIOUS
<1>1. CASE UNCHANGED vars
  <2>1. UNCHANGED memory /\ answer' = answer
    BY <1>1 DEF vars
  <2>2. Misread' <=> Misread
    BY <2>1, SameMisread
  <2>3. QED
    BY <2>1, <2>2 DEF TextAgrees, memory
<1>2. ASSUME answer'.what \notin {"format", "text"} PROVE TextAgrees'
  BY <1>2 DEF TextAgrees
<1>3. ASSUME UNCHANGED memory, intact, ~Misread, IsText(kind), \A c \in DOMAIN chars : chars[c] > 0
      PROVE  IsText(kind)' /\ chars' = chars
  BY <1>3 DEF memory
<1>4. ASSUME UNCHANGED memory,
             intact /\ ~Misread /\ IsText(kind) /\ (\A c \in DOMAIN chars : chars[c] > 0)
                => answer'.text = ShownText(kind, rep)
                   /\ (kind = "zstring" \/ SizeOf(kind, rep) # Err)
      PROVE  TextAgrees'
  <2>1. (Misread' <=> Misread) /\ kind' = kind /\ chars' = chars /\ intact' = intact
    BY <1>4, SameMisread DEF memory
  <2>2. IsText(kind)' <=> IsText(kind)
    BY <2>1
  <2>3. CASE intact /\ ~Misread /\ IsText(kind) /\ \A c \in DOMAIN chars : chars[c] > 0
    <3>1. answer'.text =
            [printed |-> [c \in 1 .. Least(Len(chars), MaxPrinted) |-> <<"char", c>>],
             cut     |-> Len(chars) > MaxPrinted]
      BY <1>4, <2>3, TextShown
    <3>2. QED
      BY <2>1, <3>1 DEF TextAgrees
  <2>4. CASE ~(intact /\ ~Misread /\ IsText(kind) /\ \A c \in DOMAIN chars : chars[c] > 0)
    BY <2>1, <2>2, <2>4 DEF TextAgrees
  <2>5. QED
    BY <2>3, <2>4
<1>5. CASE Format
  <2>1. UNCHANGED memory
    BY <1>5, Formatted
  <2>2. CASE FormatFails(kind, rep)
    <3>1. answer'.what = "error"
      BY <1>5, <2>2, Formatted
    <3>2. QED
      BY <1>2, <3>1
  <2>3. CASE ~FormatFails(kind, rep)
    <3>1. answer'.text = IF IsText(kind) THEN ShownText(kind, rep) ELSE NoText
      BY Zenon, <1>5, <2>3, Formatted
    <3>2. SizeOf(kind, rep) # Err
      BY <2>3 DEF FormatFails
    <3>3. QED
      BY <1>4, <2>1, <3>1, <3>2
  <2>4. QED
    BY <2>2, <2>3
<1>6. CASE FormatPointer
  <2>1. UNCHANGED memory /\ kind = "zstring"
    BY <1>6, PointerFormatted
  <2>2. CASE ~TextReadable(kind, rep)
    <3>1. answer'.what = "error"
      BY <1>6, <2>2, PointerFormatted
    <3>2. QED
      BY <1>2, <3>1
  <2>3. CASE TextReadable(kind, rep)
    <3>1. answer'.text = ShownText(kind, rep)
      BY Zenon, <1>6, <2>3, PointerFormatted
    <3>2. QED
      BY <1>4, <2>1, <3>1
  <2>4. QED
    BY <2>2, <2>3
<1>7. CASE \E idx \in 0 .. MaxSize + 3 : Expand(idx)
  <2>1. answer'.what \in {"begin", "aborted", "element", "no element"}
    BY <1>7, Expanded
  <2>2. QED
    BY <1>2, <2>1
<1>8. CASE Change \/ Damage
  <2>1. answer' = NoAnswer
    BY <1>8 DEF Change, Damage
  <2>2. QED
    BY <1>2, <2>1 DEF NoAnswer
<1>9. QED
  BY <1>1, <1>5, <1>6, <1>7, <1>8 DEF Next

(* TextAgrees: however many bytes each of its characters takes, the text   *)
(* of an intact string or pointer is shown up to max_printed_chars whole   *)
(* characters, in order, and marked as cut when there are more: as many    *)
(* bytes are read as those characters and one more can take.               *)
THEOREM TextWhole == Spec => []TextAgrees
<1>1. Init => AInv /\ TextAgrees
  <2> SUFFICES ASSUME Init PROVE AInv /\ TextAgrees
    OBVIOUS
  <2>1. answer.what = "none"
    BY DEF Init, NoAnswer
  <2>2. QED
    BY <2>1, InitA DEF TextAgrees
<1>2. AInv /\ TextAgrees /\ [Next]_vars => (AInv /\ TextAgrees)'
  BY NextA, NextText
<1>3. QED
  BY <1>1, <1>2, PTL DEF Spec
=============================================================================
