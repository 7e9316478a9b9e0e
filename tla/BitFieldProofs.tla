--------------------------- MODULE BitFieldProofs ---------------------------
(***************************************************************************)
(* Proofs about BitField, for every set of sizes and however many bytes    *)
(* can be read.                                                            *)
(***************************************************************************)
EXTENDS BitField, FiniteSetTheorems, FunctionTheorems, TLAPS

(* Where the loop is, in either byte order *)
LoopOK ==
    /\ field \in Field
    /\ IsBitField(field)
    /\ pc \in {"first", "middle", "read", "done", "error"}
    /\ i \in Nat
    /\ i <= Middle

(* Bits 0 .. n - 1 of the word hold the n bits of the record from o on *)
Run(o, n) == {<<k, o + k>> : k \in 0 .. n - 1}

(* In a little endian debuggee the word grows from its lowest bit *)
LittleOK ==
    field.little /\ ~ShortStraddles =>
        /\ pc = "first"  => i = 0
        /\ pc = "middle" => shift = First + 8 * i /\ res = Run(field.off, shift)
        /\ pc = "read"   => res = Run(field.off, field.bits)

LIInv == LoopOK /\ LittleOK /\ FieldReadsBack /\ NoSpuriousError

(* What the sizes computed before the loop add up to *)
LEMMA Sizes ==
  ASSUME NEW b \in 1 .. 64, NEW o \in 0 .. 7
  PROVE  /\ FirstSize(b, o) \in 1 .. 8 /\ MiddleSize(b, o) \in 0 .. 7 /\ LastSize(b, o) \in 0 .. 7
         /\ o + b <= 8 => /\ FirstSize(b, o) = b
                          /\ MiddleSize(b, o) = 0 /\ LastSize(b, o) = 0
         /\ o + b > 8 => FirstSize(b, o) = 8 - o
         /\ ~(b <= 8 /\ o + b > 8)
              => FirstSize(b, o) + 8 * MiddleSize(b, o) + LastSize(b, o) = b
         /\ o + 8 * MiddleSize(b, o) <= o + b
         /\ MiddleSize(b, o) > 0 \/ LastSize(b, o) # 0
              => 8 * (MiddleSize(b, o) + 1) + LastSize(b, o) <= o + b
<1>1. CASE o + b <= 8
  <2>1. FirstSize(b, o) = b
    BY <1>1 DEF FirstSize
  <2>2. BytesSize(b, o) = 1
    BY <2>1 DEF BytesSize
  <2>3. MiddleSize(b, o) = 0 /\ LastSize(b, o) = 0
    BY <1>1, <2>2 DEF MiddleSize, LastSize
  <2>4. QED
    BY <1>1, <2>1, <2>3
<1>2. CASE o + b > 8
  <2>1. FirstSize(b, o) = 8 - o
    BY <1>2 DEF FirstSize
  <2> DEFINE left == b - (8 - o)
  <2>2. left \in 1 .. 63 /\ b = left + (8 - o)
    BY <1>2
  <2>3. BytesSize(b, o) = 1 + (left \div 8) + (IF left % 8 # 0 THEN 1 ELSE 0)
    BY <2>1 DEF BytesSize
  <2> HIDE DEF left
  <2>4. /\ left \div 8 \in 0 .. 7 /\ left % 8 \in 0 .. 7
        /\ left = 8 * (left \div 8) + (left % 8)
    BY <2>2
  <2>5. MiddleSize(b, o) = left \div 8
    <3>1. BytesSize(b, o) # 1
      BY <2>2, <2>3, <2>4
    <3>2. MiddleSize(b, o) = BytesSize(b, o) - 1 - (IF left % 8 # 0 THEN 1 ELSE 0)
      BY <3>1 DEF MiddleSize, left
    <3>3. QED
      BY <2>3, <2>4, <3>2
  <2>6. LastSize(b, o) = IF b > 8 THEN left % 8 ELSE 0
    BY DEF LastSize, left
  <2>7. QED
    BY <1>2, <2>1, <2>2, <2>4, <2>5, <2>6
<1>3. QED
  BY <1>1, <1>2

(* The first n bits of byte k are the record's bits that follow the run of *)
(* s bits from o on; with them the run has t bits                          *)
Continues(o, s, n, t, k) ==
    /\ o \in Nat /\ s \in Nat /\ n \in Nat /\ k \in Nat
    /\ t = s + n /\ t <= Word
    /\ 8 * k = o + s

(* Putting the next bits of the record above a run makes the run longer *)
LEMMA PlaceByte ==
  ASSUME NEW o, NEW s, NEW n, NEW t, NEW k, Continues(o, s, n, t, k)
  PROVE  Run(o, s) \cup Place(k, 0, n, s) = Run(o, t)
<1>0. o \in Nat /\ s \in Nat /\ n \in Nat /\ k \in Nat /\ t = s + n /\ t <= Word /\ 8 * k = o + s
  BY DEF Continues
<1>1. ASSUME NEW p \in Place(k, 0, n, s)
      PROVE  p \in Run(o, t)
  <2>1. PICK j \in 0 .. n - 1 : p = <<s + j, 8 * k + 0 + j>>
    BY DEF Place
  <2>2. s + j \in 0 .. t - 1 /\ 8 * k + 0 + j = o + (s + j)
    BY <1>0
  <2>3. p = <<s + j, o + (s + j)>>
    BY <2>1, <2>2
  <2>4. QED
    BY <2>2, <2>3 DEF Run
<1>2. ASSUME NEW q \in 0 .. t - 1
      PROVE  <<q, o + q>> \in Run(o, s) \cup Place(k, 0, n, s)
  <2>1. CASE q < s
    <3>1. q \in 0 .. s - 1
      BY <1>0, <2>1
    <3>2. QED
      BY <3>1 DEF Run
  <2>2. CASE q >= s
    <3> DEFINE j == q - s
    <3>1. j \in 0 .. n - 1 /\ s + j < Word /\ s + j = q /\ 8 * k + 0 + j = o + q
      BY <1>0, <2>2 DEF Word
    <3> HIDE DEF j
    <3>2. <<s + j, 8 * k + 0 + j>> \in Place(k, 0, n, s)
      BY <3>1 DEF Place
    <3>3. QED
      BY <3>1, <3>2
  <2>3. QED
    BY <1>0, <2>1, <2>2
<1>3. Run(o, s) \subseteq Run(o, t)
  BY <1>0 DEF Run
<1>4. \A p \in Run(o, t) : \E q \in 0 .. t - 1 : p = <<q, o + q>>
  BY DEF Run
<1>5. QED
  BY <1>1, <1>2, <1>3, <1>4

(* The same sizes, for the field that is read *)
LEMMA FieldSizes ==
  ASSUME LoopOK
  PROVE  /\ field.bits \in 1 .. 64 /\ field.off \in 0 .. 7 /\ field.size \in {1, 2, 4, 8}
         /\ field.readable \in Nat /\ field.signed \in BOOLEAN
         /\ field.bits <= 8 * field.size
         /\ First \in 1 .. 8 /\ Middle \in 0 .. 7 /\ Last \in 0 .. 7
         /\ field.off + field.bits > 8 => First = 8 - field.off
         /\ field.off + field.bits <= 8 => Middle = 0 /\ Last = 0 /\ First = field.bits
         /\ ~ShortStraddles => First + 8 * Middle + Last = field.bits
         /\ Middle > 0 \/ Last # 0 => 8 * (Middle + 1) + Last <= field.off + field.bits
<1>1. /\ field.bits \in 1 .. 64 /\ field.off \in 0 .. 7 /\ field.size \in {1, 2, 4, 8}
      /\ field.readable \in Nat /\ field.signed \in BOOLEAN
      /\ field.bits <= 8 * field.size
  BY SizesAssumption DEF LoopOK, Field, IsBitField
<1>2. QED
  BY <1>1, Sizes DEF First, Middle, Last, ShortStraddles

(* A field is about to be read: nothing has been placed in the word *)
LEMMA LoopInit == Init => LIInv
<1> SUFFICES ASSUME Init PROVE LIInv
  OBVIOUS
<1>1. field \in Field /\ IsBitField(field) /\ pc = "first" /\ i = 0
  BY DEF Init
<1>2. Middle \in Nat
  <2>1. field.bits \in 1 .. 64 /\ field.off \in 0 .. 7
    BY <1>1, SizesAssumption DEF Field
  <2>2. MiddleSize(field.bits, field.off) \in 0 .. 7
    BY <2>1, Sizes, Zenon
  <2>3. QED
    BY <2>2 DEF Middle
<1>3. LoopOK
  BY <1>1, <1>2 DEF LoopOK
<1>4. QED
  BY <1>1, <1>3 DEF LIInv, LittleOK, FieldReadsBack, NoSpuriousError

(* No step of the loop goes beyond the middle bytes *)
LEMMA LoopStep == LoopOK /\ [Next]_vars => LoopOK'
<1> SUFFICES ASSUME LoopOK, [Next]_vars PROVE LoopOK'
  OBVIOUS
<1>1. Middle \in Nat
  BY FieldSizes
<1>2. field' = field => Middle' = Middle
  BY DEF Middle
<1>3. QED
  BY <1>1, <1>2 DEF LoopOK, Next, vars, ReadFirst, ReadMiddle, ReadLast, NoLast, ReadFails, MakeValue

(* The byte a failing read asks for holds a bit of the field *)
LEMMA FailStep ==
  ASSUME LoopOK, NoSpuriousError, [Next]_vars
  PROVE  NoSpuriousError'
<1>1. CASE ReadFails
  <2>1. Pending /\ NextByte >= field.readable /\ field' = field
    BY <1>1, FieldSizes DEF ReadFails, ReadOK, NextByte, LoopOK
  <2>2. /\ field.bits \in 1 .. 64 /\ field.off \in 0 .. 7 /\ field.readable \in Nat
        /\ Middle \in 0 .. 7 /\ Last \in 0 .. 7 /\ i \in Nat /\ i <= Middle
        /\ Middle > 0 \/ Last # 0 => 8 * (Middle + 1) + Last <= field.off + field.bits
    BY FieldSizes DEF LoopOK
  <2>3. CASE pc = "first"
    <3>1. field.readable = 0
      BY <2>1, <2>2, <2>3 DEF NextByte
    <3>2. QED
      BY <2>1, <2>2, <3>1 DEF NoSpuriousError
  <2>4. CASE pc # "first"
    <3>1. NextByte = i + 1 /\ (i < Middle \/ Last # 0)
      BY <2>1, <2>4 DEF Pending, NextByte
    <3>2. 8 * (i + 1) < field.off + field.bits
      BY <2>2, <3>1
    <3>3. QED
      BY <2>1, <2>2, <3>1, <3>2 DEF NoSpuriousError
  <2>5. QED
    BY <2>3, <2>4
<1>2. CASE ~ReadFails
  <2>1. pc' = "error" => pc = "error" /\ field' = field
    BY <1>2 DEF Next, vars, ReadFirst, ReadMiddle, ReadLast, NoLast, MakeValue
  <2>2. QED
    BY <2>1 DEF NoSpuriousError
<1>3. QED
  BY <1>1, <1>2

(* Each byte of a little endian field lands right above the run read so far *)
LEMMA LittleStep ==
  ASSUME LoopOK, LittleOK, [Next]_vars
  PROVE  LittleOK'
<1>0. field' = field /\ First' = First /\ Middle' = Middle /\ Last' = Last
      /\ (ShortStraddles' <=> ShortStraddles)
  BY DEF Next, vars, ReadFirst, ReadMiddle, ReadLast, NoLast, ReadFails, MakeValue,
         First, Middle, Last, ShortStraddles
<1> SUFFICES ASSUME field.little, ~ShortStraddles
             PROVE  /\ pc' = "first"  => i' = 0
                    /\ pc' = "middle" => shift' = First + 8 * i' /\ res' = Run(field.off, shift')
                    /\ pc' = "read"   => res' = Run(field.off, field.bits)
  BY <1>0, Zenon DEF LittleOK
<1>1. /\ pc = "first"  => i = 0
      /\ pc = "middle" => shift = First + 8 * i /\ res = Run(field.off, shift)
      /\ pc = "read"   => res = Run(field.off, field.bits)
  BY DEF LittleOK
<1>2. /\ field.bits \in 1 .. 64 /\ field.off \in 0 .. 7 /\ i \in Nat /\ i <= Middle
      /\ First \in 1 .. 8 /\ Middle \in 0 .. 7 /\ Last \in 0 .. 7
      /\ field.off + field.bits > 8 => First = 8 - field.off
      /\ field.off + field.bits <= 8 => Middle = 0 /\ Last = 0
      /\ First + 8 * Middle + Last = field.bits
  BY FieldSizes DEF LoopOK
<1>3. CASE ReadFirst
  <2>1. res' = Place(0, field.off, First, 0) /\ shift' = First /\ pc' = "middle" /\ i' = 0
    BY <1>1, <1>3 DEF ReadFirst
  <2>2. {j \in 0 .. First - 1 : 0 + j < Word} = 0 .. First - 1
    BY <1>2 DEF Word
  <2>3. Place(0, field.off, First, 0) = Run(field.off, First)
    BY <1>2, <2>2 DEF Place, Run
  <2>4. QED
    BY <1>2, <2>1, <2>3
<1>4. CASE ReadMiddle
  <2> DEFINE k == i + 1
             t == shift + 8
  <2>1. /\ pc = "middle" /\ i < Middle /\ pc' = "middle" /\ i' = i + 1 /\ shift' = t
        /\ res' = res \cup Place(k, 0, 8, shift)
    BY <1>4 DEF ReadMiddle, NextByte
  <2>2. Continues(field.off, shift, 8, t, k)
    BY <1>1, <1>2, <2>1 DEF Word, Continues
  <2>3. t = First + 8 * i'
    BY <1>1, <1>2, <2>1
  <2> HIDE DEF k, t
  <2>4. Run(field.off, shift) \cup Place(k, 0, 8, shift) = Run(field.off, t)
    BY <2>2, PlaceByte, SMT
  <2>5. QED
    BY <1>1, <2>1, <2>3, <2>4
<1>5. CASE ReadLast
  <2> DEFINE k == i + 1
             n == Last
             t == field.bits
  <2>1. /\ pc = "middle" /\ i = Middle /\ pc' = "read" /\ n # 0
        /\ res' = res \cup Place(k, 0, n, shift)
    BY <1>5 DEF ReadLast, NextByte
  <2>2. Continues(field.off, shift, n, t, k)
    BY <1>1, <1>2, <2>1 DEF Word, Continues
  <2> HIDE DEF k, n, t
  <2>3. Run(field.off, shift) \cup Place(k, 0, n, shift) = Run(field.off, t)
    BY <2>2, PlaceByte, SMT
  <2>4. QED
    BY <1>1, <2>1, <2>3 DEF t
<1>6. CASE NoLast
  <2>1. pc = "middle" /\ i = Middle /\ pc' = "read" /\ Last = 0 /\ res' = res
    BY <1>6 DEF NoLast
  <2>2. shift = field.bits
    BY <1>1, <1>2, <2>1
  <2>3. QED
    BY <1>1, <2>1, <2>2
<1>7. CASE ReadFails \/ MakeValue
  BY <1>7 DEF ReadFails, MakeValue
<1>8. CASE UNCHANGED vars
  BY <1>1, <1>8 DEF vars
<1>9. QED
  BY <1>3, <1>4, <1>5, <1>6, <1>7, <1>8 DEF Next

(* Extending and storing the word keeps its bits in order *)
LEMMA ValueStep ==
  ASSUME LoopOK, LittleOK, FieldReadsBack, [Next]_vars
  PROVE  FieldReadsBack'
<1>1. CASE MakeValue
  <2> DEFINE o == field.off
             b == field.bits
             top == {<<r, o + b - 1>> : r \in b .. Word - 1}
             w == IF field.signed THEN SignExtended(res, b) ELSE res
  <2>1. /\ pc = "read" /\ field' = field
        /\ value' = ReadBack(w, field.size, field.little)
    BY <1>1 DEF MakeValue
  <2> SUFFICES ASSUME field.little, ~ShortStraddles
               PROVE  value' = {<<r, o + r>> : r \in 0 .. b - 1}
                        \cup {<<r, o + b - 1>> :
                                r \in IF field.signed THEN b .. 8 * field.size - 1 ELSE {}}
    BY <2>1 DEF FieldReadsBack, ShortStraddles
  <2>2. b \in 1 .. 64 /\ o \in 0 .. 7 /\ field.size \in {1, 2, 4, 8} /\ b <= 8 * field.size
        /\ field.signed \in BOOLEAN
    BY FieldSizes
  <2>3. res = {<<r, o + r>> : r \in 0 .. b - 1}
    BY <2>1 DEF LittleOK, Run
  <2> HIDE DEF o, b
  <2>4. SignExtended(res, b) = res \cup top
    <3>1. {p \in res : p[1] = b - 1} = {<<b - 1, o + b - 1>>}
      BY <2>2, <2>3
    <3>2. {<<r, p[2]>> : r \in b .. Word - 1, p \in {<<b - 1, o + b - 1>>}} = top
      OBVIOUS
    <3>3. QED
      BY <3>1, <3>2 DEF SignExtended
  <2>5. ReadBack(w, field.size, field.little) = {q \in w : q[1] < 8 * field.size}
    <3>1. \A q \in w : q = <<q[1], q[2]>>
      BY <2>3, <2>4
    <3> HIDE DEF w
    <3>2. QED
      BY <3>1 DEF ReadBack
  <2>6. CASE field.signed
    <3>1. w = {<<r, o + r>> : r \in 0 .. b - 1} \cup top
      BY <2>3, <2>4, <2>6
    <3> HIDE DEF w
    <3>2. {q \in w : q[1] < 8 * field.size}
            = {<<r, o + r>> : r \in 0 .. b - 1} \cup {<<r, o + b - 1>> : r \in b .. 8 * field.size - 1}
      BY <2>2, <3>1 DEF Word
    <3>3. QED
      BY <2>1, <2>5, <2>6, <3>2
  <2>7. CASE ~field.signed
    <3>1. w = {<<r, o + r>> : r \in 0 .. b - 1}
      BY <2>3, <2>7
    <3> HIDE DEF w
    <3>2. {q \in w : q[1] < 8 * field.size} = w
      BY <2>2, <3>1
    <3>3. QED
      BY <2>1, <2>5, <2>7, <3>1, <3>2
  <2>8. QED
    BY <2>6, <2>7
<1>2. CASE ~MakeValue
  <2>1. pc' = "done" => pc = "done" /\ field' = field /\ value' = value
    BY <1>2 DEF Next, vars, ReadFirst, ReadMiddle, ReadLast, NoLast, ReadFails
  <2>2. QED
    BY <2>1 DEF FieldReadsBack, ShortStraddles
<1>3. QED
  BY <1>1, <1>2

(* The inductive invariant holds in every state *)
LEMMA LoopInductive == Spec => []LIInv
<1>1. LIInv /\ [Next]_vars => LIInv'
  BY LoopStep, FailStep, LittleStep, ValueStep DEF LIInv
<1>2. QED
  BY <1>1, LoopInit, PTL DEF Spec

-----------------------------------------------------------------------------
(* The value of a bit-field of a little endian debuggee is its bits in     *)
(* order, extended as its type says, whatever its size and place (but for  *)
(* the short fields that cross a byte).                                    *)
THEOREM FieldsReadBack == Spec => []FieldReadsBack
BY LoopInductive, PTL DEF LIInv

(* No bit-field read asks for a byte the field does not reach, however     *)
(* many bytes are readable.                                                *)
THEOREM NoByteTooMany == Spec => []NoSpuriousError
BY LoopInductive, PTL DEF LIInv

-----------------------------------------------------------------------------
(* Both byte orders.  A word that pairs A with B: each place in A holds    *)
(* one bit, and the bits are those of B.                                   *)
Pairs(w, A, B) ==
    /\ \A p \in w : p = <<p[1], p[2]>> /\ p[1] \in A /\ p[2] \in B
    /\ \A a \in A : \E p \in w : p[1] = a
    /\ \A b \in B : \E p \in w : p[2] = b
    /\ \A p, q \in w : p[1] = q[1] => p = q

(* How many bits of the field have been read after i bytes of the loop *)
Got == First + 8 * i

(* The shift goes up from the first byte's bits in a little endian         *)
(* debuggee, and down to 0 in a big endian one                             *)
ShiftOK ==
    /\ pc = "first" => i = 0 /\ shift = 0 /\ res = {}
    /\ pc = "middle" =>
         shift = IF field.little THEN Got
                 ELSE IF i < Middle THEN 8 * (Middle - 1 - i) + Last ELSE 0

(* The places filled so far are one interval, at the word's low end or at  *)
(* the field's high end                                                    *)
Filled == IF field.little THEN 0 .. Got - 1 ELSE field.bits - Got .. field.bits - 1

FilledOnce ==
    ~ShortStraddles =>
        /\ pc = "middle" => Pairs(res, Filled, field.off .. field.off + Got - 1)
        /\ pc = "read"   => Pairs(res, 0 .. field.bits - 1,
                                  field.off .. field.off + field.bits - 1)

(* Every bit of the words is inside them *)
RangeOK ==
    /\ res \subseteq (0 .. Word - 1) \X (0 .. Word + 7)
    /\ value \subseteq (0 .. Word - 1) \X (0 .. Word + 7)
    /\ shift \in 0 .. Word

(* A short field that crosses a byte has no middle and no last byte *)
LEMMA StraddleSizes ==
  ASSUME LoopOK, ShortStraddles
  PROVE  Middle = 0 /\ Last = 0 /\ First < field.bits
<1>1. field.bits \in 1 .. 8 /\ field.off \in 0 .. 7 /\ field.off + field.bits > 8
  BY FieldSizes DEF ShortStraddles
<1>2. First = 8 - field.off
  BY <1>1, FieldSizes
<1> DEFINE left == field.bits - (8 - field.off)
<1>3. left \in 1 .. 7
  BY <1>1
<1>4. BytesSize(field.bits, field.off) = 1 + (left \div 8) + (IF left % 8 # 0 THEN 1 ELSE 0)
  BY <1>2 DEF BytesSize, First
<1> HIDE DEF left
<1>5. left \div 8 = 0 /\ left % 8 = left
  BY <1>3
<1>6. BytesSize(field.bits, field.off) = 2
  BY <1>3, <1>4, <1>5
<1>7. Middle = 0
  BY <1>3, <1>5, <1>6 DEF Middle, MiddleSize, left
<1>8. Last = 0
  BY <1>1 DEF Last, LastSize
<1>9. QED
  BY <1>1, <1>2, <1>7, <1>8

(* Where the shift is: never at 64 or above while a byte is to be read *)
LEMMA ShiftStep ==
  ASSUME LoopOK, ShiftOK, [Next]_vars
  PROVE  ShiftOK'
<1>0. field' = field /\ First' = First /\ Middle' = Middle /\ Last' = Last
  BY DEF Next, vars, ReadFirst, ReadMiddle, ReadLast, NoLast, ReadFails, MakeValue,
         First, Middle, Last
<1>1. /\ field.bits \in 1 .. 64 /\ field.off \in 0 .. 7 /\ i \in Nat /\ i <= Middle
      /\ First \in 1 .. 8 /\ Middle \in 0 .. 7 /\ Last \in 0 .. 7
      /\ ~ShortStraddles => First + 8 * Middle + Last = field.bits
      /\ field.off + field.bits > 8 => First = 8 - field.off
  BY FieldSizes DEF LoopOK
<1>2. CASE ReadFirst
  <2>1. pc' = "middle" /\ i' = 0
    BY <1>2 DEF ReadFirst, ShiftOK
  <2>2. shift' = IF field.little THEN First ELSE StepDown(field.bits - First)
    BY <1>2 DEF ReadFirst
  <2>3. ~ShortStraddles => field.bits - First = 8 * Middle + Last
    BY <1>1
  <2>4. ShortStraddles => Middle = 0 /\ field.bits - First \in 1 .. 7
    BY <1>1, StraddleSizes DEF ShortStraddles
  <2>5. StepDown(field.bits - First)
          = IF 0 < Middle THEN 8 * (Middle - 1 - 0) + Last ELSE 0
    BY <1>1, <2>3, <2>4 DEF StepDown
  <2>6. QED
    BY <1>0, <1>1, <2>1, <2>2, <2>5 DEF ShiftOK, Got
<1>3. CASE ReadMiddle
  <2>1. pc = "middle" /\ pc' = "middle" /\ i' = i + 1 /\ i < Middle
        /\ shift' = IF field.little THEN shift + 8 ELSE StepDown(shift)
    BY <1>3 DEF ReadMiddle
  <2>2. shift = IF field.little THEN First + 8 * i ELSE 8 * (Middle - 1 - i) + Last
    BY <2>1 DEF ShiftOK, Got
  <2>3. ~field.little => shift' = IF i + 1 < Middle THEN 8 * (Middle - 1 - (i + 1)) + Last ELSE 0
    BY <1>1, <2>1, <2>2 DEF StepDown
  <2>4. field.little => shift' = First + 8 * (i + 1)
    BY <1>1, <2>1, <2>2
  <2>5. QED
    BY <1>0, <2>1, <2>3, <2>4 DEF ShiftOK, Got
<1>4. CASE ReadLast \/ NoLast \/ ReadFails \/ MakeValue
  BY <1>4 DEF ReadLast, NoLast, ReadFails, MakeValue, ShiftOK
<1>5. CASE UNCHANGED vars
  <2>1. pc' = pc /\ i' = i /\ shift' = shift /\ res' = res
    BY <1>5 DEF vars
  <2>2. QED
    BY <1>0, <2>1 DEF ShiftOK, Got
<1>6. QED
  BY <1>2, <1>3, <1>4, <1>5 DEF Next

(* What the byte about to be read adds: n bits at the shift.  Each is      *)
(* inside the word and the record's bits it comes from are the next ones.  *)
LEMMA ByteFits ==
  ASSUME LoopOK, ShiftOK, pc = "middle", NEW n \in 1 .. 8,
         \/ i < Middle /\ n = 8
         \/ i = Middle /\ Last # 0 /\ n = Last
  PROVE  /\ shift \in Nat /\ shift + n <= Word /\ i + 1 \in 1 .. 8
         /\ 8 * (i + 1) = field.off + Got /\ Got \in Nat
         /\ shift = IF field.little THEN Got ELSE field.bits - Got - n
         /\ ~ShortStraddles /\ Got + n <= field.bits
<1>1. /\ field.bits \in 1 .. 64 /\ field.off \in 0 .. 7 /\ i \in Nat /\ i <= Middle
      /\ First \in 1 .. 8 /\ Middle \in 0 .. 7 /\ Last \in 0 .. 7
      /\ field.off + field.bits > 8 => First = 8 - field.off
      /\ field.off + field.bits <= 8 => Middle = 0 /\ Last = 0
      /\ ~ShortStraddles => First + 8 * Middle + Last = field.bits
  BY FieldSizes DEF LoopOK
<1>2. ~ShortStraddles
  BY <1>1, StraddleSizes
<1>3. shift = IF field.little THEN Got ELSE IF i < Middle THEN 8 * (Middle - 1 - i) + Last ELSE 0
  BY DEF ShiftOK
<1>4. First = 8 - field.off /\ Got = First + 8 * i /\ Got \in Nat
  BY <1>1 DEF Got
<1>5. field.bits = First + 8 * Middle + Last
  BY <1>1, <1>2
<1>6. CASE i < Middle
  <2>1. n = 8
    BY <1>6, <1>1
  <2>2. shift = IF field.little THEN Got ELSE 8 * (Middle - 1 - i) + Last
    BY <1>3, <1>6
  <2>3. QED
    BY <1>1, <1>2, <1>4, <1>5, <1>6, <2>1, <2>2 DEF Word
<1>7. CASE i = Middle
  <2>1. n = Last
    BY <1>7, <1>1
  <2>2. shift = IF field.little THEN Got ELSE 0
    BY <1>1, <1>3, <1>7
  <2>3. n = Last /\ n \in 1 .. 7 /\ shift \in Nat
    BY <1>1, <1>4, <2>1, <2>2
  <2>4. Got = First + 8 * Middle /\ Got + n = field.bits /\ field.bits - Got - n = 0
    BY <1>1, <1>4, <1>5, <1>7, <2>1
  <2>5. 8 * (i + 1) = field.off + Got /\ i + 1 \in 1 .. 8
    BY <1>1, <1>4
  <2>6. shift = IF field.little THEN Got ELSE field.bits - Got - n
    BY <2>2, <2>4
  <2>7. shift + n <= Word /\ Got + n <= field.bits
    <3>1. Got + n <= 64 /\ Got + n <= field.bits
      BY <1>1, <2>4
    <3>2. shift <= Got
      BY <1>4, <2>2
    <3>3. QED
      BY <1>4, <2>3, <3>1, <3>2 DEF Word
  <2>8. QED
    BY <1>2, <1>4, <2>3, <2>5, <2>6, <2>7
<1>8. QED
  BY <1>1, <1>6, <1>7

(* The bits of one byte are paired with the places they are put in *)
LEMMA PlacePairs ==
  ASSUME NEW k \in Nat, NEW from \in Nat, NEW n \in Nat, NEW s \in Nat, s + n <= Word
  PROVE  Pairs(Place(k, from, n, s), s .. s + n - 1, 8 * k + from .. 8 * k + from + n - 1)
<1> DEFINE w == Place(k, from, n, s)
           e == 8 * k + from
<1>1. \A p \in w : \E j \in 0 .. n - 1 : p = <<s + j, e + j>>
  BY DEF Place
<1>2. \A j \in 0 .. n - 1 : <<s + j, e + j>> \in w
  BY DEF Place, Word
<1>3. e \in Nat
  OBVIOUS
<1> HIDE DEF w, e
<1>4. \A p \in w : p = <<p[1], p[2]>> /\ p[1] \in s .. s + n - 1 /\ p[2] \in e .. e + n - 1
  BY <1>1, <1>3
<1>5. ASSUME NEW a \in s .. s + n - 1 PROVE \E p \in w : p[1] = a
  <2>1. a - s \in 0 .. n - 1 /\ s + (a - s) = a
    OBVIOUS
  <2>2. <<a, e + (a - s)>> \in w
    BY <1>2, <2>1
  <2>3. QED
    BY <2>2
<1>6. ASSUME NEW b \in e .. e + n - 1 PROVE \E p \in w : p[2] = b
  <2>1. b - e \in 0 .. n - 1 /\ e + (b - e) = b
    BY <1>3
  <2>2. <<s + (b - e), b>> \in w
    BY <1>2, <2>1
  <2>3. QED
    BY <2>2
<1>7. ASSUME NEW p \in w, NEW q \in w, p[1] = q[1] PROVE p = q
  <2>1. PICK j \in 0 .. n - 1 : p = <<s + j, e + j>>
    BY <1>1
  <2>2. PICK l \in 0 .. n - 1 : q = <<s + l, e + l>>
    BY <1>1
  <2>3. j = l
    BY <1>7, <2>1, <2>2
  <2>4. QED
    BY <2>1, <2>2, <2>3
<1>8. QED
  BY <1>4, <1>5, <1>6, <1>7 DEF Pairs, w, e

(* Bytes put in different places keep theirs *)
LEMMA UnionPairs ==
  ASSUME NEW v, NEW w, NEW A, NEW B, NEW C, NEW D,
         Pairs(v, A, B), Pairs(w, C, D), A \cap C = {}
  PROVE  Pairs(v \cup w, A \cup C, B \cup D)
<1>1. \A p \in v \cup w : p = <<p[1], p[2]>> /\ p[1] \in A \cup C /\ p[2] \in B \cup D
  BY Zenon DEF Pairs
<1>2. \A a \in A \cup C : \E p \in v \cup w : p[1] = a
  BY DEF Pairs
<1>3. \A b \in B \cup D : \E p \in v \cup w : p[2] = b
  BY DEF Pairs
<1>4. \A p, q \in v \cup w : p[1] = q[1] => p = q
  BY DEF Pairs
<1>5. QED
  BY <1>1, <1>2, <1>3, <1>4, Zenon DEF Pairs

(* Every byte fills the places next to those filled before *)
LEMMA FilledStep ==
  ASSUME LoopOK, ShiftOK, FilledOnce, [Next]_vars
  PROVE  FilledOnce'
<1>0. field' = field /\ First' = First /\ Middle' = Middle /\ Last' = Last
      /\ (ShortStraddles' <=> ShortStraddles)
  BY DEF Next, vars, ReadFirst, ReadMiddle, ReadLast, NoLast, ReadFails, MakeValue,
         First, Middle, Last, ShortStraddles
<1> SUFFICES ASSUME ~ShortStraddles
             PROVE  /\ pc' = "middle" => Pairs(res', Filled', field.off .. field.off + Got' - 1)
                    /\ pc' = "read" => Pairs(res', 0 .. field.bits - 1,
                                             field.off .. field.off + field.bits - 1)
  BY <1>0, Zenon DEF FilledOnce
<1>1. /\ field.bits \in 1 .. 64 /\ field.off \in 0 .. 7 /\ i \in Nat /\ i <= Middle
      /\ First \in 1 .. 8 /\ Middle \in 0 .. 7 /\ Last \in 0 .. 7
      /\ field.off + field.bits > 8 => First = 8 - field.off
      /\ field.off + field.bits <= 8 => Middle = 0 /\ Last = 0
      /\ First + 8 * Middle + Last = field.bits
  BY FieldSizes DEF LoopOK
<1>2. CASE ReadFirst
  <2> DEFINE s == IF field.little THEN 0 ELSE field.bits - First
             o == field.off
  <2>1. res' = Place(0, o, First, s) /\ pc' = "middle" /\ i' = 0
    BY <1>2 DEF ReadFirst, ShiftOK
  <2>2. s \in Nat /\ s + First <= Word /\ o \in Nat /\ First \in Nat
    BY SMTT(30), <1>1 DEF Word
  <2>3. Got' = First
    BY <1>0, <1>1, <2>1 DEF Got
  <2>4. Filled' = s .. s + First - 1
    BY <1>0, <1>1, <2>3 DEF Filled
  <2> HIDE DEF s
  <2>5. Pairs(res', s .. s + First - 1, 8 * 0 + o .. 8 * 0 + o + First - 1)
    BY <2>1, <2>2, PlacePairs
  <2>6. 8 * 0 + o = o
    BY <2>2
  <2>7. QED
    BY <2>1, <2>3, <2>4, <2>5, <2>6
<1>3. ASSUME NEW n \in 1 .. 8, pc = "middle", res' = res \cup Place(i + 1, 0, n, shift),
             \/ i < Middle /\ n = 8
             \/ i = Middle /\ Last # 0 /\ n = Last
      PROVE  Pairs(res', IF field.little THEN 0 .. Got + n - 1
                         ELSE field.bits - (Got + n) .. field.bits - 1,
                   field.off .. field.off + (Got + n) - 1)
  <2>1. /\ shift \in Nat /\ shift + n <= Word /\ i + 1 \in 1 .. 8
        /\ 8 * (i + 1) = field.off + Got /\ Got \in Nat
        /\ shift = IF field.little THEN Got ELSE field.bits - Got - n
        /\ Got + n <= field.bits
    BY <1>3, ByteFits
  <2> DEFINE k == i + 1
             g == Got
             b == field.bits
             o == field.off
             placed == shift .. shift + n - 1
  <2>2. Pairs(Place(k, 0, n, shift), placed, 8 * k + 0 .. 8 * k + 0 + n - 1)
    <3>1. k \in Nat /\ n \in Nat /\ shift + n <= Word /\ shift \in Nat /\ 0 \in Nat
      BY <2>1
    <3> HIDE DEF k
    <3>2. QED
      BY <3>1, PlacePairs
  <2>3. Pairs(res, Filled, o .. o + g - 1)
    BY <1>3 DEF FilledOnce
  <2>4. o \in Nat /\ b \in Nat /\ g \in Nat /\ g + n <= b /\ 8 * k = o + g /\ shift \in Nat
    <3>1. o \in Nat /\ b \in Nat
      BY <1>1
    <3>2. QED
      BY <2>1, <3>1
  <2>11. shift = IF field.little THEN g ELSE b - g - n
    BY <2>1
  <2>5. Filled = IF field.little THEN 0 .. g - 1 ELSE b - g .. b - 1
    BY DEF Filled
  <2> HIDE DEF k, g, b, o
  <2>6. Filled \cap placed = {}
    BY <2>4, <2>5, <2>11
  <2>7. Pairs(res', Filled \cup placed, (o .. o + g - 1) \cup (8 * k + 0 .. 8 * k + 0 + n - 1))
    BY <1>3, <2>2, <2>3, <2>6, UnionPairs DEF k
  <2>8. Filled \cup placed = IF field.little THEN 0 .. g + n - 1 ELSE b - (g + n) .. b - 1
    <3>1. CASE field.little
      BY <2>4, <2>5, <2>11, <3>1
    <3>2. CASE ~field.little
      BY <2>4, <2>5, <2>11, <3>2
    <3>3. QED
      BY <3>1, <3>2
  <2>9. (o .. o + g - 1) \cup (8 * k + 0 .. 8 * k + 0 + n - 1) = o .. o + (g + n) - 1
    BY <2>4
  <2>10. QED
    BY <2>7, <2>8, <2>9 DEF g, b, o
<1>4. CASE ReadMiddle
  <2>1. /\ pc = "middle" /\ i < Middle /\ pc' = "middle" /\ i' = i + 1
        /\ res' = res \cup Place(i + 1, 0, 8, shift)
    BY <1>4 DEF ReadMiddle, NextByte
  <2>2. Got' = Got + 8 /\ Got \in Nat
    BY <1>0, <1>1, <2>1 DEF Got
  <2>3. Pairs(res', IF field.little THEN 0 .. Got + 8 - 1
                    ELSE field.bits - (Got + 8) .. field.bits - 1,
              field.off .. field.off + (Got + 8) - 1)
    BY <1>3, <2>1
  <2>4. Filled' = IF field.little THEN 0 .. Got + 8 - 1
                  ELSE field.bits - (Got + 8) .. field.bits - 1
    <3>1. Filled' = IF field.little THEN 0 .. Got' - 1 ELSE field.bits - Got' .. field.bits - 1
      BY <1>0 DEF Filled
    <3>2. QED
      BY <2>2, <3>1
  <2>5. QED
    BY <2>1, <2>2, <2>3, <2>4
<1>5. CASE ReadLast
  <2>1. /\ pc = "middle" /\ i = Middle /\ pc' = "read" /\ Last # 0
        /\ res' = res \cup Place(i + 1, 0, Last, shift)
    BY <1>5 DEF ReadLast, NextByte
  <2>2. Got + Last = field.bits /\ field.bits - (Got + Last) = 0 /\ Got \in Nat
    BY <1>1, <2>1 DEF Got
  <2>3. Last \in 1 .. 8
    BY <1>1, <2>1
  <2>4. Pairs(res', IF field.little THEN 0 .. Got + Last - 1
                    ELSE field.bits - (Got + Last) .. field.bits - 1,
              field.off .. field.off + (Got + Last) - 1)
    BY <1>3, <2>1, <2>3
  <2> DEFINE A == IF field.little THEN 0 .. Got + Last - 1
                  ELSE field.bits - (Got + Last) .. field.bits - 1
  <2>5. A = 0 .. field.bits - 1
    BY <1>1, <2>2
  <2>6. Pairs(res', A, field.off .. field.off + field.bits - 1)
    BY <2>2, <2>4
  <2> HIDE DEF A
  <2>7. QED
    BY <2>1, <2>5, <2>6
<1>6. CASE NoLast
  <2>1. pc = "middle" /\ i = Middle /\ pc' = "read" /\ Last = 0 /\ res' = res
    BY <1>6 DEF NoLast
  <2>2. Got = field.bits /\ field.bits - Got = 0
    BY <1>1, <2>1 DEF Got
  <2>3. Pairs(res, Filled, field.off .. field.off + Got - 1)
    BY <2>1 DEF FilledOnce
  <2>4. Filled = 0 .. field.bits - 1
    BY <2>2 DEF Filled
  <2>5. QED
    BY <2>1, <2>2, <2>3, <2>4
<1>7. CASE ReadFails \/ MakeValue
  BY <1>7 DEF ReadFails, MakeValue
<1>8. CASE UNCHANGED vars
  <2>1. pc' = pc /\ res' = res /\ i' = i
    BY <1>8 DEF vars
  <2>2. Got' = Got /\ Filled' = Filled
    BY <1>0, <2>1 DEF Got, Filled
  <2>3. QED
    BY <2>1, <2>2 DEF FilledOnce
<1>9. QED
  BY <1>2, <1>4, <1>5, <1>6, <1>7, <1>8 DEF Next
(* The words stay inside themselves, and so does the shift *)
LEMMA RangeStep ==
  ASSUME LoopOK, ShiftOK, RangeOK, [Next]_vars
  PROVE  RangeOK'
<1>1. /\ field.bits \in 1 .. 64 /\ field.off \in 0 .. 7 /\ i \in Nat /\ i <= Middle
      /\ field.size \in {1, 2, 4, 8} /\ field.signed \in BOOLEAN
      /\ First \in 1 .. 8 /\ Middle \in 0 .. 7 /\ Last \in 0 .. 7
      /\ First <= field.bits
  <2>1. First <= field.bits
    <3>1. field.bits \in 1 .. 64 /\ field.off \in 0 .. 7
      BY FieldSizes
    <3>2. QED
      BY <3>1 DEF First, FirstSize
  <2>2. QED
    BY <2>1, FieldSizes DEF LoopOK
<1>2. ASSUME NEW k \in 0 .. 8, NEW from \in 0 .. 7, NEW n \in 1 .. 8, NEW s \in Nat,
             from + n <= 8
      PROVE  Place(k, from, n, s) \subseteq (0 .. Word - 1) \X (0 .. Word + 7)
  <2> SUFFICES ASSUME NEW j \in 0 .. n - 1, s + j < Word
               PROVE  <<s + j, 8 * k + from + j>> \in (0 .. Word - 1) \X (0 .. Word + 7)
    BY DEF Place
  <2>1. s + j \in 0 .. Word - 1 /\ 8 * k + from + j \in 0 .. Word + 7
    BY <1>2 DEF Word
  <2>2. QED
    BY <2>1
<1>3. CASE ReadFirst
  <2> DEFINE s == IF field.little THEN 0 ELSE field.bits - First
  <2>1. /\ res' = Place(0, field.off, First, s) /\ value' = value
        /\ shift' = IF field.little THEN First ELSE StepDown(s)
    BY <1>3 DEF ReadFirst
  <2>2. s \in 0 .. 63
    BY <1>1
  <2>3. shift' \in 0 .. Word
    BY <1>1, <2>1, <2>2 DEF StepDown, Word
  <2>4. field.off + First <= 8
    <3>1. field.bits \in 1 .. 64 /\ field.off \in 0 .. 7
      BY <1>1
    <3>2. QED
      BY <3>1 DEF First, FirstSize
  <2> HIDE DEF s
  <2>5. res' \subseteq (0 .. Word - 1) \X (0 .. Word + 7)
    <3>1. 0 \in 0 .. 8 /\ field.off \in 0 .. 7 /\ First \in 1 .. 8 /\ s \in Nat
      BY <1>1, <2>2
    <3>2. QED
      BY <1>2, <2>1, <2>4, <3>1
  <2>6. QED
    BY <2>1, <2>3, <2>5 DEF RangeOK
<1>4. CASE ReadMiddle
  <2>1. /\ pc = "middle" /\ i < Middle /\ value' = value
        /\ res' = res \cup Place(i + 1, 0, 8, shift)
        /\ shift' = IF field.little THEN shift + 8 ELSE StepDown(shift)
    BY <1>4 DEF ReadMiddle, NextByte
  <2>2. 8 \in 1 .. 8
    OBVIOUS
  <2>3. shift \in Nat /\ shift + 8 <= Word /\ i + 1 \in 1 .. 8
    BY <2>1, <2>2, ByteFits
  <2>4. shift' \in 0 .. Word
    BY <2>1, <2>3 DEF StepDown, Word
  <2>5. Place(i + 1, 0, 8, shift) \subseteq (0 .. Word - 1) \X (0 .. Word + 7)
    <3>1. i + 1 \in 0 .. 8 /\ 0 \in 0 .. 7 /\ 0 + 8 <= 8
      BY <2>3
    <3>2. QED
      BY <1>2, <2>2, <2>3, <3>1
  <2>6. QED
    BY <2>1, <2>4, <2>5 DEF RangeOK
<1>5. CASE ReadLast
  <2>1. /\ pc = "middle" /\ i = Middle /\ Last # 0 /\ value' = value /\ shift' = shift
        /\ res' = res \cup Place(i + 1, 0, Last, shift)
    BY <1>5 DEF ReadLast, NextByte
  <2>2. Last \in 1 .. 8
    BY <1>1, <2>1
  <2>3. shift \in Nat /\ i + 1 \in 1 .. 8
    BY <2>1, <2>2, ByteFits
  <2>4. Place(i + 1, 0, Last, shift) \subseteq (0 .. Word - 1) \X (0 .. Word + 7)
    <3>1. i + 1 \in 0 .. 8 /\ 0 \in 0 .. 7 /\ 0 + Last <= 8
      BY <2>2, <2>3
    <3>2. QED
      BY <1>2, <2>2, <2>3, <3>1
  <2>5. QED
    BY <2>1, <2>4 DEF RangeOK
<1>6. CASE MakeValue
  <2> DEFINE w == IF field.signed THEN SignExtended(res, field.bits) ELSE res
  <2>1. value' = ReadBack(w, field.size, field.little) /\ res' = res /\ shift' = shift
    BY <1>6 DEF MakeValue
  <2>2. w \subseteq (0 .. Word - 1) \X (0 .. Word + 7)
    <3>1. res \subseteq (0 .. Word - 1) \X (0 .. Word + 7)
      BY DEF RangeOK
    <3>2. SignExtended(res, field.bits) \subseteq (0 .. Word - 1) \X (0 .. Word + 7)
      <4>1. \A p \in res : p[2] \in 0 .. Word + 7
        BY <3>1
      <4>2. field.bits .. Word - 1 \subseteq 0 .. Word - 1
        BY <1>1 DEF Word
      <4>3. QED
        BY <3>1, <4>1, <4>2 DEF SignExtended
    <3>3. QED
      BY <3>1, <3>2
  <2> HIDE DEF w
  <2>3. ASSUME NEW p \in w, p[1] < 8 * field.size
        PROVE  <<IF field.little THEN p[1]
                 ELSE 8 * (field.size - 1 - p[1] \div 8) + (p[1] % 8), p[2]>>
                 \in (0 .. Word - 1) \X (0 .. Word + 7)
    <3> DEFINE x == p[1]
               z == field.size
    <3>1. x \in 0 .. Word - 1 /\ p[2] \in 0 .. Word + 7 /\ x < 8 * z /\ z \in {1, 2, 4, 8}
      BY <1>1, <2>2, <2>3
    <3> HIDE DEF x, z
    <3>2. 8 * (z - 1 - x \div 8) + (x % 8) \in 0 .. Word - 1
      <4>1. x \div 8 \in 0 .. 7 /\ x % 8 \in 0 .. 7 /\ x = 8 * (x \div 8) + (x % 8)
        BY <3>1 DEF Word
      <4>2. x \div 8 <= z - 1
        BY <3>1, <4>1
      <4>3. QED
        BY <3>1, <4>1, <4>2 DEF Word
    <3>3. QED
      BY <3>1, <3>2 DEF x, z
  <2>4. value' \subseteq (0 .. Word - 1) \X (0 .. Word + 7)
    BY <2>1, <2>3 DEF ReadBack
  <2>5. QED
    BY <2>1, <2>4 DEF RangeOK
<1>7. CASE NoLast \/ ReadFails \/ UNCHANGED vars
  BY <1>7 DEF NoLast, ReadFails, vars, RangeOK
<1>8. QED
  BY <1>3, <1>4, <1>5, <1>6, <1>7 DEF Next

(* Places filled once each, from a set of as many bits: so many pairs *)
LEMMA PairsCount ==
  ASSUME NEW w, NEW n \in Nat, NEW B, Pairs(w, 0 .. n - 1, B)
  PROVE  /\ {p[1] : p \in w} = 0 .. n - 1
         /\ {p[2] : p \in w} = B
         /\ Cardinality(w) = n
<1>1. {p[1] : p \in w} = 0 .. n - 1 /\ {p[2] : p \in w} = B
  BY DEF Pairs
<1> DEFINE at == [a \in 0 .. n - 1 |-> CHOOSE p \in w : p[1] = a]
<1>2. \A a \in 0 .. n - 1 : at[a] \in w /\ at[a][1] = a
  BY DEF Pairs
<1> HIDE DEF at
<1>3. at \in [0 .. n - 1 -> w]
  <2>1. at = [a \in 0 .. n - 1 |-> at[a]]
    BY DEF at
  <2>2. QED
    BY <1>2, <2>1
<1>4. \A p \in w : \E a \in 0 .. n - 1 : at[a] = p
  <2> SUFFICES ASSUME NEW p \in w PROVE at[p[1]] = p /\ p[1] \in 0 .. n - 1
    OBVIOUS
  <2>1. p[1] \in 0 .. n - 1
    BY DEF Pairs
  <2>2. QED
    BY <1>2, <2>1 DEF Pairs
<1>5. \A a, b \in 0 .. n - 1 : at[a] = at[b] => a = b
  BY <1>2
<1>6. at \in Bijection(0 .. n - 1, w)
  BY <1>3, <1>4, <1>5, Fun_IsBij
<1>7. IsFiniteSet(0 .. n - 1) /\ Cardinality(0 .. n - 1) = n
  <2>1. IsFiniteSet(0 .. n - 1) /\ Cardinality(0 .. n - 1) = IF 0 > n - 1 THEN 0 ELSE n - 1 - 0 + 1
    BY FS_Interval
  <2>2. QED
    BY <2>1
<1>8. Cardinality(w) = n
  BY <1>6, <1>7, FS_Bijection DEF ExistsBijection
<1>9. QED
  BY <1>1, <1>8

WordInv == LoopOK /\ ShiftOK /\ FilledOnce /\ RangeOK

(* Where the shift and the filled places are, in every state *)
LEMMA WordInductive == Spec => []WordInv
<1>1. Init => WordInv
  <2> SUFFICES ASSUME Init PROVE WordInv
    OBVIOUS
  <2>1. LoopOK
    BY LoopInit DEF LIInv
  <2>2. pc = "first" /\ i = 0 /\ shift = 0 /\ res = {} /\ value = {}
    BY DEF Init
  <2>3. QED
    BY <2>1, <2>2 DEF WordInv, ShiftOK, FilledOnce, RangeOK, Word
<1>2. WordInv /\ [Next]_vars => WordInv'
  BY LoopStep, ShiftStep, FilledStep, RangeStep DEF WordInv
<1>3. QED
  BY <1>1, <1>2, PTL DEF Spec

(* Whatever the sizes of the fields and of their types, every variable     *)
(* keeps its type, and no byte is shifted by 64 or more.                   *)
THEOREM BitTypeCorrect == Spec => []TypeOK
<1>1. WordInv => TypeOK
  <2> SUFFICES ASSUME WordInv PROVE TypeOK
    OBVIOUS
  <2>1. LoopOK /\ ShiftOK /\ RangeOK
    BY DEF WordInv
  <2>2. i \in 0 .. 8 /\ Middle \in 0 .. 7 /\ Last \in 0 .. 7 /\ i <= Middle
    BY <2>1, FieldSizes DEF LoopOK
  <2>3. Pending => shift < Word
    <3>1. CASE pc = "first"
      BY <2>1, <3>1 DEF ShiftOK, Word
    <3>2. CASE pc = "middle" /\ i < Middle
      <4>1. 8 \in 1 .. 8
        OBVIOUS
      <4>2. shift \in Nat /\ shift + 8 <= Word
        BY <2>1, <3>2, <4>1, ByteFits
      <4>3. QED
        BY <4>2 DEF Word
    <3>3. CASE pc = "middle" /\ i = Middle /\ Last # 0
      <4>1. Last \in 1 .. 8
        BY <2>2, <3>3
      <4>2. shift \in Nat /\ shift + Last <= Word
        BY <2>1, <3>3, <4>1, ByteFits
      <4>3. QED
        BY <4>1, <4>2 DEF Word
    <3>4. QED
      BY <2>2, <3>1, <3>2, <3>3 DEF Pending
  <2>4. QED
    BY <2>1, <2>2, <2>3 DEF LoopOK, RangeOK, TypeOK
<1>2. QED
  BY <1>1, WordInductive, PTL

(* In either byte order each bit of a field lands on a place of its own    *)
(* and none is left out, whatever its size and place (but for the short    *)
(* fields that cross a byte).                                              *)
THEOREM EachBitOnce == Spec => []EveryBitOnce
<1>1. WordInv => EveryBitOnce
  <2> SUFFICES ASSUME WordInv, pc = "read", ~ShortStraddles
               PROVE  /\ {p[1] : p \in res} = 0 .. field.bits - 1
                      /\ {p[2] : p \in res} = field.off .. field.off + field.bits - 1
                      /\ Cardinality(res) = field.bits
    BY DEF EveryBitOnce
  <2>1. Pairs(res, 0 .. field.bits - 1, field.off .. field.off + field.bits - 1)
    BY DEF WordInv, FilledOnce
  <2>2. field.bits \in Nat
    BY FieldSizes DEF WordInv
  <2>3. QED
    BY <2>1, <2>2, PairsCount
<1>2. QED
  BY <1>1, WordInductive, PTL
=============================================================================
