------------------------------ MODULE BitField ------------------------------
(***************************************************************************)
(* Reading a bit-field of a record: value_impl_common::create_field_val    *)
(* (src/src/value_impl_common.cpp) and the byte loop of                    *)
(* accessor::read_unsigned_bits (src/src/data/accessor.cpp).               *)
(*                                                                         *)
(* A 64-bit word is modelled by where its bits come from: a set of pairs   *)
(* <<r, b>>, bit r of the word is bit b of the record, bit 0 being the     *)
(* lowest bit of the byte the field starts in.  A bit that is in no pair   *)
(* is zero; shifts drop what leaves the word; |= is the union.             *)
(***************************************************************************)
EXTENDS Integers, FiniteSets

CONSTANTS
    BitSizes,   \* sizes of the bit-fields considered, in bits
    TypeSizes,  \* sizes of their types, in bytes
    Readable    \* how many bytes can be read from the field's first one on

ASSUME SizesAssumption ==
    /\ BitSizes \subseteq 1 .. 64
    /\ TypeSizes \subseteq {1, 2, 4, 8}
    /\ Readable \subseteq Nat

Word == 64

Field == [bits : BitSizes, off : 0 .. 7, size : TypeSizes, signed : BOOLEAN,
          little : BOOLEAN, readable : Readable]

(* create_field_val reads a whole, byte-aligned field as an ordinary value *)
IsBitField(f) ==
    /\ f.bits <= 8 * f.size
    /\ ~(f.off = 0 /\ f.bits = 8 * f.size)

VARIABLES
    field,      \* the field that is read
    pc,         \* where the reading is
    i,          \* bytes of the middle loop read so far
    shift,      \* curr_byte_offset
    res,        \* res: the word read so far
    value       \* the value create_field_val returns, as its user reads it

vars == <<field, pc, i, shift, res, value>>

-----------------------------------------------------------------------------
(* The sizes the code computes before it reads *)

FirstSize(bits, off) == IF 8 - off > bits THEN bits ELSE 8 - off

BytesSize(bits, off) ==
    LET left == bits - FirstSize(bits, off)
    IN  1 + left \div 8 + IF left % 8 # 0 THEN 1 ELSE 0

MiddleSizeSlip(bits, off) == BytesSize(bits, off) - 1   \* counts the last byte

MiddleSize(bits, off) ==
    IF BytesSize(bits, off) = 1 THEN 0
    ELSE BytesSize(bits, off) - 1 - IF (bits - (8 - off)) % 8 # 0 THEN 1 ELSE 0

LastSize(bits, off) == IF bits > 8 THEN (bits - (8 - off)) % 8 ELSE 0

First  == FirstSize(field.bits, field.off)
Middle == MiddleSize(field.bits, field.off)
Last   == LastSize(field.bits, field.off)

(* n bits of byte k, from its bit from on, at bit s of the word *)
Place(k, from, n, s) ==
    {<<s + j, 8 * k + from + j>> : j \in {j \in 0 .. n - 1 : s + j < Word}}

StepDownSlip(s) == s - 8                \* no clamp at the lowest byte

StepDown(s) == IF s > 8 THEN s - 8 ELSE 0

(* The byte the next read_raw asks for; none when the loop is over and     *)
(* there is no last byte                                                   *)
Pending  == pc = "first" \/ (pc = "middle" /\ (i < Middle \/ Last # 0))
NextByte == IF pc = "first" THEN 0 ELSE i + 1
ReadOK   == Pending /\ NextByte < field.readable

-----------------------------------------------------------------------------
ReadFirst ==
    /\ pc = "first"
    /\ ReadOK
    /\ LET s == IF field.little THEN 0 ELSE field.bits - First IN
       /\ res' = Place(0, field.off, First, s)
       /\ shift' = IF field.little THEN First ELSE StepDown(s)
    /\ pc' = "middle"
    /\ UNCHANGED <<field, i, value>>

ReadMiddle ==
    /\ pc = "middle"
    /\ i < Middle
    /\ ReadOK
    /\ res' = res \cup Place(NextByte, 0, 8, shift)
    /\ shift' = IF field.little THEN shift + 8 ELSE StepDown(shift)
    /\ i' = i + 1
    /\ UNCHANGED <<field, pc, value>>

ReadLast ==
    /\ pc = "middle"
    /\ i = Middle
    /\ Last # 0
    /\ ReadOK
    /\ res' = res \cup Place(NextByte, 0, Last, shift)
    /\ pc' = "read"
    /\ UNCHANGED <<field, i, shift, value>>

NoLast ==
    /\ pc = "middle"
    /\ i = Middle
    /\ Last = 0
    /\ pc' = "read"
    /\ UNCHANGED <<field, i, shift, res, value>>

(* The record's storage throws: the field becomes an error value *)
ReadFails ==
    /\ Pending
    /\ ~ReadOK
    /\ pc' = "error"
    /\ UNCHANGED <<field, i, shift, res, value>>

SignExtendedSlip(w, bits) ==            \* leaves the top bit out
    w \cup {<<r, p[2]>> : r \in bits .. Word - 2, p \in {p \in w : p[1] = bits - 1}}

(* read_signed_bits copies the sign bit to every bit above the field. Above *)
(* one as wide as the word there is none: the code shifts a zero by the      *)
(* word's width, undefined in C++, which leaves the zero it ors into the     *)
(* value in every build.                                                     *)
SignExtended(w, bits) ==
    w \cup {<<r, p[2]>> : r \in bits .. Word - 1, p \in {p \in w : p[1] = bits - 1}}

(* The bytes of the word that fit the type go to a temporary storage in    *)
(* the host's (little endian) order, and are read back in the debuggee's.  *)
ReadBack(w, size, little) ==
    {<<IF little THEN p[1] ELSE 8 * (size - 1 - p[1] \div 8) + (p[1] % 8), p[2]>> :
        p \in {q \in w : q[1] < 8 * size}}

MakeValue ==
    /\ pc = "read"
    /\ LET w == IF field.signed THEN SignExtended(res, field.bits) ELSE res
       IN  value' = ReadBack(w, field.size, field.little)
    /\ pc' = "done"
    /\ UNCHANGED <<field, i, shift, res>>

Init ==
    /\ field \in {f \in Field : IsBitField(f)}
    /\ pc = "first"
    /\ i = 0
    /\ shift = 0
    /\ res = {}
    /\ value = {}

Next == ReadFirst \/ ReadMiddle \/ ReadLast \/ NoLast \/ ReadFails \/ MakeValue

Spec == Init /\ [][Next]_vars

-----------------------------------------------------------------------------
(* Properties *)

(* A short field that crosses a byte boundary: read_unsigned_bits leaves   *)
(* its last byte out (bits_sz > 8 guards it), see ReadsAllBits.            *)
ShortStraddles == field.bits <= 8 /\ field.off + field.bits > 8

(* The types; and no byte is shifted by 64 or more, which is undefined.    *)
TypeOK ==
    /\ field \in Field
    /\ pc \in {"first", "middle", "read", "done", "error"}
    /\ i \in 0 .. 8
    /\ shift \in 0 .. Word
    /\ res \subseteq (0 .. Word - 1) \X (0 .. Word + 7)
    /\ value \subseteq (0 .. Word - 1) \X (0 .. Word + 7)
    /\ Pending => shift < Word

(* In a little endian debuggee a field's value, as its user reads it from  *)
(* the temporary storage, is the field's bits in order, and above them     *)
(* zeros or copies of the sign bit up to the size of the type.             *)
FieldReadsBack ==
    pc = "done" /\ field.little /\ ~ShortStraddles =>
        value = {<<r, field.off + r>> : r \in 0 .. field.bits - 1}
                \cup {<<r, field.off + field.bits - 1>> :
                        r \in IF field.signed THEN field.bits .. 8 * field.size - 1
                              ELSE {}}

(* In either byte order the word read has the field's bits, each of them   *)
(* once: no two bits land on the same place and none is left out.          *)
EveryBitOnce ==
    pc = "read" /\ ~ShortStraddles =>
        /\ {p[1] : p \in res} = 0 .. field.bits - 1
        /\ {p[2] : p \in res} = field.off .. field.off + field.bits - 1
        /\ Cardinality(res) = field.bits

(* A field that lies inside the readable bytes is read: the loop asks for  *)
(* no byte beyond the one the field ends in, so a record at the end of     *)
(* readable memory shows no error for its last field.                      *)
NoSpuriousError ==
    pc = "error" => field.off + field.bits > 8 * field.readable

(* What accessor.hpp promises of read_unsigned_bits ("Reads unsigned       *)
(* integer bits of specified size"): the word has as many bits as asked.   *)
ReadsAllBits == pc = "read" => {p[1] : p \in res} = 0 .. field.bits - 1
=============================================================================
