-------------------------- MODULE ArrayContainers --------------------------
(***************************************************************************)
(* The formatters of containers whose elements are found by arithmetic:    *)
(* vectors, arrays, valarrays and slices, regex matches, deques, bitsets,  *)
(* strings and string views of libstdc++ and libc++ (src/src/stl).         *)
(*                                                                         *)
(* Addresses count elements.  The fields of a container are in rep, what   *)
(* they stand for in contents: the addresses of the elements, in order.    *)
(* How the libraries store a container (the Intact... definitions) is      *)
(* known from their headers only.                                          *)
(***************************************************************************)
EXTENDS Integers, Sequences, FiniteSets

CONSTANTS
    Kinds,        \* kinds of containers considered
    MaxLen,       \* bound: elements of a container
    MaxText,      \* bound: bytes of a text
    Bases,        \* where blocks of elements start
    Unreadable,   \* addresses from this one on cannot be read
    Modulus,      \* 2^64: std::size_t wraps here
    MaxSize,      \* container_formatter::max_container_size
    MaxVector,    \* max_vector_size
    BufSize,      \* 512, the bytes of a node of a libstdc++ deque
    BlockSizes,   \* <<256, 4096, 16>>, the figures of a libc++ deque's blocks
    ElementSizes, \* sizes of deque elements
    MapSize,      \* nodes a deque's map has room for
    Spacing,      \* bound: how far apart a deque's nodes and blocks are
    LocalBuffer,  \* 16, the bytes of the buffer in a libstdc++ string
    Radix,        \* 256, values of a byte
    WordBits,     \* 64, bits in a word of a bitset
    MaxPrinted,   \* max_printed_chars
    WideChars,    \* chars_per_wide_char: bytes a character takes at most
    MaxChanges    \* bound: times the debuggee runs

ASSUME LimitsAssumption ==
    /\ Bases \subseteq Nat \ {0}
    /\ {MaxLen, MaxText, Unreadable, MaxSize, MaxVector, MaxPrinted, MaxChanges} \subseteq Nat
    /\ {Modulus, BufSize, MapSize, LocalBuffer, WideChars, WordBits} \subseteq Nat \ {0}
    /\ MaxSize + 3 <= MaxVector /\ MaxVector < Modulus - 3 /\ 2 * MaxLen < Modulus
    /\ ElementSizes \subseteq Nat \ {0}
    /\ Radix \in Nat /\ Radix > 2 /\ Radix % 2 = 0
    /\ BlockSizes \in Seq(Nat \ {0}) /\ Len(BlockSizes) = 3 /\ BlockSizes[1] <= BlockSizes[2]

ASSUME KindsAssumption ==
    Kinds \subseteq {"vector", "array", "libcxx_valarray", "sub_match", "valarray",
                     "slice_array", "match_results", "stdcpp_deque", "libcxx_deque", "bitset",
                     "string_view", "zstring", "cow_string", "cxx11_string", "libcxx_string"}

(* What the libraries store can be read, and the nodes of a deque do not   *)
(* overlap; the elements of a string are in it, or elsewhere.              *)
ASSUME LayoutAssumption ==
    /\ \A b \in Bases : b # 1 /\ b + 2 * MaxLen < Unreadable
    /\ MaxLen + 1 < Unreadable
    /\ Spacing \in Nat
    /\ BufSize < Spacing /\ BlockSizes[2] < Spacing /\ BlockSizes[3] < Spacing
    /\ Spacing * (MapSize + 1) < Unreadable
    /\ MaxLen + 2 < (Radix \div 2) * Radix
    /\ MaxText <= MaxLen

VARIABLES
    kind, rep,   \* the container and its fields
    contents,    \* addresses of its elements
    room,        \* its capacity
    chars,       \* for text: how many bytes each character takes, 0: no character
    fresh,       \* whether the debuggee has not run since it was formatted
    intact,      \* whether the library is the only one who has changed it
    asserts,     \* whether this build of the formatters checks assertions
    changes,     \* times the debuggee has run
    kept,        \* the size in the result on display, or Err
    answer       \* what the last call has returned, until the debuggee runs

memory == <<kind, rep, contents, room, chars, intact, asserts, changes>>
vars   == <<memory, fresh, kept, answer>>

Err == -1                               \* format_error, or no result

-----------------------------------------------------------------------------
(* How the libraries store their containers *)

Run(base, n, stride) == [i \in 1 .. n |-> base + (i - 1) * stride]

Plain(r, c, cap) == [rep |-> r, contents |-> c, room |-> cap]

(* The numbers of elements with the capacities in S that have room for them *)
Fits(S) == {p \in (0 .. MaxLen) \X S : p[1] <= p[2]}

IntactVector ==
    {Plain([start |-> 0, finish |-> 0, end |-> 0], <<>>, 0)}
    \cup {Plain([start |-> b, finish |-> b + p[1], end |-> b + p[2]], Run(b, p[1], 1), p[2]) :
            b \in Bases, p \in Fits(1 .. MaxLen + 1)}

IntactRange == {Plain([start |-> b, finish |-> b + n], Run(b, n, 1), 0) :
                    b \in Bases, n \in 0 .. MaxLen}

(* An empty std::array of libstdc++ has no array in it, one of libc++ has  *)
(* an array of another length                                              *)
IntactArray ==
    {Plain([data |-> b, array |-> n > 0 \/ libcxx, length |-> IF n = 0 THEN 1 ELSE n,
            parameter |-> n, libcxx |-> libcxx], Run(b, n, 1), 0) :
        b \in Bases, n \in 0 .. MaxLen, libcxx \in BOOLEAN}

IntactSlice(strides) == {Plain([data |-> b, size |-> n, stride |-> s], Run(b, n, s), 0) :
                            b \in Bases, n \in 0 .. MaxLen, s \in strides}

(* The entries of match_results and three of its own, or no entry at all *)
IntactMatches ==
    {Plain([start |-> 0, finish |-> 0], <<>>, 0)}
    \cup {Plain([start |-> b, finish |-> b + n + 3], Run(b, n, 1), 0) :
            b \in Bases, n \in 0 .. MaxLen}

(* libstdc++ puts an element of BufSize bytes or more in a node of its own *)
NodeLength(es) == IF es < BufSize THEN BufSize \div es ELSE 1

(* Node number i of the map begins at Node(i), nodes not in use are null *)
IntactDeque ==
    LET Node(i) == Spacing * (MapSize + 1 - i) IN
    UNION {
        LET len == NodeLength(es)
            At(k) == Node(s + (o + k) \div len) + ((o + k) % len)
            last  == s + (o + n) \div len
        IN  {Plain([map |-> [i \in 1 .. MapSize |-> IF i \in s .. last THEN Node(i) ELSE 0],
                    node |-> s, cur |-> At(0), last |-> Node(s) + len,
                    finish |-> At(n), es |-> es],
                   [i \in 1 .. n |-> At(i - 1)], 0) : x \in {x \in {0} : o < len /\ last <= MapSize}} :
        es \in ElementSizes, s \in 1 .. 2, o \in 0 .. BufSize - 1, n \in 0 .. MaxLen}

(* libc++: block i of the map, elements from the one numbered first on *)
BlockLength(es) ==
    IF es < BlockSizes[1] THEN BlockSizes[2] \div es ELSE BlockSizes[3]

IntactBlocks ==
    UNION {
        LET len == BlockLength(es)
            At(k) == Spacing * (MapSize - k \div len) + (k % len)
        IN  {Plain([map |-> [i \in 1 .. MapSize |-> Spacing * (MapSize + 1 - i)],
                    first |-> f, size |-> n, es |-> es],
                   [i \in 1 .. n |-> At(f + i - 1)], 0) :
                x \in {x \in {0} : f + n <= MapSize * len}} :
        es \in ElementSizes, f \in 0 .. 3, n \in 0 .. MaxLen}

(* Bit i is bit i % WordBits of word i / WordBits; one word is no array *)
IntactBits ==
    {Plain([bits |-> n, array |-> n > WordBits], [i \in 1 .. n |-> i - 1], 0) : n \in 0 .. MaxLen}

IntactView == {Plain([data |-> b, size |-> n], Run(b, n, 1), 0) :
                    b \in Bases, n \in 0 .. MaxLen}

(* Copy on write strings have their length and capacity before their text *)
IntactCow == {Plain([data |-> b, length |-> p[1], capacity |-> p[2]], Run(b, p[1], 1), p[2]) :
                b \in Bases, p \in Fits(0 .. MaxLen + 1)}

(* The text is in the string while it has never been too long for that *)
Local == 1
IntactCxx11 ==
    UNION {
        LET short == LocalBuffer \div cs - 1 IN
        {Plain([data |-> Local, length |-> n, allocated |-> a, cs |-> cs], Run(Local, n, 1), short) :
            n \in {n \in 0 .. MaxLen : n <= short}, a \in {0, 1}}
        \cup {Plain([data |-> b, length |-> p[1], allocated |-> p[2], cs |-> cs],
                     Run(b, p[1], 1), p[2]) :
            b \in Bases, p \in Fits(short + 1 .. MaxLen + short + 1)} : cs \in {1, 2}}

(* libc++: a short string has its size in one byte, a long one has words   *)
(* of two bytes here; the byte of the short size overlaps the word of the  *)
(* long capacity: its first byte in memory, or its last in the alternate   *)
(* layout.  The flag that tells long from short is the bit of that byte    *)
(* which is the lowest of the word, or its highest.                        *)
HighBit == (Radix \div 2) * Radix
ShortRoom == Radix \div 2 - 3
FlagIsLow(alternate, little) == alternate # little

IntactLibcxx ==
    UNION {
        LET low   == FlagIsLow(alt, little)
            \* the byte seen through the short layout
            seen(word) == IF low THEN word % Radix ELSE word \div Radix
            Long(c)  == IF low THEN c + 1 ELSE c + HighBit
        IN  {Plain([byte |-> IF low THEN 2 * n ELSE n,
                    cap |-> IF low THEN 2 * n ELSE n * Radix, size |-> 0, data |-> Local,
                    alternate |-> alt, little |-> little],
                   Run(Local, n, 1), ShortRoom) : n \in 0 .. ShortRoom}
            \cup {Plain([byte |-> seen(Long(p[2])), cap |-> Long(p[2]), size |-> p[1], data |-> b,
                         alternate |-> alt, little |-> little],
                        Run(b, p[1], 1), p[2] - 1) : \* room for the end mark
                    b \in Bases,
                    p \in {p \in Fits({c \in 2 .. MaxLen + 2 : c % 2 = 0}) : p[1] < p[2]}} :
        alt \in BOOLEAN, little \in BOOLEAN}

IntactAny(k) ==
    CASE k = "vector" -> IntactVector
      [] k \in {"libcxx_valarray", "sub_match"} -> IntactRange
      [] k = "array" -> IntactArray
      [] k = "valarray" -> IntactSlice({1})
      [] k = "slice_array" -> IntactSlice({1, 2})
      [] k = "match_results" -> IntactMatches
      [] k = "stdcpp_deque" -> IntactDeque
      [] k = "libcxx_deque" -> IntactBlocks
      [] k = "bitset" -> IntactBits
      [] k \in {"string_view", "zstring"} -> IntactView
      [] k = "cow_string" -> IntactCow
      [] k = "cxx11_string" -> IntactCxx11
      [] k = "libcxx_string" -> IntactLibcxx

Strings == {"cow_string", "cxx11_string", "libcxx_string", "string_view"}
IsText(k) == k \in Strings \cup {"zstring"}

IntactOf(k) == {m \in IntactAny(k) : IsText(k) => Len(m.contents) <= MaxText}

(* The ways n bytes of text make up characters *)
Codings[n \in 0 .. MaxText] ==
    IF n = 0 THEN {<<>>}
    ELSE UNION {{<<l>> \o s : s \in Codings[n - IF l = 0 THEN 1 ELSE l]} :
                    l \in {l \in 0 .. WideChars : l <= n}}

-----------------------------------------------------------------------------
(* Sizes.  A subtraction of std::size_t wraps.                             *)

Minus(a, b) == (a - b) % Modulus

(* get_std_vector_size: the difference is signed *)
VectorSize(r) ==
    LET isize == r.finish - r.start
    IN  IF isize < 0 \/ isize > MaxVector THEN Err ELSE isize

VectorCapacity(r) == IF r.end < r.start THEN Err ELSE r.end - r.start

(* libcxx_valarray_formatter::size and sub_match: converted to unsigned *)
RangeSize(r) == Minus(r.finish, r.start)

(* The first three entries are the library's own *)
MatchResultsSize(r) == IF VectorSize(r) = Err THEN Err ELSE Minus(VectorSize(r), 3)

(* calc_deque_node_size *)
NodeSize(es) == IF es < BufSize THEN BufSize \div es ELSE es

(* A cursor of the loops over a deque: cur_ptr, node_ptr, cur_end_ptr.     *)
(* Moving it reads the map when the end of the node is reached.            *)
Moved(r, c) ==
    IF c.cur + 1 = r.finish \/ c.cur + 1 # c.last THEN [c EXCEPT !.cur = @ + 1]
    ELSE LET base == IF c.node + 1 \in DOMAIN r.map THEN r.map[c.node + 1] ELSE Err
         IN  [cur |-> base, node |-> c.node + 1, last |-> base + NodeSize(r.es)]

Cursors(r, n) ==
    LET c[k \in 0 .. n] ==
            IF k = 0 THEN [cur |-> r.cur, node |-> r.node, last |-> r.last]
            ELSE IF c[k - 1].cur \in {Err, r.finish} THEN c[k - 1]
            ELSE Moved(r, c[k - 1])
    IN  c

MaxDequeSize(r) == Len(r.map) * NodeSize(r.es)

(* stdcpp_deque_formatter::size *)
DequeSize(r) ==
    LET max  == MaxDequeSize(r)
        c    == Cursors(r, max)
        ends == {k \in 0 .. max : c[k].cur = r.finish}
    IN  IF max > MaxSize \/ ends = {} THEN Err
        ELSE CHOOSE k \in ends : \A j \in ends : k <= j

(* libc++ strings.  The formatter asks for the layout, not for the byte    *)
(* order.                                                                  *)
Bit(x, mask) == (x \div mask) % 2

IsSmall(r) == Bit(r.byte, IF r.alternate THEN Radix \div 2 ELSE 1) = 0

LibcxxStringSizeSlip(r) == IF IsSmall(r) THEN r.byte ELSE r.size

LibcxxStringSize(r) ==
    IF ~IsSmall(r) THEN r.size ELSE IF r.alternate THEN r.byte ELSE r.byte \div 2

LibcxxStringCapacity(r) ==
    LET mask == IF r.alternate THEN HighBit ELSE 1
    IN  IF IsSmall(r) THEN ShortRoom ELSE r.cap - Bit(r.cap, mask) * mask

(* stdcpp_cxx11_string_formatter::capacity goes by the length alone *)
Cxx11Capacity(r) == IF r.length < LocalBuffer THEN LocalBuffer - 1 ELSE r.allocated

(* stdcpp_array_formatter::size goes by the field, libc++'s by the name of *)
(* the type                                                                *)
ArraySize(r) == IF r.array THEN r.length ELSE 0

LibcxxArraySize(r) == r.parameter

(* read_bitset_size: the number in the name of the type *)
BitsetSize(r) == r.bits

StringSize(r) == r.length

SizeOf(k, r) ==
    CASE k = "vector" -> VectorSize(r)
      [] k \in {"libcxx_valarray", "sub_match"} -> RangeSize(r)
      [] k = "match_results" -> MatchResultsSize(r)
      [] k = "stdcpp_deque" -> DequeSize(r)
      [] k = "array" -> IF r.libcxx THEN LibcxxArraySize(r) ELSE ArraySize(r)
      [] k = "bitset" -> BitsetSize(r)
      [] k \in {"cow_string", "cxx11_string"} -> StringSize(r)
      [] k = "libcxx_string" -> LibcxxStringSize(r)
      [] OTHER -> r.size                \* a field: valarray, slices, deque, views

HasCapacity(k) == k \in {"vector", "cow_string", "cxx11_string", "libcxx_string"}

CapacityOf(k, r) ==
    CASE k = "vector" -> VectorCapacity(r)
      [] k = "cow_string" -> r.capacity
      [] k = "cxx11_string" -> Cxx11Capacity(r)
      [] OTHER -> LibcxxStringCapacity(r)

-----------------------------------------------------------------------------
(* Elements: the address the value object of element i has.  Only deques   *)
(* know where their elements end.                                          *)

VectorElement(r, i) == r.start + i

RangeElement(r, i) == r.start + i

ArrayElement(r, i) == r.data + i

TextElement(r, i) == r.data + i

SliceElement(r, i) == r.data + ((i * r.stride) % Modulus)

DequeElement(r, i) ==
    LET c == Cursors(r, i) IN IF c[i].cur = r.finish THEN Err ELSE c[i].cur

BlockElementSlip(r, i) == r.map[1] + i

BlockElement(r, i) ==
    LET real  == i + r.first
        block == real \div BlockLength(r.es)
    IN  IF block + 1 \in DOMAIN r.map
        THEN r.map[block + 1] + (real % BlockLength(r.es)) ELSE Err

(* bitset_fmt_result::child_at *)
BitElement(r, i) ==
    (IF r.array THEN (i \div WordBits) * WordBits ELSE 0) + (i % WordBits)

LibcxxStringElement(r, i) == IF IsSmall(r) THEN Local + i ELSE r.data + i

ElementAt(k, r, i) ==
    CASE k \in {"vector", "match_results"} -> VectorElement(r, i)
      [] k \in {"libcxx_valarray", "sub_match"} -> RangeElement(r, i)
      [] k = "array" -> ArrayElement(r, i)
      [] k = "slice_array" -> SliceElement(r, i)
      [] k = "stdcpp_deque" -> DequeElement(r, i)
      [] k = "libcxx_deque" -> BlockElement(r, i)
      [] k = "bitset" -> BitElement(r, i)
      [] k = "libcxx_string" -> LibcxxStringElement(r, i)
      [] k \in {"cow_string", "cxx11_string"} -> TextElement(r, i)
      [] OTHER -> r.data + i            \* valarrays and views

(* Bits are read with their word, everything else from its address *)
CanRead(k, a) == a # Err /\ (k = "bitset" \/ a \in 1 .. Unreadable - 1)

-----------------------------------------------------------------------------
(* Text: std_string_formatter::format_string and write_formatted_string    *)

Least(a, b) == IF a < b THEN a ELSE b

CharsToReadSlip == MaxPrinted * WideChars

CharsToRead == (MaxPrinted + 1) * WideChars

(* A pointer to characters is read up to a zero, which follows the text *)
TextLength(k, r) ==
    IF k # "zstring" THEN Least(SizeOf(k, r), CharsToRead)
    ELSE LET zeros == {i \in 0 .. CharsToRead - 1 : r.data + i = contents[Len(contents)] + 1}
         IN  IF contents = <<>> \/ zeros = {} THEN IF contents = <<>> THEN 0 ELSE CharsToRead
             ELSE CHOOSE i \in zeros : TRUE

TextReadable(k, r) ==
    \A i \in 0 .. TextLength(k, r) - 1 : CanRead(k, ElementAt(k, r, i))

(* The bytes read, by their position in the text; 0: a byte of something else *)
Bytes(k, r) ==
    [i \in 1 .. TextLength(k, r) |->
        LET at == {j \in DOMAIN contents : contents[j] = ElementAt(k, r, i - 1)}
        IN  IF at = {} THEN 0 ELSE CHOOSE j \in at : TRUE]

(* The position character c ends at *)
End[c \in 0 .. Len(chars)] ==
    IF c = 0 THEN 0 ELSE End[c - 1] + IF chars[c] = 0 THEN 1 ELSE chars[c]

(* convert_chars_to_wchars: how many characters are converted before one   *)
(* that cannot be, or is cut off                                           *)
Converted(bytes) ==
    CHOOSE m \in 0 .. Len(chars) :
        /\ \A c \in 1 .. m : chars[c] > 0
        /\ \A p \in 1 .. End[m] : p \in DOMAIN bytes /\ bytes[p] = p
        /\ m < Len(chars) =>
            \/ chars[m + 1] = 0
            \/ \E p \in End[m] + 1 .. End[m + 1] : p \notin DOMAIN bytes \/ bytes[p] # p

(* The characters that are written: those converted, then bytes as they    *)
(* are, as long as there are not enough of them                            *)
WideText(bytes) ==
    LET m    == Converted(bytes)
        raw  == Len(bytes) - End[m]
        more == IF m > MaxPrinted THEN 0 ELSE Least(raw, MaxPrinted + 1 - m)
    IN  [c \in 1 .. m |-> <<"char", c>>] \o [i \in 1 .. more |-> <<"byte", bytes[End[m] + i]>>]

Printed(text) == SubSeq(text, 1, Least(Len(text), MaxPrinted))
Cut(text)     == Len(text) > MaxPrinted

-----------------------------------------------------------------------------
(* The formatter and its results *)

NoAnswer == [what |-> "none"]

(* The children put before the elements, the outermost proxy's first *)
Begins(k) ==
    <<"size">> \o (IF HasCapacity(k) THEN <<"capacity">> ELSE <<>>)
    \o (IF k = "sub_match" THEN <<"begin", "end">> ELSE <<>>)

CheckSizeSlip(sz) == sz > MaxVector

CheckSize(sz) == sz > MaxSize

ShownText(k, r) ==
    LET t == WideText(Bytes(k, r)) IN [printed |-> Printed(t), cut |-> Cut(t)]

NoText == [printed |-> <<>>, cut |-> FALSE]

FormatFails(k, r) ==
    \/ SizeOf(k, r) = Err
    \/ CheckSize(SizeOf(k, r))
    \/ HasCapacity(k) /\ CapacityOf(k, r) = Err
    \/ IsText(k) /\ ~TextReadable(k, r)

(* container_formatter::format and std_bitset_formatter::format *)
Format ==
    /\ answer.what # "aborted"
    /\ kind # "zstring"
    /\ fresh' = TRUE
    /\ IF FormatFails(kind, rep)
       THEN answer' = [what |-> "error"] /\ kept' = Err
       ELSE /\ kept' = SizeOf(kind, rep)
            /\ answer' = [what |-> "format", size |-> SizeOf(kind, rep),
                          capacity |-> IF HasCapacity(kind) THEN CapacityOf(kind, rep) ELSE 0,
                          text |-> IF IsText(kind) THEN ShownText(kind, rep) ELSE NoText]
    /\ UNCHANGED memory

(* do_write_formatted_zstring *)
FormatPointer ==
    /\ kind = "zstring"
    /\ answer' = IF TextReadable(kind, rep)
                 THEN [what |-> "text", text |-> ShownText(kind, rep)]
                 ELSE [what |-> "error"]
    /\ UNCHANGED <<memory, fresh, kept>>

(* The assertions of element ask for the size once more.  An error there   *)
(* is a format_error like any other.                                       *)
AssertionSlip(k, r, i) == k = "stdcpp_deque" /\ asserts => i + 1 < SizeOf(k, r)

Assertion(k, r, i) ==
    k = "stdcpp_deque" /\ asserts => i < SizeOf(k, r) \/ SizeOf(k, r) = Err

ElementFails(k, r, i) ==
    \/ k = "stdcpp_deque" /\ asserts /\ SizeOf(k, r) = Err
    \/ ~CanRead(k, ElementAt(k, r, i))

ElementIndex(idx) == idx - Len(Begins(kind))

(* proxy_fmt_result::child_at, then container_fmt_result::child_at *)
Expand(idx) ==
    /\ kept # Err
    /\ answer.what # "aborted"
    /\ idx < Len(Begins(kind)) + kept
    /\ LET i == ElementIndex(idx) IN
       answer' = IF idx < Len(Begins(kind)) THEN [what |-> "begin", child |-> Begins(kind)[idx + 1]]
                 ELSE IF ~Assertion(kind, rep, i) THEN [what |-> "aborted"]
                 ELSE IF ElementFails(kind, rep, i) THEN [what |-> "no element", at |-> idx]
                 ELSE [what |-> "element", at |-> idx, address |-> ElementAt(kind, rep, i)]
    /\ UNCHANGED <<memory, fresh, kept>>

(* The debuggee runs: it changes its container, or damages a field.  A     *)
(* result keeps no text, so that a new text is one of one-byte characters. *)
Contain(m) ==
    /\ rep' = m.rep
    /\ contents' = m.contents
    /\ room' = m.room
    /\ intact' = TRUE
    /\ chars' = IF IsText(kind) THEN [i \in DOMAIN m.contents |-> 1] ELSE <<>>

(* A deque keeps its type, an array or a bitset its size: only the rest    *)
(* of a container changes while the debuggee runs                          *)
SameType(r1, r2) ==
    \A f \in {"es", "cs", "bits", "parameter", "libcxx", "alternate", "little"} \cap DOMAIN r1 :
        r1[f] = r2[f]

Change ==
    /\ changes < MaxChanges
    /\ answer.what # "aborted"
    /\ \E m \in IntactOf(kind) : SameType(rep, m.rep) /\ Contain(m)
    /\ changes' = changes + 1
    /\ fresh' = FALSE
    /\ answer' = NoAnswer
    /\ UNCHANGED <<kind, asserts, kept>>

Damage ==
    /\ changes < MaxChanges
    /\ answer.what # "aborted"
    /\ kind # "array"                   \* nothing but its elements is in memory
    /\ \E f \in DOMAIN rep \ {"es", "cs", "bits", "array", "alternate", "little", "map"} :
       \E v \in {0, 1, Radix - 1} \cup IF f = "byte" THEN {} ELSE {Unreadable - 1, Unreadable} :
            rep' = [rep EXCEPT ![f] = v]
    /\ intact' = FALSE
    /\ changes' = changes + 1
    /\ fresh' = FALSE
    /\ answer' = NoAnswer
    /\ UNCHANGED <<kind, contents, room, chars, asserts, kept>>

Init ==
    /\ kind \in Kinds
    /\ \E m \in IntactOf(kind) :
        /\ rep = m.rep
        /\ contents = m.contents
        /\ room = m.room
        /\ chars \in IF IsText(kind) THEN Codings[Len(m.contents)] ELSE {<<>>}
    /\ intact = TRUE
    /\ asserts \in IF kind = "stdcpp_deque" THEN BOOLEAN ELSE {FALSE}
    /\ changes = 0
    /\ fresh = FALSE
    /\ kept = Err
    /\ answer = NoAnswer

Next == \/ Format
        \/ FormatPointer
        \/ \E idx \in 0 .. MaxSize + 3 : Expand(idx)
        \/ Change
        \/ Damage

Spec == Init /\ [][Next]_vars

-----------------------------------------------------------------------------
(* Properties *)

(* What the formatters get wrong of intact containers.  A libstdc++ deque  *)
(* with elements of BufSize bytes or more is walked as if a node held as   *)
(* many elements as an element has bytes; one whose map has room for more  *)
(* than max_container_size elements is refused, however few it has; the    *)
(* three entries of match_results are subtracted from an empty one too;    *)
(* the layout of libc++ strings is that of a little endian debuggee.       *)
Misread ==
    \/ kind = "stdcpp_deque" /\ (rep.es >= BufSize \/ MaxDequeSize(rep) > MaxSize)
    \/ kind = "match_results" /\ rep.start = rep.finish
    \/ kind = "libcxx_string" /\ ~rep.little

(* The types; no size above max_container_size is shown or kept, whatever  *)
(* is in memory: a wrapped difference is refused.                          *)
TypeOK ==
    /\ kind \in Kinds
    /\ intact \in BOOLEAN /\ fresh \in BOOLEAN /\ asserts \in BOOLEAN
    /\ changes \in 0 .. MaxChanges
    /\ contents \in Seq(Nat) /\ room \in Nat
    /\ chars \in Seq(0 .. WideChars)
    /\ kept \in {Err} \cup 0 .. MaxSize
    /\ answer.what \in {"none", "error", "format", "text", "begin", "element",
                        "no element", "aborted"}

(* An intact container with at most max_container_size elements shows      *)
(* their number, and its capacity is the library's; a libstdc++ string of  *)
(* less than 16 characters is taken for a local one of narrow characters,  *)
(* and a long libc++ string counts the end mark.                           *)
SizesAgree ==
    /\ intact /\ ~Misread /\ answer.what = "format" =>
        /\ answer.size = Len(contents)
        /\ \/ answer.capacity = room
           \/ /\ kind = "cxx11_string" /\ rep.length < LocalBuffer
              /\ answer.capacity = LocalBuffer - 1
           \/ kind = "libcxx_string" /\ rep.data # Local /\ answer.capacity = room + 1
    /\ intact /\ ~Misread /\ answer.what = "error" =>
        Len(contents) > MaxSize

(* A child of an intact container is the element of the child's number,    *)
(* for every shape of its blocks and every stride.                         *)
ElementsAgree ==
    /\ intact /\ ~Misread /\ answer.what = "element" /\ answer.at < Len(Begins(kind)) + Len(contents) =>
            answer.address = contents[answer.at - Len(Begins(kind)) + 1]
    /\ intact /\ ~Misread /\ answer.what = "no element" =>
            answer.at >= Len(Begins(kind)) + Len(contents)

(* The text of an intact string is its first max_printed_chars characters, *)
(* whole and in order, and says whether there are more.                    *)
TextAgrees ==
    intact /\ ~Misread /\ IsText(kind) /\ answer.what \in {"format", "text"}
    /\ (\A c \in DOMAIN chars : chars[c] > 0) =>
        answer.text = [printed |-> [c \in 1 .. Least(Len(chars), MaxPrinted) |-> <<"char", c>>],
                       cut     |-> Len(chars) > MaxPrinted]

(* The assertion of stdcpp_deque_formatter::element stops the debugger     *)
(* only when the debuggee has run since the deque was formatted; and while *)
(* an intact deque's child is shown it is one of its elements, however old *)
(* the result.                                                             *)
DequeOutlivesResult ==
    kind = "stdcpp_deque" =>
        /\ answer.what = "aborted" => ~fresh
        /\ intact /\ ~Misread /\ answer.what = "element" =>
            \E i \in DOMAIN contents : contents[i] = answer.address
=============================================================================
