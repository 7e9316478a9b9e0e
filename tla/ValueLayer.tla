------------------------------ MODULE ValueLayer ------------------------------
(***************************************************************************)
(* The values formatters work with: value (src/src/value.cpp), which hands *)
(* every call to value_impl_common (src/src/value_impl_common.cpp), which  *)
(* reads and writes numbers through data::accessor.                        *)
(*                                                                         *)
(* A value is a type and a place in a storage: the debuggee's memory, or a *)
(* temporary of the debugger's own.  A client navigates from a value to    *)
(* others, computes with pointers and writes, while the debuggee stands    *)
(* still; the debuggee's types and objects are in Types and Debuggees.     *)
(***************************************************************************)
EXTENDS Integers, Sequences, FiniteSets

CONSTANTS
    Types,      \* declared types: name -> description
    ByteBits,   \* 8, the bits of a byte
    PtrSize,    \* the bytes of a pointer
    Host,       \* the debugger's byte order
    Debuggees,  \* debuggees: byte order, objects, symbols, functions
    Memories,   \* what is in their memories
    Casts,      \* types a client casts to
    Numbers,    \* numbers a client writes
    Steps,      \* what a client adds to pointers
    MaxCalls    \* bound: calls of a client

(* A type is a name, or a pointer to a type: <<"ptr", "ptr", name>> *)
Pointer(t) == <<"ptr">> \o t

Orders == {"little", "big"}

(* TLC keeps the values of definitions, not those put in for constants *)
Decl   == Types
Images == Debuggees

ASSUME SizesAssumption ==
    /\ ByteBits \in Nat \ {0} /\ PtrSize \in {1, 2, 4, 8} /\ Host \in Orders
    /\ Numbers \subseteq Int /\ Steps \subseteq Int /\ MaxCalls \in Nat

VARIABLES
    image,   \* the one of Debuggees
    mem,     \* its memory now
    dynamic, \* value_context_impl::dynamic_types_
    val,     \* the value in the client's hands
    old,     \* a value it has kept
    shared,  \* whether both have the same temporary storage
    honest,  \* whether the client has only navigated, from an object
    calls,   \* calls so far
    failed   \* whether the last call has thrown a format_error

debuggee == <<image, mem, dynamic>>

Target == Images[image]

vars     == <<debuggee, val, old, shared, honest, calls, failed>>

Power(b, k) ==
    LET p[i \in 0 .. k] == IF i = 0 THEN 1 ELSE b * p[i - 1]
    IN  p[k]

Radix == Power(2, ByteBits)
Wide  == Power(Radix, 8)                \* std::uint64_t wraps here

-----------------------------------------------------------------------------
(* Types *)

TypeIds ==
    {t \in Seq({"ptr"} \cup DOMAIN Decl) :
        t # <<>> /\ t[Len(t)] \in DOMAIN Decl /\ \A i \in 1 .. Len(t) - 1 : t[i] = "ptr"}

(* type_impl_common::untypedef *)
Untypedef[t \in TypeIds] ==
    IF Len(t) > 1 \/ Decl[t[1]].kind # "typedef" THEN t ELSE Untypedef[Decl[t[1]].base]

(* The kind and size of a value are those of its type without typedefs:    *)
(* is_bool, ...                                                            *)
BareKind(u) == IF Len(u) > 1 THEN "pointer" ELSE Decl[u[1]].kind
BareSize(u) == IF Len(u) > 1 THEN PtrSize ELSE Decl[u[1]].size

Kind(t) == BareKind(Untypedef[t])
Size(t) == BareSize(Untypedef[t])

Base(t) == Tail(Untypedef[t])           \* of a pointer

Record(t) == Decl[Untypedef[t][1]]

IsDynamic(t) == Kind(t) = "record" /\ Record(t).dynamic

(* A field that is no bit-field, as create_field_val tells *)
IsWhole(f) == f.offset % ByteBits = 0 /\ f.bits = Size(f.type) * ByteBits

(* The objects in objects of a debuggee, by C++'s rules: their bases, the  *)
(* members that are no bit-fields, the elements of arrays                  *)
BasesIn(p) ==
    IF Kind(p[1]) # "record" THEN {}
    ELSE {<<Untypedef[b.type], p[2] + b.offset \div ByteBits>> :
            b \in {Record(p[1]).bases[i] : i \in DOMAIN Record(p[1]).bases}}

PartsIn(p) ==
    CASE Kind(p[1]) = "record" ->
            BasesIn(p) \cup
            {<<Untypedef[f.type], p[2] + f.offset \div ByteBits>> :
                f \in {f \in {Record(p[1]).fields[i] : i \in DOMAIN Record(p[1]).fields} :
                        IsWhole(f)}}
      [] Kind(p[1]) \in {"array", "vector"} ->
            {<<Untypedef[Record(p[1]).base], p[2] + i * Size(Record(p[1]).base)>> :
                i \in 0 .. Record(p[1]).length - 1}
      [] OTHER -> {}

(* The types of the objects in an object of declared type n *)
MadeOf(n) ==
    CASE Decl[n].kind = "record" ->
            {Untypedef[Decl[n].bases[i].type] : i \in DOMAIN Decl[n].bases} \cup
            {Untypedef[Decl[n].fields[i].type] : i \in DOMAIN Decl[n].fields}
      [] Decl[n].kind \in {"array", "vector"} -> {Untypedef[Decl[n].base]}
      [] OTHER -> {}

(* Declarations name declared types, no typedef is its own and no object   *)
(* is in one of its type, a record's members and those of its bases lie in *)
(* it, bases at whole bytes, members in the order of their offsets, and    *)
(* values are too small for a client's calls to lead around the address    *)
(* space                                                                   *)
Far == Wide \div (MaxCalls + 3)

Typedefs   == {n \in DOMAIN Decl : Decl[n].kind = "typedef"}
Aggregates == {n \in DOMAIN Decl : Decl[n].kind \in {"record", "array", "vector"}}

ASSUME TypesAssumption ==
    /\ IsFiniteSet(DOMAIN Decl) /\ "fn" \in DOMAIN Decl
    /\ Casts \subseteq TypeIds /\ Far >= 24
    /\ \A n \in DOMAIN Decl :
        LET d == Decl[n] IN
        /\ d.kind # "pointer"
        /\ d.kind # "typedef" => d.size \in Nat /\ 3 * d.size <= Far
        /\ d.kind \in {"typedef", "array", "vector"} => d.base \in TypeIds
        /\ d.kind \in {"array", "vector"} => d.length \in Nat
        /\ d.kind = "memptr" => d.object \in TypeIds /\ Kind(d.object) = "record"
        /\ d.kind = "record" =>
            /\ d.bases \in Seq([type : TypeIds, offset : 0 .. Far \div 2])
            /\ \A i \in DOMAIN d.bases :
                /\ Kind(d.bases[i].type) = "record" /\ d.bases[i].offset % ByteBits = 0
                /\ LET fs == Record(d.bases[i].type).fields IN
                   \A j \in DOMAIN fs :
                        d.bases[i].offset + fs[j].offset + fs[j].bits <= d.size * ByteBits
            /\ d.fields \in Seq([name : STRING, type : TypeIds, offset : 0 .. Far \div 2,
                                 bits : 0 .. Far])
            /\ \A i \in DOMAIN d.fields :
                /\ d.fields[i].offset + d.fields[i].bits <= d.size * ByteBits
                /\ \A j \in DOMAIN d.fields : i < j => d.fields[i].offset <= d.fields[j].offset
                /\ ~IsWhole(d.fields[i]) =>        \* one byte, as create_field_val has it here
                        d.fields[i].bits # 0
                        /\ (d.fields[i].offset % ByteBits) + d.fields[i].bits <= ByteBits
            /\ d.functions \in [DOMAIN d.functions -> Nat]
    /\ \A S \in SUBSET Typedefs : S # {} => \E n \in S : \A m \in S : Decl[n].base # <<m>>
    /\ \A S \in SUBSET Aggregates : S # {} => \E n \in S : \A m \in S : <<m>> \notin MadeOf(n)

Closure(S, In(_)) ==
    LET With(T) == UNION {{p} \cup In(p) : p \in T}
        all[k \in 0 .. Cardinality(DOMAIN Decl)] == IF k = 0 THEN S ELSE With(all[k - 1])
    IN  all[Cardinality(DOMAIN Decl)]

Inside ==
    [n \in DOMAIN Images |->
        Closure({<<Untypedef[o.type], o.addr>> : o \in Images[n].objects}, PartsIn)]

BaseParts(o) == Closure({<<Untypedef[o.type], o.addr>>}, BasesIn)

ASSUME ImagesAssumption ==
    \A n \in DOMAIN Images :
        LET i == Images[n] IN
        /\ i.end \in Orders
        /\ Memories[n] \in [DOMAIN Memories[n] -> 0 .. Radix - 1]
        /\ DOMAIN Memories[n] \subseteq 0 .. Wide - 1
        /\ i.known \subseteq DOMAIN Decl
        /\ i.objects \subseteq [type : TypeIds, addr : 0 .. Wide - 1]
        /\ i.roots \subseteq i.objects
        /\ \A f \in i.functions : f.record \in TypeIds \cup {<<>>}
        /\ \A r \in i.registers : r.as \in i.objects

(* Member functions are where the debug information says, alone and within *)
(* a pointer's reach                                                       *)
ASSUME FunctionsAssumption ==
    \A d \in {Decl[t] : t \in DOMAIN Decl} : d.kind = "record" =>
        \A nm \in DOMAIN d.functions : d.functions[nm] # 0 =>
            /\ d.functions[nm] < Power(Radix, PtrSize)
            /\ \A n \in DOMAIN Images :
                LET there == {f \in Images[n].functions : d.functions[nm] \in f.lo .. f.hi}
                IN  there # {} /\ \A f \in there : f.name = nm /\ f.lo = d.functions[nm]

-----------------------------------------------------------------------------
(* Storages and numbers: data::accessor, data::vector_storage *)

Values ==
    [type : TypeIds, store : {"memory", "temp"}, offset : 0 .. Wide - 1, bytes : Seq(0 .. Radix - 1)]

InMemory(t, a) == [type |-> t, store |-> "memory", offset |-> a, bytes |-> <<>>]

Temporary(t, b) == [type |-> t, store |-> "temp", offset |-> 0, bytes |-> b]

HasAddress(v) == v.store = "memory"

Type(v) == Untypedef[v.type]

At(v, o) == (v.offset + o) % Wide

(* vector_storage::read checks the end of what is read, which may wrap *)
CanRead(v, sz, o) ==
    IF HasAddress(v) THEN \A k \in 0 .. sz - 1 : At(v, o) + k \in DOMAIN mem
    ELSE (sz + At(v, o)) % Wide <= Len(v.bytes)

ReadRaw(v, sz, o) ==
    [k \in 1 .. sz |-> IF HasAddress(v) THEN mem[At(v, o) + k - 1] ELSE v.bytes[At(v, o) + k]]

Backwards(s) == [k \in DOMAIN s |-> s[Len(s) + 1 - k]]

(* accessor::read and write reverse the bytes of another byte order *)
InHostOrderSlip(s) == s

InHostOrder(s) == IF Target.end = Host THEN s ELSE Backwards(s)

LowFirst(s) == IF Host = "little" THEN s ELSE Backwards(s)

Number(s) ==                            \* of bytes in host order
    LET sum[k \in 0 .. Len(s)] ==
            IF k = 0 THEN 0 ELSE sum[k - 1] + LowFirst(s)[k] * Power(Radix, k - 1)
    IN  sum[Len(s)]

Digits(n, sz) ==
    LowFirst([k \in 1 .. sz |-> ((n % Power(Radix, sz)) \div Power(Radix, k - 1)) % Radix])

Signed(n, sz) == IF 2 * n >= Power(Radix, sz) THEN n - Power(Radix, sz) ELSE n

(* The sizes read_unsigned, write_unsigned, ... know *)
IsNumber(v, sz, o) == sz \in {1, 2, 4, 8} /\ CanRead(v, sz, o)

ReadUnsigned(v, sz, o) == Number(InHostOrder(ReadRaw(v, sz, o)))

HasUint[v \in Values] == IsNumber(v, Size(v.type), 0)

AsUint[v \in Values] == ReadUnsigned(v, Size(v.type), 0)

AsInt(v) == Signed(AsUint[v], Size(v.type))

AsBool(v) == AsUint[v] # 0

(* Number n in a temporary: the constructor, then write_unsigned *)
NumberIn(t, n) == Temporary(t, InHostOrder(Digits(n, Size(t))))

-----------------------------------------------------------------------------
(* Navigation.  Each call has a condition, Can..., without which it throws *)

Moved(v, t, o) == [v EXCEPT !.type = t, !.offset = (@ + o) % Wide]

IsRecord(v)  == Kind(v.type) = "record"
IsPointer(v) == Kind(v.type) = "pointer"
IsArray(v)   == Kind(v.type) \in {"array", "vector"}

(* create_field_val.  Bit-fields are read at once, into a temporary which  *)
(* is written in host order; here they lie in one byte (module BitField    *)
(* has the others).                                                        *)
IsBuiltin(t) ==
    Kind(t) \in {"bool", "signed", "unsigned", "complex_signed", "complex_unsigned"}

CanCreateField(f) == IsWhole(f) \/ (IsBuiltin(f.type) /\ Size(f.type) <= 8)

FieldBits(v, f) ==
    LET byte == ReadRaw(v, 1, f.offset \div ByteBits)[1]
    IN  (byte \div Power(2, f.offset % ByteBits)) % Power(2, f.bits)

FieldNumber(v, f) ==
    IF Kind(f.type) # "unsigned" /\ FieldBits(v, f) >= Power(2, f.bits - 1)
    THEN FieldBits(v, f) - Power(2, f.bits) ELSE FieldBits(v, f)

CreateField(v, f) ==
    IF IsWhole(f) THEN Moved(v, f.type, f.offset \div ByteBits)
    ELSE IF ~CanRead(v, 1, f.offset \div ByteBits)
         THEN Temporary(f.type, <<>>)   \* an error_storage
    ELSE Temporary(f.type, Digits(FieldNumber(v, f), Size(f.type)))

CanFieldAt(v, i) ==
    IsRecord(v) /\ i \in DOMAIN Record(v.type).fields /\ CanCreateField(Record(v.type).fields[i])

FieldAt(v, i) == CreateField(v, Record(v.type).fields[i])

(* record_type_impl::find_field: a record's own field before those of its  *)
(* bases, in their order; the offset is in bits from the record's start    *)
Found(t, nm) ==
    LET Own(r, o) == {[type |-> r.fields[i].type, offset |-> o + r.fields[i].offset,
                       bits |-> r.fields[i].bits] : i \in {i \in DOMAIN r.fields : r.fields[i].name = nm}}
        r  == Record(t)
        in == [b \in DOMAIN r.bases |-> Own(Record(r.bases[b].type), r.bases[b].offset)]
        bs == {b \in DOMAIN in : in[b] # {}}
    IN  IF Own(r, 0) # {} THEN Own(r, 0)
        ELSE IF bs = {} THEN {} ELSE in[CHOOSE b \in bs : \A c \in bs : b <= c]

TheField(t, nm) == CHOOSE f \in Found(t, nm) : TRUE

CanAllField(v, nm) ==
    IsRecord(v) /\ Found(v.type, nm) # {} /\ CanCreateField(TheField(v.type, nm))

AllField(v, nm) == CreateField(v, TheField(v.type, nm))

(* has_field and field: of the record alone, not of its bases.  field      *)
(* throws when it has found the field.  When it has not, it goes on to     *)
(* make a value of no type, which nothing here is about: the program ends. *)
HasField(v, nm) ==
    IsRecord(v) /\ \E i \in DOMAIN Record(v.type).fields : Record(v.type).fields[i].name = nm

CanField(v, nm) == IsRecord(v) /\ ~HasField(v, nm)

CanBaseAt(v, i) == IsRecord(v) /\ i \in DOMAIN Record(v.type).bases

BaseAtSlip(v, i) ==
    LET b == Record(v.type).bases[i] IN [v EXCEPT !.type = b.type, !.offset = b.offset \div ByteBits]

BaseAt(v, i) ==
    LET b == Record(v.type).bases[i] IN Moved(v, b.type, b.offset \div ByteBits)

(* array_at, vector_at: no index is checked *)
ElementAt(v, i) == Moved(v, Record(v.type).base, Size(Record(v.type).base) * i)

Cast(v, t) == Moved(v, t, 0)

(* ptr: the offset, whichever storage it is in *)
Ptr(v) == NumberIn(Pointer(Type(v)), v.offset)

(* all_field_pointer *)
CanFieldPointer(v, nm) ==
    /\ IsRecord(v) /\ Found(v.type, nm) # {}
    /\ TheField(v.type, nm).offset % ByteBits = 0
    /\ TheField(v.type, nm).bits % ByteBits = 0
    /\ HasAddress(v)

(* A bit-field of whole bytes, at the start of a byte: all_field_pointer   *)
(* takes it for a member of its type.                                      *)
ByteWide(f) == ~IsWhole(f) /\ f.offset % ByteBits = 0 /\ f.bits % ByteBits = 0

FieldPointerSlip(v, nm) ==
    NumberIn(Pointer(TheField(v.type, nm).type), v.offset + TheField(v.type, nm).offset)

FieldPointer(v, nm) ==
    NumberIn(Pointer(TheField(v.type, nm).type),
             v.offset + TheField(v.type, nm).offset \div ByteBits)

-----------------------------------------------------------------------------
(* Pointers *)

CanAdd(v) == IsPointer(v) /\ Size(Base(v.type)) # 0 /\ HasUint[v]

AddSlip(v, n) == NumberIn(Type(v), AsUint[v] + n)

Add(v, n) == NumberIn(Type(v), (AsUint[v] + Size(Base(v.type)) * n) % Wide)

CanDifference(v, w) == CanAdd(v) /\ IsPointer(w) /\ Type(v) = Type(w) /\ HasUint[w]

Difference(v, w) ==
    IF AsUint[v] >= AsUint[w] THEN (AsUint[v] - AsUint[w]) \div Size(Base(v.type))
    ELSE -((AsUint[w] - AsUint[v]) \div Size(Base(v.type)))

(* What the backend knows of an address: obj_at_addr, sym_at_addr *)
ObjectsAt(a) == {f \in Target.functions : a \in f.lo .. f.hi}
SymbolsAt(a) == {s \in Target.symbols : a \in s.lo .. s.hi}

(* function_name, of pointers only, and function_offset *)
FunctionName(v)   == CHOOSE f \in ObjectsAt(AsUint[v]) : TRUE
FunctionOffset(v) == AsUint[v] - FunctionName(v).lo

(* mem_fun_ptr *)
CanMemFunPtr(v, nm) ==
    IsRecord(v) /\ nm \in DOMAIN Record(v.type).functions /\ Record(v.type).functions[nm] # 0

MemFunPtr(v, nm) == NumberIn(Pointer(<<"fn">>), Record(v.type).functions[nm])

(* value_context_impl::dynamic_type_at_addr of the cm backend: the types   *)
(* an application has registered for addresses                             *)
FromContext(a, t) ==
    IF a \in DOMAIN dynamic THEN [type |-> dynamic[a].type, addr |-> dynamic[a].addr]
    ELSE [type |-> t, addr |-> a]

Word(a) == InMemory(Pointer(<<"fn">>), a)

(* The record named by the symbol of a virtual table: found by name, in    *)
(* one of the two spellings compilers use, or as the record of the first   *)
(* virtual function                                                        *)
FirstFunctions(vt) == IF HasUint[Word(vt)] THEN ObjectsAt(AsUint[Word(vt)]) ELSE {}

RecordsOf(sym, vt) ==
    IF sym.of \in Target.known THEN {<<sym.of>>}
    ELSE {f.record : f \in {f \in FirstFunctions(vt) : f.record # <<>>}}

(* The offset of a table's object from its complete object: two pointers   *)
(* before the functions                                                    *)
TopOffset(vt) == Word(vt - 2 * PtrSize)

StartSlip(a, vt) == a - AsInt(TopOffset(vt))

Start(a, vt) == (a + AsInt(TopOffset(vt))) % Wide

(* dynamic_type_at_addr, for the pointer to type t at address a *)
DynamicType(a, t) ==
    LET vt   == AsUint[Word(a)]
        syms == {s \in SymbolsAt(vt) : s.vtable}
        recs == UNION {RecordsOf(s, vt) : s \in syms}
    IN  IF /\ IsDynamic(Base(t)) /\ HasUint[Word(a)] /\ recs # {}
           /\ vt >= 2 * PtrSize /\ HasUint[TopOffset(vt)]
        THEN [type |-> Pointer(CHOOSE r \in recs : TRUE), addr |-> Start(a, vt)]
        ELSE FromContext(a, t)

CanDereference(v) == IsPointer(v) /\ HasUint[v]

Dereference(v, resolve) ==
    IF resolve /\ Kind(Base(v.type)) = "record"
    THEN LET d == DynamicType(AsUint[v], Type(v)) IN InMemory(Base(d.type), d.addr)
    ELSE InMemory(Base(v.type), AsUint[v])

(* mem_var_ptr_field_name_and_def_pos: fields in order, up to one beyond *)
MemVar(v) ==
    LET fs == Record(Record(v.type).object).fields
        o  == (AsUint[v] * ByteBits) % Wide
        ks == {k \in DOMAIN fs : fs[k].offset >= o}
        k  == CHOOSE k \in ks : \A j \in ks : k <= j
    IN  IF ks # {} /\ fs[k].offset = o THEN {fs[k].name} ELSE {}

-----------------------------------------------------------------------------
(* What compilers put into the debuggee's memory *)

HasWord(n, a) == \A k \in 0 .. PtrSize - 1 : a + k \in DOMAIN Memories[n]

WordAt(n, a) ==                         \* the pointer at address a
    LET s == [k \in 1 .. PtrSize |-> Memories[n][a + k - 1]]
    IN  Number(IF Images[n].end = Host THEN s ELSE Backwards(s))

(* The virtual table that the part at address a of an object points to is  *)
(* one of that object's class, whose name is its symbol's, and has the way *)
(* back to the object's start two pointers before the functions            *)
HasTable(n, a, object) ==
    LET vt    == WordAt(n, a)
        there == {s \in Images[n].symbols : s.vtable /\ vt \in s.lo .. s.hi}
    IN  /\ HasWord(n, a) /\ vt >= 2 * PtrSize /\ HasWord(n, vt - 2 * PtrSize)
        /\ Signed(WordAt(n, vt - 2 * PtrSize), PtrSize) = object[2] - a
        /\ there # {} /\ \A s \in there : <<s.of>> = object[1]

(* Objects lie within a pointer's reach, and each that has virtual         *)
(* functions points to the table of the object it is a base of; those that *)
(* are listed are bases of none                                            *)
ASSUME ObjectsAssumption ==
    \A n \in DOMAIN Images :
        /\ \A p \in Inside[n] :
            /\ p[2] \in 0 .. Power(Radix, PtrSize) - 1
            /\ IsDynamic(p[1]) => \E object \in Inside[n] : HasTable(n, p[2], object)
        /\ \A o \in Images[n].objects :
            IsDynamic(o.type) =>
                /\ Untypedef[o.type] = o.type
                /\ \A p \in BaseParts(o) :
                    IsDynamic(p[1]) => HasTable(n, p[2], <<o.type, o.addr>>)

-----------------------------------------------------------------------------
(* The client's calls *)

Throw == failed' = TRUE /\ UNCHANGED <<val, shared, honest>>

Called == calls < MaxCalls /\ calls' = calls + 1

(* A value in the place of val; keeps tells whether it is in val's storage *)
Obtain(can, v, keeps, fair) ==
    /\ IF ~can THEN Throw
       ELSE /\ val' = v
            /\ shared' = (shared /\ keeps)
            /\ honest' = (honest /\ fair)
            /\ failed' = FALSE
    /\ Called
    /\ UNCHANGED <<debuggee, old>>

Names == UNION {{f.name : f \in {Decl[n].fields[i] : i \in DOMAIN Decl[n].fields}} :
                    n \in {n \in DOMAIN Decl : Decl[n].kind = "record"}}

FunctionNames == UNION {DOMAIN Decl[n].functions : n \in {n \in DOMAIN Decl : Decl[n].kind = "record"}}

GoToField(i) ==
    Obtain(CanFieldAt(val, i), FieldAt(val, i), IsWhole(Record(val.type).fields[i]), TRUE)

GoToNamed(nm) ==
    Obtain(CanAllField(val, nm), AllField(val, nm), IsWhole(TheField(val.type, nm)), TRUE)

GoToOwn(nm) ==
    /\ IsRecord(val) => HasField(val, nm)
    /\ Obtain(CanField(val, nm), AllField(val, nm), IsWhole(TheField(val.type, nm)), TRUE)

GoToBase(i) == Obtain(CanBaseAt(val, i), BaseAt(val, i), TRUE, TRUE)

(* operator[], also of an index beyond the array *)
GoToElement(i) ==
    Obtain(IsArray(val), ElementAt(val, i), TRUE, i < Record(val.type).length)

GoToCast(t) == Obtain(TRUE, Cast(val, t), TRUE, t = val.type)

TakePtrSlip == Obtain(TRUE, Ptr(val), TRUE, HasAddress(val))

TakePtr == Obtain(TRUE, Ptr(val), FALSE, HasAddress(val))

TakeFieldPointer(nm) ==
    Obtain(CanFieldPointer(val, nm), FieldPointer(val, nm), FALSE,
           ~ByteWide(TheField(val.type, nm)))

TakeFunction(nm) == Obtain(CanMemFunPtr(val, nm), MemFunPtr(val, nm), FALSE, TRUE)

(* Whether address a holds an object of type t *)
Holds(a, t) == <<Untypedef[t], a>> \in Inside[image]

StepPointer(n) ==
    Obtain(CanAdd(val), Add(val, n), FALSE,
           /\ Holds(AsUint[val], Base(val.type))
           /\ Holds(AsUint[val] + n * Size(Base(val.type)), Base(val.type)))

(* What a table without debug information tells of is not told of here *)
Unnamed(v) ==
    \E s \in SymbolsAt(AsUint[Word(AsUint[v])]) : s.vtable /\ s.of \notin Target.known

Follow(resolve) ==
    Obtain(CanDereference(val), Dereference(val, resolve), FALSE,
           /\ Holds(AsUint[val], Base(val.type))
           /\ (resolve /\ IsDynamic(Base(val.type))) => ~Unnamed(val)
           /\ AsUint[val] \notin DOMAIN dynamic)

Keep ==
    /\ old' = val
    /\ shared' = ~HasAddress(val)
    /\ failed' = FALSE
    /\ Called
    /\ UNCHANGED <<debuggee, val, honest>>

(* Bytes s stored at offset o of val's place *)
Stored(s, o) ==
    IF HasAddress(val)
    THEN /\ mem' = [a \in DOMAIN mem |->
                        IF a \in At(val, o) .. At(val, o) + Len(s) - 1
                        THEN s[a - At(val, o) + 1] ELSE mem[a]]
         /\ UNCHANGED <<val, old>>
    ELSE LET new == [k \in DOMAIN val.bytes |->
                        IF k \in At(val, o) + 1 .. At(val, o) + Len(s)
                        THEN s[k - At(val, o)] ELSE val.bytes[k]]
         IN  /\ val' = [val EXCEPT !.bytes = new]
             /\ old' = IF shared THEN [old EXCEPT !.bytes = new] ELSE old
             /\ UNCHANGED mem

Store(can, s, o) ==
    /\ Called
    /\ IF can THEN Stored(s, o) /\ honest' = FALSE /\ failed' = FALSE
       ELSE failed' = TRUE /\ UNCHANGED <<mem, val, old, honest>>
    /\ UNCHANGED <<image, dynamic, shared>>

(* write_int64, write_uint64, operator<< *)
WriteNumber(n) == Store(HasUint[val], InHostOrder(Digits(n, Size(val.type))), 0)

WriteBool(b) ==
    Store(Kind(val.type) = "bool" /\ HasUint[val],
          InHostOrder(Digits(IF b THEN 1 ELSE 0, Size(val.type))), 0)

(* The halves of complex values *)
IsComplex(v) == Kind(v.type) \in {"complex_signed", "complex_unsigned"}
Half(v)      == Size(v.type) \div 2
PartOffset(v, part) == IF part = "img" THEN Half(v) ELSE 0
ReadPart(v, part)   == ReadUnsigned(v, Half(v), PartOffset(v, part))

WritePart(part, n) ==
    Store(IsComplex(val) /\ IsNumber(val, Half(val), PartOffset(val, part)),
          InHostOrder(Digits(n, Half(val))), PartOffset(val, part))

(* assign: the bytes as they are *)
Assign ==
    LET sz == Size(val.type) IN
    Store(sz = Size(old.type) /\ CanRead(old, sz, 0) /\ CanRead(val, sz, 0),
          ReadRaw(old, sz, 0), 0)

(* value_context_impl::add_dynamic_type: emplace keeps what is there *)
AddDynamicType(a, t, b) ==
    /\ dynamic' = IF a \in DOMAIN dynamic THEN dynamic
                  ELSE [x \in DOMAIN dynamic \cup {a} |->
                            IF x = a THEN [type |-> t, addr |-> b] ELSE dynamic[x]]
    /\ failed' = FALSE
    /\ Called
    /\ UNCHANGED <<image, mem, val, old, shared, honest>>

Init ==
    /\ image \in DOMAIN Images
    /\ mem = Memories[image]
    /\ dynamic = [a \in {} |-> 0]
    /\ \E r \in Target.roots : val = InMemory(r.type, r.addr)
    /\ old = val
    /\ shared = FALSE
    /\ honest = TRUE
    /\ calls = 0
    /\ failed = FALSE

Indices == 1 .. 4

Navigate ==
    \/ \E i \in Indices : GoToField(i) \/ GoToBase(i) \/ GoToElement(i - 1)
    \/ \E nm \in Names : GoToNamed(nm) \/ GoToOwn(nm) \/ TakeFieldPointer(nm)
    \/ \E nm \in FunctionNames : TakeFunction(nm)
    \/ \E t \in Casts : GoToCast(t)
    \/ TakePtr
    \/ \E n \in Steps : StepPointer(n)
    \/ \E resolve \in BOOLEAN : Follow(resolve)
    \/ Keep

Modify ==
    \/ \E n \in Numbers : WriteNumber(n) \/ WritePart("real", n) \/ WritePart("img", n)
    \/ \E b \in BOOLEAN : WriteBool(b)
    \/ Assign

Register == \E r \in Target.registers : AddDynamicType(r.addr, Pointer(r.as.type), r.as.addr)

Next == Navigate \/ Modify \/ Register

Spec == Init /\ [][Next]_vars

-----------------------------------------------------------------------------
(* Properties *)

IsValue(v) == v \in Values /\ (HasAddress(v) => v.bytes = <<>>)

(* The types; two values that share a temporary storage see the same bytes *)
(* in it, whichever of them has been written.                              *)
TypeOK ==
    /\ mem \in [DOMAIN Memories[image] -> 0 .. Radix - 1]
    /\ IsValue(val) /\ IsValue(old)
    /\ shared => ~HasAddress(val) /\ ~HasAddress(old) /\ val.bytes = old.bytes
    /\ calls \in 0 .. MaxCalls
    /\ \A a \in DOMAIN dynamic : dynamic[a].type \in TypeIds

(* Byte k of number n, which has sz bytes, as the debuggee stores it *)
ByteOf(n, sz, k) ==
    LET place == IF Target.end = "little" THEN k ELSE sz - 1 - k
    IN  (n \div Power(Radix, place)) % Radix

(* Number n is now in the sz bytes from offset o of val's place, and       *)
(* nothing else has changed                                                *)
Landed(n, sz, o) ==
    LET first == At(val, o)
        New(at, byte) == IF at \in first .. first + sz - 1
                         THEN ByteOf(n % Power(Radix, sz), sz, at - first) ELSE byte
    IN  IF HasAddress(val) THEN \A a \in DOMAIN mem : mem'[a] = New(a, mem[a])
        ELSE mem' = mem /\ \A k \in DOMAIN val.bytes : val'.bytes[k] = New(k - 1, val.bytes[k])

(* What every write is: no value moves, and the client has no longer only  *)
(* navigated                                                               *)
InPlace == ~failed' /\ ~honest' /\ UNCHANGED <<image, dynamic, val.type, val.store, val.offset>>

(* A number that has been written is there to be read, in the debuggee's   *)
(* byte order and cut to the value's size, as an unsigned and as a signed  *)
(* number, a truth value as itself, a part of a complex number as that     *)
(* part; nothing else changes: neither another byte of the storage nor,    *)
(* when the value is a temporary, any byte of the debuggee's memory.       *)
WritesReadBack ==
    [][InPlace => LET sz == Size(val.type) IN
       /\ \A n \in Numbers :
            WriteNumber(n) /\ ~failed' =>
                /\ AsUint[val]' = n % Power(Radix, sz)
                /\ AsInt(val)' = Signed(n % Power(Radix, sz), sz)
                /\ Landed(n, sz, 0)
       /\ \A b \in BOOLEAN :
            WriteBool(b) /\ ~failed' => AsBool(val)' = b /\ Landed(IF b THEN 1 ELSE 0, sz, 0)
       /\ \A n \in Numbers, part \in {"real", "img"} :
            WritePart(part, n) /\ ~failed' =>
                /\ ReadPart(val, part)' = n % Power(Radix, sz \div 2)
                /\ Landed(n, sz \div 2, IF part = "real" THEN 0 ELSE sz \div 2)]_vars

Fits(a) == a \in 0 .. Power(Radix, PtrSize) - 1

(* Pointers compute as in C++: what is added is what the difference is,    *)
(* p + n points n elements further, a value's pointer points to the value, *)
(* the pointer to a member function to that function.                      *)
PointersAgree ==
    /\ CanAdd(val) =>
        \A n \in Steps :
            LET p == Add(val, n)
                a == AsUint[val] + n * Size(Base(val.type))
            IN  Fits(a) => /\ CanDifference(p, val)
                           /\ Difference(p, val) = n /\ Difference(val, p) = -n
                           /\ Dereference(p, FALSE) = InMemory(Base(val.type), a)
    /\ HasAddress(val) /\ Fits(val.offset) =>
            Dereference(Ptr(val), FALSE) = [val EXCEPT !.type = Type(val)]
    /\ \A nm \in FunctionNames :
        CanMemFunPtr(val, nm) =>
            LET p == MemFunPtr(val, nm) IN
            ObjectsAt(AsUint[p]) # {} /\ FunctionName(p).name = nm /\ FunctionOffset(p) = 0

(* What a bit-field shows is its bits, although it is written in the       *)
(* host's byte order and read in the debuggee's - of more than one byte    *)
(* only where these are the same.  A member by name, the same by number    *)
(* (when no other has its name) and the same through its pointer are one;  *)
(* bit-fields and members of temporaries have no pointer.  A pointer to    *)
(* member names a member that it designates, if there is one (the search   *)
(* stops at the first one beyond, and members are in the order of their    *)
(* offsets) - unless it is that far out that its offset in bits wraps.     *)
FieldsAgree ==
    /\ (Kind(val.type) = "memptr" /\ HasUint[val] /\ AsUint[val] * ByteBits < Wide) =>
        LET fs    == Record(Record(val.type).object).fields
            there == {fs[i].name : i \in {i \in DOMAIN fs : fs[i].offset = AsUint[val] * ByteBits}}
        IN  MemVar(val) \subseteq there /\ (MemVar(val) = {} => there = {})
    /\ IsRecord(val) =>
        /\ \A nm \in Names :
            (/\ CanFieldPointer(val, nm)
             /\ ~ByteWide(TheField(val.type, nm))
             /\ Fits(val.offset + Size(val.type))) =>
                    /\ CanAllField(val, nm)
                    /\ Dereference(FieldPointer(val, nm), FALSE) = AllField(val, nm)
        /\ \A i \in DOMAIN Record(val.type).fields :
            LET f == Record(val.type).fields[i] IN
            CanFieldAt(val, i) =>
                /\ (\A j \in DOMAIN Record(val.type).fields :
                        Record(val.type).fields[j].name = f.name => j = i) =>
                    FieldAt(val, i) = AllField(val, f.name)
                /\ (~IsWhole(f) /\ HasUint[FieldAt(val, i)] /\ (Target.end = Host \/ Size(f.type) = 1)) =>
                    /\ AsUint[FieldAt(val, i)] % Power(2, f.bits) = FieldBits(val, f)
                    /\ (Kind(f.type) = "signed") =>
                        AsInt(FieldAt(val, i)) \in -(Power(2, f.bits - 1)) .. Power(2, f.bits - 1) - 1
                /\ ~IsWhole(f) => ~HasAddress(FieldAt(val, i))
        /\ ~HasAddress(val) => \A nm \in Names : ~CanFieldPointer(val, nm)

(* Whoever starts from an object of the debuggee and only navigates -      *)
(* members, bases, elements, pointers to objects and steps inside arrays - *)
(* has in hand an object of the debuggee, of the type it has there, or a   *)
(* pointer to one.                                                         *)
ObjectsOnly ==
    honest =>
        /\ HasAddress(val) => Holds(val.offset, val.type)
        /\ ~HasAddress(val) /\ IsPointer(val) /\ Base(val.type) # <<"fn">> =>
            Holds(AsUint[val], Base(val.type))

(* The table of the object is that of a class the debug information does   *)
(* not know, whose first virtual function a base has: that base is shown   *)
(* where the whole object starts.                                          *)
Inherited(o, r) ==
    \E f \in Target.functions : f.record # o.type /\ r = InMemory(f.record, o.addr)

(* Through a pointer to any of its bases an object is shown whole: with    *)
(* the type its virtual table names (while it is constructed that of the   *)
(* base under construction), from where it starts.  Only when that type    *)
(* has no debug information it is shown as what the pointer says, or as    *)
(* what the application has registered for that address.                   *)
DynamicTypeRight ==
    honest /\ CanDereference(val) /\ IsDynamic(Base(val.type)) =>
        \A o \in Target.objects :
            IsDynamic(o.type) /\ <<Untypedef[Base(val.type)], AsUint[val]>> \in BaseParts(o) =>
                LET r == Dereference(val, TRUE)
                    c == FromContext(AsUint[val], Type(val))
                IN  \/ r = InMemory(o.type, o.addr)
                    \/ o.type[1] \notin Target.known /\ r = InMemory(Base(c.type), c.addr)
                    \/ o.type[1] \notin Target.known /\ Inherited(o, r)
=============================================================================
