------------------------------ MODULE Holders ------------------------------
(***************************************************************************)
(* The formatters of values that hold other values: std::any, function,    *)
(* bind, variant, optional, tuple, the smart pointers, and durations and   *)
(* time points (src/src/stl).  any and function find the type of what they *)
(* hold through the name, or the class, of a manager function: the lookups *)
(* are TypeContext's.                                                      *)
(*                                                                         *)
(* rep is what the debuggee has in the holder, stored the list of what     *)
(* that stands for.  How the libraries store a holder (the Intact...       *)
(* definitions) is known from their headers and from the tests' models of  *)
(* them.  An object with fields and bases is a tree; an empty class is     *)
(* stored as a base, anything else as a field.                             *)
(***************************************************************************)
EXTENDS TypeContext, Chrono

CONSTANTS
    Kinds,       \* kinds of holders considered
    Item,        \* what is held: the elements, alternatives or arguments, in order
    MaxElems,    \* bound: elements of a tuple, alternatives of a variant, arguments
    MaxOwners,   \* bound: owners and observers of a shared pointer
    Counts,      \* counts of durations
    Word,        \* 2^64, the modulus of unsigned reads
    AddressSize, \* context::address_size
    Functors,    \* types held by any and function
    SizeOf,      \* their sizes
    Trivial,     \* those whose copies are copies of their bytes
    Managers,    \* the classes of manager functions
    Asking,      \* bound: the kinds beside which the application asks about types
    MaxChanges   \* bound: times the debuggee runs

ASSUME HoldersAssumption ==
    /\ Functors \cup Managers \subseteq Terms /\ Trivial \subseteq Functors
    /\ {MaxElems, MaxOwners, MaxChanges} \subseteq Nat /\ Counts \subseteq Int
    /\ Word \in Nat /\ Word > MaxOwners + 2 /\ AddressSize \in Nat
    /\ SizeOf \in [Functors -> Nat]
    /\ Item \in Seq(STRING) /\ "value" \notin Part(Item)
    /\ Len(Item) >= 2 /\ Len(Item) >= MaxElems
    /\ Kinds \subseteq {"tuple", "libcxx_tuple", "unique_ptr", "shared_ptr", "libcxx_shared_ptr",
                        "optional", "variant", "function", "any", "libcxx_function", "bind",
                        "duration", "time_point"}

ASSUME ItemAssumption == "" \notin Part(Item)

VARIABLES
    kind, rep, stored,
    intact,      \* whether only the library has changed the holder
    fresh,       \* whether the debuggee has not run since it was formatted
    changes,     \* times the debuggee has run
    kept         \* what the result on display keeps of the holder

holder == <<kind, rep, stored, intact, changes>>
vars   == <<typeVars, answer, holder, fresh, kept>>

-----------------------------------------------------------------------------
(* How the libraries store what they hold *)

Obj(id, fs, bs) == [id |-> id, fields |-> fs, bases |-> bs, holds |-> ""]
NoFields        == [f \in {} |-> ""]
Leaf(name)      == [id |-> "", fields |-> NoFields, bases |-> <<>>, holds |-> name]
Field(nm, o)    == [f \in {nm} |-> o]

Held(r, s) == [rep |-> r, stored |-> s]

(* The element is a field of its base class, or a base if it is empty *)
InBase(nm, name, empty) ==
    IF empty THEN Obj("", NoFields, <<Leaf(name)>>) ELSE Obj("", Field(nm, Leaf(name)), <<>>)

(* _Tuple_impl number i has the impl of the rest and its own head as bases *)
TupleTree(n, empty) ==
    LET impl[i \in 1 .. n] ==
            LET head == InBase("_M_head_impl", Item[i], i \in empty)
            IN  Obj("", NoFields, IF i >= n THEN <<head>> ELSE <<impl[i + 1], head>>)
    IN  Obj("std::tuple", NoFields, IF n = 0 THEN <<>> ELSE <<impl[1]>>)

Elements(n) == SubSeq(Item, 1, n)

IntactTuple ==
    UNION {{Held(TupleTree(n, e), Elements(n)) : e \in SUBSET (1 .. n)} : n \in 0 .. MaxElems}

IntactLibcxxTuple ==
    {Held(Obj("", NoFields, <<>>), <<>>)}
    \cup UNION {{Held(Obj("", Field("__base_", Obj("", NoFields,
                                [i \in 1 .. n |-> InBase("__value_", Item[i], i \in e)])), <<>>),
                      Elements(n)) : e \in SUBSET (1 .. n)} : n \in 1 .. MaxElems}

(* The pointer and the deleter are a tuple, two classes deep since GCC 7 *)
IntactUnique ==
    LET tuple(e) == TupleTree(2, IF e THEN {2} ELSE {})
        Outer(o) == Obj("std::unique_ptr", Field("_M_t", o), <<>>)
        Impl(o)  == Obj("std::__uniq_ptr_impl", Field("_M_t", o), <<>>)
        Data(o)  == Obj("std::__uniq_ptr_data", Field("_M_t", o), <<>>)
    IN  UNION {{Held(Outer(tuple(e)), <<Item[1]>>), Held(Outer(Impl(tuple(e))), <<Item[1]>>),
                Held(Outer(Data(tuple(e))), <<Item[1]>>)} : e \in BOOLEAN}

(* The owners together count as one observer.  libc++ counts from -1, its  *)
(* observers from the owners' one on.                                      *)
Raw(libcxx, use, weak) ==
    LET all == weak + IF use > 0 THEN 1 ELSE 0
    IN  IF libcxx THEN [use |-> (use - 1) % Word, weak |-> (all - 1) % Word]
        ELSE [use |-> use, weak |-> all]

(* The block is gone, with its last owner and observer: no block to show *)
IntactShared(libcxx) ==
    {Held([block |-> FALSE, use |-> 0, weak |-> 0, libcxx |-> libcxx], <<0, 0>>)}
    \cup {Held([block |-> TRUE, use |-> Raw(libcxx, p[1], p[2]).use,
                weak |-> Raw(libcxx, p[1], p[2]).weak, libcxx |-> libcxx], p) :
            p \in {p \in (0 .. MaxOwners) \X (0 .. MaxOwners) : p # <<0, 0>>}}

(* The payload of an optional was a member of its own; in newer libraries  *)
(* the member of that name is a union, which has the value as _M_value.    *)
Payload(boxed) ==
    IF boxed THEN Obj("_Storage", Field("_M_value", Leaf(Item[1])), <<>>) ELSE Leaf(Item[1])

IntactOptional ==
    {Held([engaged |-> FALSE, boxed |-> b], <<>>) : b \in BOOLEAN}
    \cup {Held([engaged |-> TRUE, boxed |-> b], <<Item[1]>>) : b \in BOOLEAN}

(* A variant's union has the first alternative and the union of the rest,  *)
(* which for none is empty.  An alternative is stored as itself, or, if it *)
(* has a destructor of its own, as bytes.                                  *)
Alternative(i, boxed) ==
    Obj("_Uninitialized", Field("_M_storage",
            IF i \in boxed THEN Obj("__aligned_membuf", NoFields, <<>>) ELSE Leaf(Item[i])), <<>>)

VariantUnion(n, boxed) ==
    LET from[i \in 1 .. n + 1] ==
            Obj("_Variadic_union",
                IF i > n THEN NoFields
                ELSE [f \in {"_M_first", "_M_rest"} |->
                        IF f = "_M_first" THEN Alternative(i, boxed) ELSE from[i + 1]], <<>>)
    IN  from[1]

(* Nothing is stored after an assignment that threw, the index is all ones *)
NoAlternative == MaxElems + 1
IntactVariant ==
    UNION {{Held([alternatives |-> p[1], boxed |-> boxed, index |-> p[2]],
                 IF p[2] = NoAlternative THEN <<>> ELSE <<Item[p[2] + 1]>>) :
              boxed \in SUBSET (1 .. p[1])} :
        p \in {p \in (1 .. MaxElems) \X (0 .. NoAlternative) :
                        p[2] < p[1] \/ p[2] = NoAlternative}}

(* What the code model knows of an address *)
NoObject     == [k |-> "none"]
Variable     == [k |-> "variable"]
FreeFunction == [k |-> "function", of |-> <<>>]
Member(c)    == [k |-> "function", of |-> <<c>>]

Stored(t, at) == [type |-> t, at |-> at]
HeldBy(c)     == c.args[IF c.id = "_Function_handler" THEN 2 ELSE 1]

IsBind(t) == t.k = "instance" /\ t.id = "_Bind"

(* libstdc++ keeps what can be copied as bytes, if it fits *)
StoredLocally(t) == t \in Trivial /\ SizeOf[t] <= 2 * AddressSize

IntactFunction ==
    {Held([manager |-> Member(c), isNull |-> FALSE],
          <<Stored(HeldBy(c), IF StoredLocally(HeldBy(c)) THEN "buffer" ELSE "heap")>>) :
        c \in {c \in Managers : c.id \in {"_Function_handler", "_Base_manager"}}}
    \cup {Held([manager |-> NoObject, isNull |-> TRUE], <<>>)}

IntactAny ==
    {Held([manager |-> Member(c), isNull |-> FALSE],
          <<Stored(HeldBy(c), IF c.id = "_Manager_internal" THEN "buffer" ELSE "heap")>>) :
        c \in {c \in Managers : c.id \in {"_Manager_internal", "_Manager_external"}}}
    \cup {Held([manager |-> NoObject, isNull |-> TRUE], <<>>)}

(* libc++ before 20, 20 and 21, and from 22 on *)
IntactLibcxxFunction ==
    LET f == Leaf(Item[1])
        Func(fs) == Obj("__func", fs, <<>>)
        pair(e) == Obj("__compressed_pair", NoFields, <<InBase("__value_", Item[1], e)>>)
    IN  {Held([isNull |-> TRUE, func |-> f], <<>>),
         Held([isNull |-> FALSE, func |-> Func(Field("__func_", f))], <<Item[1]>>),
         Held([isNull |-> FALSE, func |-> Func(Field("__f_", Obj("", Field("__func_", f), <<>>)))],
              <<Item[1]>>)}
        \cup {Held([isNull |-> FALSE,
                    func |-> Func(Field("__f_", Obj("", Field("__f_", pair(e)), <<>>)))],
                   <<Item[1]>>) : e \in BOOLEAN}

(* bind keeps a pointer to a member function in a std::_Mem_fn *)
IntactBind ==
    UNION {{Held(Obj("std::_Bind", [f \in {"_M_f", "_M_bound_args"} |->
                        IF f = "_M_bound_args" THEN TupleTree(n, {})
                        ELSE IF wrapped THEN Obj("std::_Mem_fn", Field("_M_pmf", Leaf("target")), <<>>)
                        ELSE Leaf("target")], <<>>),
                 <<"target">> \o Elements(n)) : wrapped \in BOOLEAN} : n \in 0 .. MaxElems}

(* A duration's count, a whole number, and for a time point its clock *)
OtherRatio == 0
Clocks == {"system_clock", "steady_clock"}
IntactTime(clocks) ==
    {Held(r, <<>>) : r \in [count : Counts, unit : {OtherRatio} \cup Units, clock : clocks]}

IntactOf(k) ==
    CASE k = "tuple" -> IntactTuple
      [] k = "libcxx_tuple" -> IntactLibcxxTuple
      [] k = "unique_ptr" -> IntactUnique
      [] k = "shared_ptr" -> IntactShared(FALSE)
      [] k = "libcxx_shared_ptr" -> IntactShared(TRUE)
      [] k = "optional" -> IntactOptional
      [] k = "variant" -> IntactVariant
      [] k = "function" -> IntactFunction
      [] k = "any" -> IntactAny
      [] k = "libcxx_function" -> IntactLibcxxFunction
      [] k = "bind" -> IntactBind
      [] k = "duration" -> IntactTime({""})
      [] k = "time_point" -> IntactTime(Clocks)

-----------------------------------------------------------------------------
(* Values by their fields and bases: the set is empty when there is none,  *)
(* which the value layer reports as a format_error.                        *)

Get(os, nm) == UNION {IF nm \in DOMAIN o.fields THEN {o.fields[nm]} ELSE {} : o \in os}
Base(os, i) == UNION {IF i < Len(o.bases) THEN {o.bases[i + 1]} ELSE {} : o \in os}
Has(o, nm)  == nm \in DOMAIN o.fields

(* The field, or the base that stands for an empty element *)
FieldOrBase(os, nm) == UNION {IF Has(o, nm) THEN Get({o}, nm) ELSE Base({o}, 0) : o \in os}

(* stdcpp_tuple_element: down the impls, then to the head *)
TupleImpl(o, index) ==
    LET impl[i \in 0 .. index] == IF i = 0 THEN Base({o}, 0) ELSE Base(impl[i - 1], 0)
    IN  impl[index]

TupleElement(o, index) ==
    LET HeadBase(impl) == Base({impl}, IF Len(impl.bases) > 1 THEN 1 ELSE 0)
    IN  FieldOrBase(UNION {HeadBase(impl) : impl \in TupleImpl(o, index)}, "_M_head_impl")

(* stdcpp_tuple_size: until an impl with no other impl in it *)
TupleSize(o) ==
    LET IsLast(i) == \A impl \in TupleImpl(o, i) : Len(impl.bases) <= 1
    IN  IF Len(o.bases) = 0 THEN 0
        ELSE CHOOSE n \in 1 .. MaxElems + 2 : IsLast(n - 1) /\ \A m \in 1 .. n - 1 : ~IsLast(m - 1)

(* libcxx_tuple_formatter *)
LibcxxTupleSize(o) == IF Has(o, "__base_") THEN Len(o.fields["__base_"].bases) ELSE 0

LibcxxTupleElement(o, index) == FieldOrBase(Base(Get({o}, "__base_"), index), "__value_")

(* std_tuple_formatter::format_value: one element that cannot be had is an *)
(* error of the whole tuple                                                *)
Listed(elements) ==
    IF \E i \in DOMAIN elements : elements[i] = {} THEN {}
    ELSE {[i \in 1 .. Cardinality(DOMAIN elements) |->
            (CHOOSE e \in elements[i - 1] : TRUE).holds]}

(* stdcpp_unique_ptr_formatter::get_pointer *)
UniquePointer(o) ==
    LET child == Get({o}, "_M_t")
        Inner(c) == IF c.id \in {"std::__uniq_ptr_impl", "std::__uniq_ptr_data"}
                    THEN Get({c}, "_M_t") ELSE {c}
    IN  UNION {TupleElement(c, 0) : c \in UNION {Inner(c) : c \in child}}

(* get_use_count and get_weak_count of the shared_ptr formatters *)
UseCount(r) ==
    IF ~r.block THEN 0 ELSE IF r.libcxx THEN (r.use + 1) % Word ELSE r.use

WeakCount(r) == IF ~r.block THEN 0 ELSE r.weak

(* stdcpp_variant_formatter::format: index times into the rest *)
Rest(r, n) ==
    LET rest[i \in 0 .. n] ==
            IF i = 0 THEN {VariantUnion(r.alternatives, r.boxed)} ELSE Get(rest[i - 1], "_M_rest")
    IN  rest[n]

VariantStorageSlip(r) ==                \* stops one short
    Get(Get(Rest(r, IF r.index = 0 THEN 0 ELSE r.index - 1), "_M_first"), "_M_storage")

VariantStorage(r) == Get(Get(Rest(r, r.index), "_M_first"), "_M_storage")

(* What is stored in a union or in bytes is shown as those *)
OptionalShown(r) == IF r.engaged THEN {<<Payload(r.boxed).holds>>} ELSE {<<>>}

(* libcxx_function_formatter::format *)
LibcxxFunctor(func) ==
    IF Has(func, "__func_") THEN Get({func}, "__func_")
    ELSE UNION {IF Has(f, "__func_") THEN Get({f}, "__func_")
                ELSE FieldOrBase(Base(Get({f}, "__f_"), 0), "__value_") : f \in Get({func}, "__f_")}

(* bind_target and bound_arguments *)
BindTarget(o) ==
    UNION {IF t.id = "std::_Mem_fn" THEN Get({t}, "_M_pmf") ELSE {t} : t \in Get({o}, "_M_f")}

BoundArguments(o) ==
    UNION {Listed([i \in 0 .. TupleSize(a) - 1 |-> TupleElement(a, i)]) :
            a \in Get({o}, "_M_bound_args")}

-----------------------------------------------------------------------------
(* Functions and any: through the manager to the type, and from there to   *)
(* the place                                                               *)

IsFunctionPointer(t) ==
    t.k = "mem_ptr" \/ (t.k = "pointer" /\ t.args[1].k = "function")

Bytes(t) == IF t \in Functors THEN SizeOf[t] ELSE AddressSize

(* is_inline_functor *)
IsInlineSlip(t) == Bytes(t) < 2 * AddressSize /\ ~IsBind(t)

IsInline(t) == Bytes(t) <= 2 * AddressSize /\ ~IsBind(t)

PlaceOf(t) == IF IsFunctionPointer(t) \/ IsInline(t) THEN "buffer" ELSE "heap"

(* The manager's class, if it is a function of one: obj_at_addr,           *)
(* as_function and record_type throw otherwise                             *)
ManagerClass(m) == IF m.k = "function" /\ m.of # <<>> THEN {m.of[1]} ELSE {}

ParamIndex(c) == IF c.id = "_Function_handler" THEN 1 ELSE 0

(* The managers libstdc++ has, and what it keeps in the holder itself *)
ASSUME ManagersAssumption ==
    /\ \A c \in Managers :
        /\ c.k = "instance" /\ ParamIndex(c) < Len(c.args) /\ HeldBy(c) \in Functors
        /\ c.id \in {"_Function_handler", "_Base_manager", "_Manager_internal", "_Manager_external"}
    /\ \A t \in Functors :
        /\ t.k \notin {"namespace", "value"}
        /\ IsFunctionPointer(t) => t \in Trivial /\ SizeOf[t] <= 2 * AddressSize

TypeOfFunctor(m) == UNION {TemplateParamType(c, ParamIndex(c)) : c \in ManagerClass(m)}

(* When that throws: the parameter in the manager's name.  A pointer to a  *)
(* function need not be found, it is shown under the name.                 *)
NamedFunctor(m) ==
    LET NamedIn(c) ==
            IF c.k # "instance" \/ Len(c.args) <= ParamIndex(c) THEN {}
            ELSE LET t == c.args[ParamIndex(c) + 1]
                 IN  IF IsFunctionPointer(t) THEN {t} ELSE {FindType(Printed[t])} \ {Nothing}
    IN  UNION {NamedIn(c) : c \in ManagerClass(m)}

FunctionShown(r) ==
    IF r.isNull THEN {<<>>}
    ELSE LET ts == TypeOfFunctor(r.manager)
         IN  {<<Stored(t, PlaceOf(t))>> : t \in IF ts # {} THEN ts ELSE NamedFunctor(r.manager)}

(* stdcpp_any_formatter::format goes by the name only *)
AnyShown(r) ==
    LET NamedIn(c) == IF c.k # "instance" \/ c.args = <<>> THEN {}
                      ELSE {FindType(Printed[c.args[1]])} \ {Nothing}
        Place(c) == CASE c.id = "_Manager_internal" -> {"buffer"}
                      [] c.id = "_Manager_external" -> {"heap"}
                      [] OTHER -> {}
    IN  IF r.isNull THEN {<<>>}
        ELSE UNION {{<<Stored(t, at)>> : t \in NamedIn(c), at \in Place(c)} :
                        c \in ManagerClass(r.manager)}

-----------------------------------------------------------------------------
(* Formatting *)

Times == {"duration", "time_point"}

(* make_duration_and_apply finds the ratio in the name of the duration's   *)
(* type; other ratios than those of the units, and names that have none,   *)
(* are format_errors.  (What follows "std::ratio<" in a type's name is a   *)
(* number: compilers write nothing else, and std::stoll would throw.)      *)
HasRatio(r) == r.unit # OtherRatio

(* What the formatter of the kind shows, or nothing if it throws *)
Shown(k, r) ==
    CASE k = "tuple" -> Listed([i \in 0 .. TupleSize(r) - 1 |-> TupleElement(r, i)])
      [] k = "libcxx_tuple" ->
             Listed([i \in 0 .. LibcxxTupleSize(r) - 1 |-> LibcxxTupleElement(r, i)])
      [] k = "unique_ptr" -> {<<o.holds>> : o \in UniquePointer(r)}
      [] k \in {"shared_ptr", "libcxx_shared_ptr"} -> {<<"pointer">>}
      [] k = "optional" -> OptionalShown(r)
      [] k = "variant" -> {<<o.holds>> : o \in VariantStorage(r)}
      [] k = "function" -> FunctionShown(r)
      [] k = "any" -> AnyShown(r)
      [] k = "libcxx_function" ->
             IF r.isNull THEN {<<>>} ELSE {<<o.holds>> : o \in LibcxxFunctor(r.func)}
      [] k = "bind" -> {<<t.holds>> \o as : t \in BindTarget(r), as \in BoundArguments(r)}

None == [what |-> "none"]

(* The type objects made on the way: the manager's class, the held type *)
Touched(k, r, items) ==
    LET manager == IF k \in {"function", "any"} THEN ManagerClass(r.manager) ELSE {}
        first(ts) == IF ts = {} THEN Nothing ELSE CHOOSE t \in ts : TRUE
        held == IF k \in {"function", "any"} /\ items # {}
                THEN {i[1].type : i \in {i \in items : i # <<>>}} ELSE {}
    IN  GetOrCreate(GetOrCreate(made, first(manager)), first(held))

FormatHolder ==
    /\ kind \notin Times
    /\ LET items == Shown(kind, rep)
           index == IF kind = "variant" THEN rep.index ELSE 0
       IN  /\ made' = Touched(kind, rep, items)
           /\ IF items = {} THEN answer' = [what |-> "error"] /\ kept' = None
              ELSE LET shown == CHOOSE i \in items : TRUE IN
                   /\ answer' = [what |-> "shown", items |-> shown]
                   /\ kept' = [what |-> "items", items |-> shown, index |-> index]
    /\ fresh' = TRUE
    /\ UNCHANGED <<fields, grown, params, holder>>

(* std_chrono_duration_formatter::format *)
FormatDuration ==
    /\ kind = "duration"
    /\ IF ~HasRatio(rep) THEN answer' = [what |-> "error"] /\ kept' = None
       ELSE LET u == AppliedUnit(rep.unit) IN
            /\ answer' = [what |-> "duration", count |-> rep.count, unit |-> u,
                          parts |-> Normalized(rep.count, u)]
            /\ kept' = [what |-> "time", count |-> rep.count, unit |-> u]
    /\ fresh' = TRUE
    /\ UNCHANGED <<typeVars, holder>>

(* std_chrono_time_point_formatter::format.  Away from the system clock,   *)
(* the duration is formatted by its own formatter, errors included.        *)
FormatTimePoint ==
    /\ kind = "time_point"
    /\ LET u == AppliedUnit(rep.unit) IN
       IF rep.clock # "system_clock"
       THEN /\ answer' = [what |-> "epoch", plus |-> rep.count > 0, count |-> rep.count,
                          parts |-> IF ~HasRatio(rep) THEN <<>> ELSE Normalized(rep.count, u)]
            /\ kept' = [what |-> "epoch"]
       ELSE IF ~HasRatio(rep) THEN answer' = [what |-> "error"] /\ kept' = None
       ELSE /\ answer' = [what |-> "time", second |-> TimeT(rep.count, u),
                          fraction |-> Fraction(rep.count, u)]
            /\ kept' = [what |-> "time", count |-> rep.count, unit |-> u]
    /\ fresh' = TRUE
    /\ UNCHANGED <<typeVars, holder>>

Child(name, v) == [what |-> "child", name |-> name, value |-> v]

(* Children that keep what was formatted *)
KeptChild ==
    CASE kept.what = "items" /\ kind \notin {"tuple", "libcxx_tuple", "bind"} ->
            {Child("value", kept.items)}
            \cup IF kind = "variant" THEN {Child("index", kept.index)} ELSE {}
      [] kept.what = "time" /\ kind = "duration" ->
            {Child("total", [i \in 1 .. 9 |-> DurationValue(kept.count, kept.unit, Written[i])]),
             Child("normalized", Normalized(kept.count, kept.unit))}
      [] kept.what = "time" /\ kind = "time_point" ->
            {Child("parts", <<TimeT(kept.count, kept.unit)>> \o SubSecond(kept.count, kept.unit))}
      [] OTHER -> {}

(* Children that read the holder once more *)
ReadChild ==
    IF kept.what = "none" THEN {}
    ELSE CASE kind \in {"tuple", "libcxx_tuple"} ->
                {Child(kept.items[i], {o.holds : o \in IF kind = "tuple" THEN TupleElement(rep, i - 1)
                                           ELSE LibcxxTupleElement(rep, i - 1)}) :
                    i \in DOMAIN kept.items}
           [] kind = "bind" -> {Child("target", {o.holds : o \in BindTarget(rep)}),
                                Child("args", BoundArguments(rep))}
           [] kind \in {"shared_ptr", "libcxx_shared_ptr"} ->
                {Child("use count", UseCount(rep)), Child("weak count", WeakCount(rep))}
           [] kind \in Times ->
                {Child("rep", rep.count)}
                \cup IF kind = "time_point" /\ kept.what = "time"
                     THEN {Child("UTC", <<TimeT(rep.count, kept.unit), Fraction(rep.count, kept.unit)>>)}
                     ELSE {}
           [] OTHER -> {}

Expand ==
    /\ answer' \in KeptChild \cup ReadChild
    /\ UNCHANGED <<typeVars, holder, fresh, kept>>

-----------------------------------------------------------------------------
(* The debuggee runs: it stores something else, or damages the holder.     *)
(* The type of the holder stays.                                           *)

FixedKinds == {"tuple", "libcxx_tuple", "unique_ptr", "bind"}

SameType(r1, r2) ==
    \A f \in {"alternatives", "boxed", "libcxx", "unit", "clock"} \cap DOMAIN r1 : r1[f] = r2[f]

Ran ==
    /\ changes < MaxChanges
    /\ changes' = changes + 1
    /\ fresh' = FALSE
    /\ answer' = None
    /\ UNCHANGED <<typeVars, kind, kept>>

Change ==
    /\ kind \notin FixedKinds
    /\ \E h \in IntactOf(kind) : SameType(rep, h.rep) /\ rep' = h.rep /\ stored' = h.stored
    /\ intact' = TRUE
    /\ Ran

Damage ==
    /\ \/ /\ kind \in {"function", "any"}
          /\ \E m \in {NoObject, Variable, FreeFunction} \cup {Member(c) : c \in Managers \cup Growing} :
                rep' = [manager |-> m, isNull |-> FALSE]
       \/ /\ kind = "variant"
          /\ \E i \in 0 .. NoAlternative : rep' = [rep EXCEPT !.index = i]
       \/ /\ kind \in {"shared_ptr", "libcxx_shared_ptr"}
          /\ \E v \in {0, Word - 1} : rep' = [rep EXCEPT !.block = TRUE, !.use = v, !.weak = v]
    /\ intact' = FALSE
    /\ stored' = <<>>
    /\ Ran

Init ==
    /\ TypeInit
    /\ kind \in Kinds
    /\ kind # "function" => params     \* no other formatter goes by them
    /\ \E h \in IntactOf(kind) : rep = h.rep /\ stored = h.stored
    /\ intact = TRUE
    /\ fresh = FALSE
    /\ changes = 0
    /\ kept = None
    /\ answer = None

(* The application's questions to the type context, between two results *)
Ask == kind \in Asking /\ TypeNext /\ UNCHANGED <<holder, fresh, kept>>

Next == \/ FormatHolder
        \/ FormatDuration
        \/ FormatTimePoint
        \/ Expand
        \/ Change
        \/ Damage
        \/ Ask

Spec == Init /\ [][Next]_vars

-----------------------------------------------------------------------------
(* Properties *)

(* A term with its arguments and scopes, and theirs *)
Parts[t \in Terms] ==
    {t} \cup UNION {Parts[p] : p \in Part(t.args) \cup Part(t.scope)}

(* What find_type cannot be asked for: there is no name, or no lookup, for *)
(* these kinds of types, wherever they occur.                              *)
IsLost(p) ==
    \/ p.k \in {"enum", "typedef", "value", "array", "mem_ptr"}
    \/ p.k = "builtin" /\ p.id \notin NamedBuiltins

Nameable(t)  == \A p \in Parts[t] : ~IsLost(p) /\ p.k # "rref"
HasRvalue(t) == \E p \in Parts[t] : p.k = "rref"

(* Small functors that libstdc++ does not keep where the formatter looks: *)
(* those with a copy constructor of their own, and binds that have none.  *)
Misplaced(t) ==
    SizeOf[t] <= 2 * AddressSize /\ ~IsFunctionPointer(t) /\ (IsBind(t) <=> t \in Trivial)

(* What is stored is in a union, or in bytes that have no type *)
Boxed(k, r, s) ==
    /\ s # <<>>
    /\ \/ k = "optional" /\ r.boxed
       \/ k = "variant" /\ r.index + 1 \in r.boxed

(* The types.  A variant that is shown has an alternative: its [index] is  *)
(* one of them, however damaged the index it was read from.                *)
TypeOK ==
    /\ kind \in Kinds /\ intact \in BOOLEAN /\ fresh \in BOOLEAN /\ params \in BOOLEAN
    /\ changes \in 0 .. MaxChanges
    /\ fields \in [Growing -> 0 .. MaxFields] /\ grown \subseteq Growing
    /\ made \in [Followed -> {NotMade} \cup 0 .. MaxFields]
    /\ kept.what \in {"none", "items", "time", "epoch"}
    /\ answer.what \in {"none", "error", "shown", "duration", "time", "epoch", "child",
                        "type", "field"}
    /\ kind = "variant" /\ kept.what = "items" => kept.index \in 0 .. rep.alternatives - 1

(* What a holder shows is what the program has stored in it: no other      *)
(* alternative, element or type, and at the right place.  It is refused    *)
(* only where nothing is stored (a valueless variant), or any or function  *)
(* hold a type that cannot be found by name (function, unless template     *)
(* parameters are enabled).  Not so: functors libstdc++ keeps elsewhere,   *)
(* types found by name that differ in a kind of reference, and the values  *)
(* of optionals and variants that are in a union or in bytes, of which     *)
(* these are shown instead ("" is no item).  A child kept or read while    *)
(* the debuggee stands still agrees with the text; counts of owners are    *)
(* those of now, but the weak count of libstdc++ is one more while there   *)
(* is an owner, that of libc++ one less when there is none.                *)
ContentShown ==
    LET Held1  == stored[1].type
        byName == kind = "any" \/ (kind = "function" /\ ~params)
    IN
    intact =>
        /\ answer.what = "shown" /\ kind \notin {"shared_ptr", "libcxx_shared_ptr"}
           /\ ~(kind = "function" /\ stored # <<>> /\ Misplaced(Held1))
           /\ ~(byName /\ stored # <<>> /\ HasRvalue(Held1)) =>
                answer.items = IF Boxed(kind, rep, stored) THEN <<"">> ELSE stored
        /\ answer.what = "error" /\ kind \notin Times =>
            \/ kind = "variant" /\ stored = <<>>
            \/ byName /\ ~Nameable(Held1)
        /\ answer.what = "child" /\ fresh /\ answer.name = "value" => answer.value = kept.items
        /\ answer.what = "child" /\ kind = "bind" =>
            /\ answer.name = "target" => answer.value = {stored[1]}
            /\ answer.name = "args" => answer.value = {SubSeq(stored, 2, Len(stored))}
        /\ answer.what = "child" /\ kind \in {"tuple", "libcxx_tuple"} =>
                answer.value = {answer.name}
        /\ answer.what = "child" /\ kind \in {"shared_ptr", "libcxx_shared_ptr"} =>
            /\ answer.name = "use count" => answer.value = stored[1]
            /\ answer.name = "weak count" =>
                answer.value = stored[2] + (IF stored = <<0, 0>> THEN 0
                                            ELSE IF kind = "shared_ptr" /\ stored[1] > 0 THEN 1
                                            ELSE IF kind # "shared_ptr" /\ stored[1] = 0 THEN -1
                                            ELSE 0)

(* The parts a duration is written in add up to it, except that a month is *)
(* no whole number of days: what its months have beyond that is written    *)
(* twice.  The [years] to [nanoseconds] are the whole units in it.  A time *)
(* point's seconds and their fraction add up to the time since the epoch,  *)
(* before it too, and so do the parts of a second; while the debuggee      *)
(* stands still the lazy [UTC] and [rep] say the same.  Not so: weeks and  *)
(* months, taken for days; overflow.                                       *)
TimesAgree ==
    LET u == rep.unit
        span == rep.count * UnitLength[u]
        months == Quotient(span, UnitLength[Month]) * UnitLength[Month]
        twice == Remainder(months, UnitLength[Day])
        lengths == [i \in 1 .. 9 |-> UnitLength[Written[i]]]
        exact == u \in Units /\ u \notin {Week, Month} /\ Fits(rep.count, u)
    IN
    kind \in Times /\ exact =>
        /\ answer.what = "duration" =>
            answer.count = rep.count /\ answer.unit = u /\ Sum(answer.parts, lengths) = span + twice
        /\ answer.what = "epoch" => answer.plus = (span > 0) /\ Sum(answer.parts, lengths) = span + twice
        /\ answer.what = "time" => answer.second * UnitLength[Second] + answer.fraction = span
        /\ answer.what = "child" /\ answer.name = "rep" => answer.value = rep.count
        /\ answer.what = "child" /\ answer.name = "UTC" =>
            answer.value[1] * UnitLength[Second] + answer.value[2] = span
        /\ answer.what = "child" /\ fresh =>
            /\ answer.name = "total" =>
                \A i \in 1 .. 9 : answer.value[i] = Quotient(span, lengths[i])
            /\ answer.name = "normalized" => Sum(answer.value, lengths) = span + twice
            /\ answer.name = "parts" =>
                Sum(answer.value, <<UnitLength[4], UnitLength[3], UnitLength[2], 1>>) = span

(* Every type whose parts can all be found is found by its name, and no    *)
(* name finds another type, but for rvalue references.                     *)
NamesAgree ==
    \A t \in {t \in Terms : t.k # "namespace"} :
        LET found == FindType(Printed[t])
        IN  IF Nameable(t) THEN found = t ELSE IsNothing(found) \/ HasRvalue(t)

(* The functions of a class: every name listed finds a function of that    *)
(* name, and the address is its own unless another one comes first.        *)
FunctionsAgree ==
    \A fs \in FunLists : \A f \in MemFuncs(fs) :
        /\ MemFun(fs, f.name) # 0 /\ fs[MemFun(fs, f.name)].name = f.name
        /\ (\A g \in Part(fs) : g.name = f.name => g = f) => MemFunAddr(fs, f.name) = f.addr

(* find_type answers with the type of that name: every type whose parts    *)
(* can all be found is, and no name finds another type, but for rvalue     *)
(* references.  A class has the same fields by number as by name, const or *)
(* not, unless some were declared after a type object of it was made.      *)
(* bt_type answers with the type asked for, but for double.  A pointer     *)
(* that can be dereferenced points to an object, or to a qualified void.   *)
TypesAgree ==
    /\ NamesAgree
    /\ answer.what = "field" =>
        /\ answer.known => answer.found
        /\ answer.found /\ ~answer.known => Plain(answer.of) \in grown
    /\ \A t \in Followed : made[t] # NotMade =>
            made[t] = fields[Plain(t)] \/ (made[t] < fields[Plain(t)] /\ Plain(t) \in grown)
    /\ \A k \in BuiltinKinds : BtType(k) = k \/ k \in {"double", "nullptr_t"}
    /\ \A t \in {t \in Terms : t.k = "pointer"} : CanDereference(t) =>
            /\ t.args[1].k # "function"
            /\ t.args[1].id = "void" => t.args[1].const
    /\ FunctionsAgree
=============================================================================
