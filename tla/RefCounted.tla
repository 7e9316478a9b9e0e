----------------------------- MODULE RefCounted -----------------------------
(***************************************************************************)
(* Who owns a formatting result.  Results and strings are reference        *)
(* counted and cross the plug-in bridge as raw pointers, each of which     *)
(* carries one reference from a do_return to an acquire                    *)
(* (src/include/dbgfmt/ref_counted.hpp, string.hpp, fmt_result.hpp and     *)
(* src/src/fmt_result.cpp).                                                *)
(*                                                                         *)
(* A call of the library is its sequence of operations on references, in   *)
(* the order the code performs them; the choices the code makes (what a    *)
(* formatter builds, where a child comes from, what throws) are choices    *)
(* between such sequences.                                                 *)
(***************************************************************************)
EXTENDS Integers, Sequences, FiniteSets

CONSTANTS
    Objects,        \* memory for objects
    Null,           \* the null pointer
    Fresh,          \* stands for the object a unique_ptr holds
    Slots,          \* the debugger's own fmt_result_ref variables
    MaxLevel        \* bound: depth of nested calls

Levels == 1..MaxLevel

(* Local variables.  Raw pointers in flight own a reference, too.          *)
Raws == {"obj", "br_name", "br_pos_file", "br_res"}
Refs == {"fval", "res", "record", "ffptr", "pointee_fval", "proxy", "str",
         "ch", "nm_ref", "pos_file_ref", "res_ref"}

(* Members of results that are references: proxy_fmt_result::orig_res_,    *)
(* pointer_fmt_result::pointee_fval_, functor_formatter's [target].        *)
Members == {"orig_res", "pointee_fval", "target"}

RawLocals == Levels \X Raws
RefLocals == Levels \X Refs
Roots     == ({0} \X Slots) \cup RawLocals \cup RefLocals
Holders   == Roots \cup (Objects \X Members)
Places    == Holders \cup ({Fresh} \X Members)

Copies == [op : {"copy"}, to : Places, from : Holders]
Basics == [op : {"make_unique", "own", "swap", "release", "throw"},
           to : Holders, from : Holders]
Parts  == [op : {"format", "wrap", "child", "pos_file", "read", "guard"},
           to : Levels \X {"fval"}, from : Holders]
Op     == Copies \cup Basics \cup Parts

ASSUME RefCountedAssumption ==
    /\ Null \notin Objects /\ Fresh \notin Objects \cup {Null}
    /\ (Objects \cup {Null, Fresh}) \cap Nat = {}
    /\ IsFiniteSet(Objects) /\ IsFiniteSet(Slots)
    /\ MaxLevel \in Nat \ {0}

VARIABLES
    alive,      \* objects that exist
    count,      \* ref_count_ of each object
    ptr,        \* the object each place points to
    fresh,      \* the object under construction, held by a unique_ptr
    lost,       \* references no place holds any more, by object
    todo,       \* what is left of the call in progress
    unwinding   \* an exception is on its way to its handler

vars == <<alive, count, ptr, fresh, lost, todo, unwinding>>

------------------------------------------------------------------------
(* Operations.                                                             *)

Do(op, to, from) == <<[op |-> op, to |-> to, from |-> from]>>
Copy(to, from)   == Do("copy", to, from)
Swap(to, from)   == Do("swap", to, from)
Release(h)       == Do("release", h, h)

(* A slip: acquire keeps the reference the raw pointer came with.          *)
AcquireSlip(to, raw) == Copy(to, raw)

(* acquire: ptr_{obj} takes a reference, the one obj came with is released.*)
Acquire(to, raw) == Copy(to, raw) \o Release(raw)

(* The object held by the unique_ptr gets its first reference.             *)
AcquireFresh(L, v) == Do("own", <<L, "obj">>, <<L, "obj">>) \o Acquire(<<L, v>>, <<L, "obj">>)

MakeUnique(L) == Do("make_unique", <<L, "obj">>, <<L, "obj">>)
MakeRef(L, v) == MakeUnique(L) \o AcquireFresh(L, v)
Throw(L)      == Do("throw", <<L, "obj">>, <<L, "obj">>)

DoReturn(raw, v) == Copy(raw, v)

(* out = make_string(...).do_return()                                      *)
MakeString(L, out) ==
    MakeRef(L, "str") \o DoReturn(<<L, out>>, <<L, "str">>) \o Release(<<L, "str">>)

(* A part of a call that is decided when it is reached.                    *)
Part(L, op) == Do(op, <<L, "fval">>, <<L, "fval">>)

(* A nested call returns into a variable of its caller.                    *)
Nested(L, op, from, v) ==
    Do(op, <<L + 1, "fval">>, from) \o Swap(<<L, v>>, <<L + 1, "fval">>)

------------------------------------------------------------------------
(* context::try_format, on level L, into its fval.                         *)

FormatNested(L, v) == Nested(L, "format", <<L, v>>, v)

(* What formatter::format makes: a result without references, the result   *)
(* of a converted value, one that showed the children of its arguments,    *)
(* one around the formatted pointee, a proxy around a record with its      *)
(* [target].                                                               *)
Results(L) ==
    {MakeRef(L, "res")} \cup
    IF L = MaxLevel THEN {} ELSE
      {FormatNested(L, "res"),
       FormatNested(L, "ffptr") \o Nested(L, "child", <<L, "ffptr">>, "ch")
         \o Release(<<L, "ch">>) \o MakeRef(L, "res") \o Release(<<L, "ffptr">>),
       FormatNested(L, "pointee_fval")
         \o MakeUnique(L) \o Copy(<<Fresh, "pointee_fval">>, <<L, "pointee_fval">>)
         \o Release(<<L, "pointee_fval">>) \o AcquireFresh(L, "res"),
       FormatNested(L, "ffptr") \o MakeRef(L, "record")
         \o MakeUnique(L) \o Copy(<<Fresh, "orig_res">>, <<L, "record">>)
         \o Copy(<<Fresh, "target">>, <<L, "ffptr">>) \o AcquireFresh(L, "res")
         \o Release(<<L, "record">>) \o Release(<<L, "ffptr">>)}

BrFormat(L) == DoReturn(<<L, "obj">>, <<L, "res">>) \o Release(<<L, "res">>)

(* A format_error leaves the formatter, before or after a nested result.   *)
Failures(L) ==
    {<<>>} \cup
    IF L = MaxLevel THEN {}
    ELSE {FormatNested(L, "ffptr") \o Release(<<L, "ffptr">>)}

(* The [Raw Data] proxy.                                                   *)
Wrap(L) ==
    MakeUnique(L) \o Copy(<<Fresh, "orig_res">>, <<L, "fval">>) \o AcquireFresh(L, "proxy")
      \o Swap(<<L, "fval">>, <<L, "proxy">>) \o Release(<<L, "proxy">>)

FormatPlans(L) ==
    {r \o BrFormat(L) \o Acquire(<<L, "fval">>, <<L, "obj">>) \o Part(L, "wrap") :
       r \in Results(L)}
    \cup {f \o MakeRef(L, "fval") \o Part(L, "wrap") : f \in Failures(L)}
    \cup {f \o Throw(L) : f \in Failures(L)}

------------------------------------------------------------------------
(* fmt_result_ref::child_at of what place "of" points to, on level L.      *)

(* container_fmt_result::child_at catches what its element throws.         *)
Guarded(L) == FormatNested(L, "ch") \o Part(L, "guard")

(* fmt_result::child_at: a result the object holds, a child of one it      *)
(* wraps, or one made now: [size], an element that cannot be read, a field *)
(* or [Raw Data], an element.                                              *)
Held(o, ms) == {m \in ms : ptr[<<o, m>>] # Null}
Lazy(o)     == Held(o, {"pointee_fval", "target"}) = {}

Sources(L, o) ==
    {Copy(<<L, "ch">>, <<o, m>>) : m \in Held(o, {"pointee_fval", "target"})}
    \cup (IF L = MaxLevel THEN {} ELSE
            {Nested(L, "child", <<o, m>>, "ch") : m \in Held(o, {"pointee_fval", "orig_res"})})
    \cup (IF ~Lazy(o) THEN {} ELSE {MakeRef(L, "ch")})
    \cup (IF ~Lazy(o) \/ L = MaxLevel THEN {} ELSE {FormatNested(L, "ch"), Guarded(L)})

(* fmt_result::br_get_child_at: three raw pointers, each with a reference. *)
Answered(L, src) ==
    src \o MakeString(L, "br_name") \o Part(L, "pos_file")
        \o Copy(<<L, "res_ref">>, <<L, "ch">>) \o DoReturn(<<L, "br_res">>, <<L, "res_ref">>)
        \o Release(<<L, "res_ref">>) \o Release(<<L, "ch">>)

(* No position, its file as a string, or a file name that has none.        *)
PosFilePlans(L) == {<<>>, MakeString(L, "br_pos_file"), Throw(L)}

(* A slip: the handler stores no result.                                   *)
CaughtSlip(L) == MakeString(L, "br_name")

(* Its handler of format_error, which only child_at throws.                *)
Caught(L) ==
    MakeString(L, "br_name") \o MakeRef(L, "res_ref")
      \o DoReturn(<<L, "br_res">>, <<L, "res_ref">>) \o Release(<<L, "res_ref">>)

BrGetChildAt(L, o) ==
    {Answered(L, src) : src \in Sources(L, o)}
      \cup (IF Lazy(o) THEN {Caught(L)} ELSE {})

(* The caller's side: three acquires, reading the position, destructors.   *)
ChildPlans(L, o) ==
    {br \o Acquire(<<L, "nm_ref">>, <<L, "br_name">>)
        \o Acquire(<<L, "pos_file_ref">>, <<L, "br_pos_file">>)
        \o Acquire(<<L, "res_ref">>, <<L, "br_res">>) \o Part(L, "read")
        \o Copy(<<L, "fval">>, <<L, "res_ref">>)
        \o Release(<<L, "res_ref">>) \o Release(<<L, "pos_file_ref">>)
        \o Release(<<L, "nm_ref">>) :
       br \in BrGetChildAt(L, o)}

(* source_position::set_file converts the string back.                     *)
ReadPlans(L) ==
    {<<>>} \cup IF ptr[<<L, "pos_file_ref">>] = Null THEN {} ELSE {Throw(L)}

(* fmt_result_ref::val_pos and type_pos; val and type always have a string.*)
TextPlan ==
    Part(1, "pos_file") \o Acquire(<<1, "pos_file_ref">>, <<1, "br_pos_file">>)
      \o Part(1, "read") \o Release(<<1, "pos_file_ref">>)

------------------------------------------------------------------------
Init ==
    /\ alive = {}
    /\ count = [o \in Objects |-> 0]
    /\ ptr = [h \in Holders |-> Null]
    /\ fresh = Null
    /\ lost = [o \in Objects |-> 0]
    /\ todo = <<>>
    /\ unwinding = FALSE

(* Memory is free once the destructors of its last object's members ran.   *)
Free == {o \in Objects \ alive : \A m \in Members : ptr[<<o, m>>] = Null}

(* A slip: only the base class is destroyed.                               *)
DestructorSlip(o) == Release(<<o, "orig_res">>)

Destructor(o) ==
    Release(<<o, "orig_res">>) \o Release(<<o, "pointee_fval">>) \o Release(<<o, "target">>)

At(place) == IF place[1] = Fresh THEN <<fresh, place[2]>> ELSE place

(* A slip: references made from a reference are not counted.               *)
AddRefSlip(o) == IF o = Null \/ o # fresh THEN count ELSE [count EXCEPT ![o] = @ + 1]

AddRef(o) == IF o = Null THEN count ELSE [count EXCEPT ![o] = @ + 1]

(* A reference that is overwritten or goes out of scope is never released. *)
Lose(h) == IF ptr[h] = Null THEN lost ELSE [lost EXCEPT ![ptr[h]] = @ + 1]

(* A slip: the object goes with the last reference but one.                *)
ReleaseAtSlip(h, rest) ==
    LET o == ptr[h] IN
    /\ ptr' = [ptr EXCEPT ![h] = Null]
    /\ count' = IF o = Null THEN count ELSE [count EXCEPT ![o] = @ - 1]
    /\ alive' = IF o # Null /\ count'[o] <= 1 THEN alive \ {o} ELSE alive
    /\ todo' = IF o # Null /\ count'[o] <= 1 THEN Destructor(o) \o rest ELSE rest
    /\ UNCHANGED <<fresh, lost, unwinding>>

(* ref_counted_impl::release through place h, with rest still to do.       *)
ReleaseAt(h, rest) ==
    LET o == ptr[h] IN
    /\ ptr' = [ptr EXCEPT ![h] = Null]
    /\ count' = IF o = Null THEN count ELSE [count EXCEPT ![o] = @ - 1]
    /\ alive' = IF o # Null /\ count'[o] = 0 THEN alive \ {o} ELSE alive
    /\ todo' = IF o # Null /\ count'[o] = 0 THEN Destructor(o) \o rest ELSE rest
    /\ UNCHANGED <<fresh, lost, unwinding>>

Running(op) == ~unwinding /\ todo # <<>> /\ Head(todo).op = op

(* std::make_unique: the allocation may throw.                             *)
Allocate ==
    /\ Running("make_unique") /\ fresh = Null /\ Free # {}
    /\ LET o == CHOOSE o \in Free : TRUE IN
         fresh' = o /\ alive' = alive \cup {o}
    /\ todo' = Tail(todo)
    /\ UNCHANGED <<count, ptr, lost, unwinding>>

(* add_ref() and unique_ptr::release()                                     *)
OwnObject ==
    /\ Running("own") /\ fresh # Null
    /\ LET h == Head(todo).to IN
         /\ ptr' = [ptr EXCEPT ![h] = fresh]
         /\ lost' = Lose(h)
    /\ count' = AddRef(fresh)
    /\ fresh' = Null
    /\ todo' = Tail(todo)
    /\ UNCHANGED <<alive, unwinding>>

CopyRef ==
    /\ Running("copy") /\ At(Head(todo).to) \in Holders
    /\ LET to == At(Head(todo).to)
           o  == ptr[Head(todo).from]
       IN  /\ ptr' = [ptr EXCEPT ![to] = o]
           /\ lost' = Lose(to)
           /\ count' = AddRef(o)
    /\ todo' = Tail(todo)
    /\ UNCHANGED <<alive, fresh, unwinding>>

SwapRefs ==
    /\ Running("swap")
    /\ LET to == Head(todo).to
           from == Head(todo).from
       IN  ptr' = [ptr EXCEPT ![to] = ptr[from], ![from] = ptr[to]]
    /\ todo' = Tail(todo)
    /\ UNCHANGED <<alive, count, fresh, lost, unwinding>>

ReleaseRef == Running("release") /\ ReleaseAt(Head(todo).to, Tail(todo))

Expand(op, plans) ==
    /\ Running(op)
    /\ \E plan \in plans : todo' = plan \o Tail(todo)
    /\ UNCHANGED <<alive, count, ptr, fresh, lost, unwinding>>

Proceed ==
    LET L == Head(todo).to[1] IN
    \/ Expand("format", FormatPlans(L))
    \/ Expand("wrap", {<<>>, Wrap(L)})
    \/ /\ Running("child") /\ ptr[Head(todo).from] # Null
       /\ Expand("child", ChildPlans(L, ptr[Head(todo).from]))
    \/ Expand("pos_file", PosFilePlans(L))
    \/ Expand("read", ReadPlans(L))
    \/ Expand("guard", {<<>>})

------------------------------------------------------------------------
(* Exceptions other than format_error: text that cannot be converted,      *)
(* memory that cannot be allocated.  They leave for the innermost handler  *)
(* of a container's element, or for the debugger.                          *)

Handlers == {i \in 1..Len(todo) : todo[i].op = "guard"}

ToHandler ==
    \/ Handlers = {} /\ todo' = <<>>
    \/ \E i \in Handlers : /\ \A j \in Handlers : i <= j
                           /\ todo' = SubSeq(todo, i, Len(todo))

(* make_unique, and the entry add_begin_child makes for [target].          *)
Allocating ==
    Running("make_unique") \/ (Running("copy") /\ Head(todo).to = <<Fresh, "target">>)

ThrowException ==
    /\ \/ Running("throw")
       \/ Allocating /\ Free = {}
    /\ ToHandler
    /\ unwinding' = TRUE
    /\ UNCHANGED <<alive, count, ptr, fresh, lost>>

(* No destructor is at work.                                               *)
Leaving == unwinding /\ (todo # <<>> => Head(todo).op = "guard")

(* The local variables of the calls the exception leaves, inner calls      *)
(* first.                                                                  *)
Left(locals) ==
    {h \in locals : /\ todo # <<>> => h[1] > Head(todo).to[1]
                    /\ ptr[h] # Null
                    /\ \A g \in RawLocals \cup RefLocals : g[1] > h[1] => ptr[g] = Null}

(* Local variables are destroyed: a unique_ptr and references by their     *)
(* destructors, a raw pointer without one.                                 *)
DestroyFresh ==
    /\ Leaving /\ fresh # Null
    /\ fresh' = Null
    /\ alive' = alive \ {fresh}
    /\ todo' = Destructor(fresh) \o todo
    /\ UNCHANGED <<count, ptr, lost, unwinding>>

DestroyMember ==
    /\ unwinding /\ todo # <<>> /\ Head(todo).op = "release"
    /\ ReleaseAt(Head(todo).to, Tail(todo))

DestroyRaw(h) ==
    /\ Leaving /\ h \in Left(RawLocals)
    /\ ptr' = [ptr EXCEPT ![h] = Null]
    /\ lost' = Lose(h)
    /\ UNCHANGED <<alive, count, fresh, todo, unwinding>>

DestroyRef(h) ==
    /\ Leaving /\ h \in Left(RefLocals)
    /\ ReleaseAt(h, todo)

(* The debugger gets the exception, or the handler makes an error result.  *)
EndUnwinding ==
    /\ Leaving /\ fresh = Null /\ Left(RawLocals \cup RefLocals) = {}
    /\ unwinding' = FALSE
    /\ todo' = IF todo = <<>> THEN <<>> ELSE MakeRef(Head(todo).to[1], "ch") \o Tail(todo)
    /\ UNCHANGED <<alive, count, ptr, fresh, lost>>

Unwind ==
    \/ DestroyFresh \/ DestroyMember \/ EndUnwinding
    \/ \E h \in RawLocals : DestroyRaw(h)
    \/ \E h \in RefLocals : DestroyRef(h)

------------------------------------------------------------------------
(* The debugger, between calls.                                            *)

Call(plan) ==
    /\ todo = <<>> /\ ~unwinding
    /\ todo' = plan
    /\ UNCHANGED <<alive, count, ptr, fresh, lost, unwinding>>

(* slot = <call>: move assignment releases what the slot referred to.      *)
Assign(s) == Swap(<<0, s>>, <<1, "fval">>) \o Release(<<1, "fval">>)

ClientFormat(s)  == Call(Do("format", <<1, "fval">>, <<1, "fval">>) \o Assign(s))
ClientCopy(s, c) == Call(Copy(<<1, "fval">>, <<0, c>>) \o Assign(s))
ClientReset(s)   == Call(Release(<<0, s>>))

ClientChild(s, c) ==
    /\ ptr[<<0, c>>] # Null
    /\ Call(Do("child", <<1, "fval">>, <<0, c>>) \o Assign(s))

ClientRead(s) == ptr[<<0, s>>] # Null /\ Call(TextPlan)

Client == \E s \in Slots : \/ ClientFormat(s) \/ ClientReset(s) \/ ClientRead(s)
                           \/ \E c \in Slots : ClientCopy(s, c) \/ ClientChild(s, c)

Next == \/ Allocate \/ OwnObject \/ CopyRef \/ SwapRefs \/ ReleaseRef
        \/ Proceed \/ ThrowException \/ Unwind \/ Client

Spec == Init /\ [][Next]_vars
------------------------------------------------------------------------
(* Type invariant of the reference machine.                                *)
TypeOK ==
    /\ alive \subseteq Objects
    /\ count \in [Objects -> Nat]
    /\ ptr \in [Holders -> Objects \cup {Null}]
    /\ fresh \in Objects \cup {Null}
    /\ lost \in [Objects -> Nat]
    /\ todo \in Seq(Op)
    /\ unwinding \in BOOLEAN

(* ref_count_ is the number of references there are: those in variables    *)
(* and members, those raw pointers carry across the bridge, and those that *)
(* were lost.                                                              *)
CountsExact ==
    \A o \in Objects :
        count[o] = Cardinality({h \in Holders : ptr[h] = o}) + lost[o]

(* No variable, member or raw pointer in flight points to an object that   *)
(* release() has deleted, whatever the order of acquires, releases and     *)
(* destructors.                                                            *)
NoDangling == \A h \in Holders : ptr[h] \in alive \cup {Null}

(* When child_at acquires what br_get_child_at stored, there are a name    *)
(* and a result, as its assertions say, on every path through the handler. *)
AnswersComplete ==
    Running("copy") => \A L \in Levels, out \in {"br_name", "br_res"} :
                           Head(todo).from = <<L, out>> => ptr[<<L, out>>] # Null

(* What the counts implement.                                              *)
Kept == {o \in Objects : lost[o] > 0} \cup ({fresh} \ {Null})
Own  == INSTANCE Ownership WITH exists <- alive, kept <- Kept

(* Between calls no local variable is left, and every object that still    *)
(* exists can be reached from the debugger's variables or was lost when an *)
(* exception passed a raw pointer: call sequences do not accumulate        *)
(* results nobody can release.                                             *)
NoLeaks ==
    todo = <<>> /\ ~unwinding =>
        /\ fresh = Null
        /\ \A h \in RawLocals \cup RefLocals : ptr[h] = Null
        /\ alive \subseteq Own!Reachable

(* A call that ends without an exception loses no reference.               *)
LossNeedsException == [][lost' # lost => unwinding]_vars

(* Reference counting behaves as if memory were collected: references only *)
(* come from references, and what is deleted was out of reach.             *)
Implements == Own!Spec

(* ref_counted.hpp:20: release "destroys it if there are no more           *)
(* references left".  Between calls, every object has a reference to it.   *)
UnreferencedAreDestroyed ==
    todo = <<>> /\ ~unwinding => \A o \in alive : \E h \in Holders : ptr[h] = o
=============================================================================
