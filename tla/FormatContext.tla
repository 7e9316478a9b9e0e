--------------------------- MODULE FormatContext ---------------------------
(***************************************************************************)
(* The formatting engine of dbgfmt: context::format, context::format_raw   *)
(* and context::try_format (src/src/context.cpp), with the formatters that *)
(* re-enter the context while they build a result.                         *)
(*                                                                         *)
(* Formatting is a recursion on the C++ call stack.  It is modelled as an  *)
(* explicit stack of frames, one per call of formatter::format plus one    *)
(* per entry point, so that an exception thrown anywhere in the recursion  *)
(* unwinds frame by frame exactly as the code's handlers let it.           *)
(***************************************************************************)
EXTENDS Integers, Sequences, FiniteSets

CONSTANTS
    Values,         \* the debuggee's values
    NoValue,        \* "no such value": an invalid value object
    Heaps,          \* the debuggee memories considered, each in [Values -> Desc]
    FieldBudget,    \* fields one outermost record may show (10 in the code)
    MaxCalls,       \* bound: number of calls the client makes
    MaxFrames       \* bound: depth of the C++ recursion

FormatError == "format_error"   \* dbgfmt::format_error
Exception   == "exception"      \* any other std::exception
Faults      == {FormatError, Exception}

Classes == {"leaf", "pointer", "record", "tuple", "container", "conv", "bind",
            "opaque"}

(* What the engine sees of a value.  subs are the values formatting it     *)
(* reads: the pointee, the fields, the elements, the converted value, or   *)
(* bind's target and argument tuple.  A fault in subs is a read that       *)
(* throws; a leaf with a fault is a leaf whose own formatting throws.      *)
Desc == {d \in [class : Classes, lambda : BOOLEAN, addr : BOOLEAN,
                callop : Values \cup {NoValue}, subs : Seq(Values \cup Faults)] :
            /\ d.class = "conv" => Len(d.subs) = 1
            /\ d.class = "bind" => Len(d.subs) = 2}

ASSUME ConstantsAssumption ==
    /\ Values \cap Faults = {}
    /\ NoValue \notin Values \cup Faults
    /\ Heaps \subseteq [Values -> Desc]
    /\ FieldBudget \in Nat \ {0}
    /\ MaxCalls \in Nat
    /\ MaxFrames \in Nat

Custom  == <<"lambda", "tuple", "container", "conv", "bind">>
Builtin == <<"simple", "pointer", "record", "functor">>

CustomFormatters == {"lambda", "tuple", "container", "conv", "bind"}
Formatters       == CustomFormatters \cup {"simple", "pointer", "record", "functor"}
RecFormatters    == {"record", "functor", "lambda"}
Roots            == {"client", "fields", "elements"}

Options    == [raw : BOOLEAN, functor : BOOLEAN]
OptionMods == {"current", "noraw", "functor", "raw"}

Step == [op   : {"format", "raw", "start", "field", "stop", "childs",
                 "fields", "elements"},
         sub  : Values \cup Faults \cup {NoValue},
         opts : OptionMods]

Frame == [by     : Formatters \cup Roots,
          val    : Values \cup {NoValue},
          wrap   : BOOLEAN,     \* add a [Raw Data] child to the result
          pushed : BOOLEAN,     \* the call pushed an entry on fmt_opts_stack_
          open   : BOOLEAN,     \* between start_ and stop_record_value_format
          todo   : Seq(Step)]   \* what is left of the call

Result == [childs : {"none", "fields", "elements"},  \* kind of its lazy children
           of     : Values \cup {NoValue},           \* the value they come from
           raw    : Values \cup {NoValue},           \* what [Raw Data] formats
           addr   : BOOLEAN]                         \* address() is known

NoResult == [childs |-> "none", of |-> NoValue, raw |-> NoValue, addr |-> FALSE]

VARIABLES
    heap,       \* debuggee memory: it is stopped while it is looked at
    base,       \* context::fmt_opts_
    over,       \* context::fmt_opts_stack_
    depth,      \* rec_value_depth_ of each record formatter object
    num,        \* num_rec_fields_ of each record formatter object
    stack,      \* the C++ call stack
    exc,        \* the exception in flight, or "none"
    res,        \* the result returned last
    held,       \* results the client keeps and may expand
    calls,      \* calls made by the client
    lostPops,   \* history: option entries whose pop was skipped by an exception
    lostStops,  \* history: depth decrements skipped by an exception
    shown       \* history: fields shown for the outermost record in progress

vars == <<heap, base, over, depth, num, stack, exc, res, held, calls,
         lostPops, lostStops, shown>>

-----------------------------------------------------------------------------
(* Options *)

FmtOpts == IF over = <<>> THEN base ELSE over[Len(over)]

With(o, m) ==
    CASE m = "current" -> o
      [] m = "noraw"   -> [o EXCEPT !.raw = FALSE]
      [] m = "raw"     -> [o EXCEPT !.raw = TRUE]
      [] m = "functor" -> [raw |-> FALSE, functor |-> TRUE]

-----------------------------------------------------------------------------
(* Choosing a formatter *)

(* Every class of value but these three is a record type to the debuggee   *)
IsRecord(v) == heap[v].class \notin {"leaf", "pointer", "opaque"}

RecordAccepts(v, o) ==
    /\ IsRecord(v)
    /\ o.functor => heap[v].callop = NoValue

LambdaAccepts(v, o) == RecordAccepts(v, o) /\ heap[v].lambda

FunctorAccepts(v, o) == o.functor /\ IsRecord(v) /\ heap[v].callop # NoValue

Accepts(f, v, o) ==
    CASE f = "lambda"  -> LambdaAccepts(v, o)
      [] f = "simple"  -> heap[v].class = "leaf"
      [] f = "record"  -> RecordAccepts(v, o)
      [] f = "functor" -> FunctorAccepts(v, o)
      [] OTHER         -> heap[v].class = f

FirstAccepting(list, v, o) ==
    LET I == {i \in DOMAIN list : Accepts(list[i], v, o)}
    IN  IF I = {} THEN "none" ELSE list[CHOOSE i \in I : \A j \in I : i <= j]

(* context::format tries the custom list and then the builtin one;         *)
(* context::format_raw tries the builtin one only.                         *)
Chosen(op, v, o) ==
    LET c == IF op = "format" THEN FirstAccepting(Custom, v, o) ELSE "none"
    IN  IF c # "none" THEN c ELSE FirstAccepting(Builtin, v, o)

-----------------------------------------------------------------------------
(* What each formatter does with the context, in order *)

Do(op)        == [op |-> op, sub |-> NoValue, opts |-> "current"]
Format(x, m)  == [op |-> "format", sub |-> x, opts |-> m]
Sub(op, subs) == [i \in 1 .. Len(subs) |->
                    [op |-> op, sub |-> subs[i], opts |-> "current"]]

RecordPlan(v)  == <<Do("start")>> \o Sub("field", heap[v].subs) \o <<Do("stop")>>

FunctorPlan(v) ==
    <<Format(IF heap[v].callop = NoValue THEN FormatError ELSE heap[v].callop,
             "current")>> \o RecordPlan(v)

(* A pointer formats what it points to, a tuple its elements, at once *)
PointerPlan(v) == Sub("format", heap[v].subs)
TuplePlan(v)   == Sub("format", heap[v].subs)

ConvPlan(v) == <<Format(heap[v].subs[1], "noraw")>>

BindPlan(v) == <<Format(heap[v].subs[1], "functor"),
                 Format(heap[v].subs[2], "noraw"), Do("childs")>>

(* A container reads its elements when they are asked for; formatting a    *)
(* leaf goes wrong when its one sub is a fault.                            *)
Plan(f, v) ==
    CASE f = "record"                -> RecordPlan(v)
      [] f \in {"functor", "lambda"} -> FunctorPlan(v)
      [] f = "pointer"               -> PointerPlan(v)
      [] f = "tuple"                 -> TuplePlan(v)
      [] f = "simple"                -> Sub("format", heap[v].subs)
      [] f = "container"             -> <<>>
      [] f = "conv"                  -> ConvPlan(v)
      [] f = "bind"                  -> BindPlan(v)

-----------------------------------------------------------------------------
(* The call stack *)

Top   == stack[Len(stack)]
Rest  == SubSeq(stack, 1, Len(stack) - 1)
Head1 == Head(Top.todo)

Running == stack # <<>> /\ exc = "none"
Next1(op) == Running /\ Top.todo # <<>> /\ Head1.op = op

(* The calls that pushed options, and the record values in progress *)
PushedAt(s)  == {i \in 1 .. Len(s) : s[i].pushed}
OpenAt(f, s) == {i \in 1 .. Len(s) : s[i].by = f /\ s[i].open}

WithTodo(todo) == Append(Rest, [Top EXCEPT !.todo = todo])

Root(kind, todo) ==
    [by |-> kind, val |-> NoValue, wrap |-> FALSE, pushed |-> FALSE,
     open |-> FALSE, todo |-> todo]

(* The client calls the library only when no call of its own is running.   *)
Idle == stack = <<>> /\ calls < MaxCalls

Enter(root) ==
    /\ Idle
    /\ calls' = calls + 1
    /\ stack' = <<root>>
    /\ res' = NoResult
    /\ UNCHANGED <<heap, base, over, depth, num, exc, held, lostPops, lostStops, shown>>

(* context::format(val) and context::format(val, opts) *)
ClientFormat(v, m) == Enter(Root("client", <<Format(v, m)>>))

(* A child of a result the client holds: a record's field, a container's   *)
(* element, bind's target or arguments.                                    *)
ExpandChild(r, i) ==
    /\ r.childs # "none"
    /\ i \in 1 .. Len(heap[r.of].subs)
    /\ Enter(Root(r.childs, <<Format(heap[r.of].subs[i], "current")>>))

(* The [Raw Data] child that try_format adds *)
ExpandRawData(r) ==
    /\ r.raw # NoValue
    /\ Enter(Root("fields", <<[op |-> "raw", sub |-> r.raw, opts |-> "current"]>>))

SetFmtOpts(o) ==
    /\ Idle
    /\ calls' = calls + 1
    /\ base' = o
    /\ UNCHANGED <<heap, over, depth, num, stack, exc, res, held, lostPops, lostStops, shown>>

(* set_show_raw_data starts from a copy of fmt_opts(), the stack's top *)
SetShowRawData(b) == SetFmtOpts([FmtOpts EXCEPT !.raw = b])

-----------------------------------------------------------------------------
(* One step of a formatting call *)

CallOptsSlip == FmtOpts                 \* pushes the options too late

CallOpts == With(FmtOpts, Head1.opts)

FrameFor(f, v, op, m, o) ==
    [by |-> f, val |-> v,
     wrap |-> op = "format" /\ f \in CustomFormatters /\ o.raw,
     pushed |-> m # "current", open |-> FALSE, todo |-> Plan(f, v)]

(* A nested call of context::format or format_raw that finds a formatter *)
Call(op) ==
    /\ Next1(op)
    /\ Head1.sub \in Values
    /\ Len(stack) < MaxFrames
    /\ LET v == Head1.sub
           o == CallOpts
           f == Chosen(op, v, o)
       IN  /\ f # "none"
           /\ stack' = Append(WithTodo(Tail(Top.todo)), FrameFor(f, v, op, Head1.opts, o))
           /\ over' = IF Head1.opts = "current" THEN over ELSE Append(over, o)
    /\ res' = NoResult
    /\ UNCHANGED <<heap, base, depth, num, exc, held, calls, lostPops, lostStops, shown>>

(* No formatter accepts the value: format_raw returns an error result *)
CallUnformattable(op) ==
    /\ Next1(op)
    /\ Head1.sub \in Values
    /\ Chosen(op, Head1.sub, CallOpts) = "none"
    /\ stack' = WithTodo(Tail(Top.todo))
    /\ res' = NoResult
    /\ UNCHANGED <<heap, base, over, depth, num, exc, held, calls, lostPops, lostStops, shown>>

(* Reading the next value, or formatting a leaf, throws *)
Throw ==
    /\ Next1("format")
    /\ Head1.sub \in Faults
    /\ exc' = Head1.sub
    /\ UNCHANGED <<heap, base, over, depth, num, stack, res, held, calls, lostPops, lostStops, shown>>

NeedsRefillSlip(f) == TRUE              \* forgets the enclosing record

NeedsRefill(f) == depth[f] = 0

DeeperSlip(d) == IF d = 0 THEN 1 ELSE d \* counts outermost records only

Deeper(d) == d + 1

StartRecord ==
    /\ Next1("start")
    /\ LET f == Top.by IN
       /\ num'   = IF NeedsRefill(f) THEN [num EXCEPT ![f] = FieldBudget] ELSE num
       /\ shown' = IF OpenAt(f, stack) = {} THEN [shown EXCEPT ![f] = 0] ELSE shown
       /\ depth' = [depth EXCEPT ![f] = Deeper(@)]
    /\ stack' = Append(Rest, [Top EXCEPT !.open = TRUE, !.todo = Tail(@)])
    /\ UNCHANGED <<heap, base, over, exc, res, held, calls, lostPops, lostStops>>

SkipNextFieldsSlip(f) == depth[f] > 1 /\ num[f] = 0     \* off by one

SkipNextFields(f) == depth[f] > 0 /\ num[f] = 0

(* A field within the budget: count it, then read and format it *)
ShowField ==
    /\ Next1("field")
    /\ ~SkipNextFields(Top.by)
    /\ num'   = [num EXCEPT ![Top.by] = IF @ > 0 THEN @ - 1 ELSE @]
    /\ shown' = [shown EXCEPT ![Top.by] = @ + 1]
    /\ stack' = WithTodo(<<Format(Head1.sub, "current")>> \o Tail(Top.todo))
    /\ UNCHANGED <<heap, base, over, depth, exc, res, held, calls, lostPops, lostStops>>

(* Budget used up: "...", leave the loop, not the function *)
AfterSkipSlip == <<>>                   \* returns instead

AfterSkip == <<Do("stop")>>

SkipFields ==
    /\ Next1("field")
    /\ SkipNextFields(Top.by)
    /\ stack' = WithTodo(AfterSkip)
    /\ UNCHANGED <<heap, base, over, depth, num, exc, res, held, calls, lostPops, lostStops, shown>>

StopRecord ==
    /\ Next1("stop")
    /\ depth' = [depth EXCEPT ![Top.by] = @ - 1]
    /\ stack' = Append(Rest, [Top EXCEPT !.open = FALSE, !.todo = Tail(@)])
    /\ UNCHANGED <<heap, base, over, num, exc, res, held, calls, lostPops, lostStops, shown>>

(* std::bind lists the children of its formatted argument tuple ... *)
ListChilds ==
    /\ Next1("childs")
    /\ stack' = WithTodo(IF res.childs = "none" THEN Tail(Top.todo)
                         ELSE Sub(res.childs, heap[res.of].subs) \o Tail(Top.todo))
    /\ UNCHANGED <<heap, base, over, depth, num, exc, res, held, calls, lostPops, lostStops, shown>>

(* ... and asks for each through fmt_result_ref::child_at *)
AskChild(kind) ==
    /\ Next1(kind)
    /\ Len(stack) < MaxFrames
    /\ stack' = Append(WithTodo(Tail(Top.todo)),
                       Root(kind, <<Format(Head1.sub, "current")>>))
    /\ UNCHANGED <<heap, base, over, depth, num, exc, res, held, calls, lostPops, lostStops, shown>>

(* The children of a result.  A converted value keeps the inner result; a  *)
(* pointer shows the pointee's children.                                   *)
ChildsOf(t) ==
    CASE t.by \in RecFormatters \cup {"bind"} -> "fields"
      [] t.by \in {"tuple", "container"}      -> "elements"
      [] t.by \in {"conv", "pointer"}         -> res.childs
      [] t.by = "simple"                      -> "none"

RawDataOf(t) ==
    CASE t.wrap                                        -> t.val
      [] ~t.wrap /\ t.by \in {"conv", "pointer"}       -> res.raw
      [] OTHER                                         -> NoValue

(* The address is set before the [Raw Data] proxy is put around the result *)
HasAddress(t) == ~t.wrap /\ (heap[t.val].addr \/ (t.by = "conv" /\ res.addr))

(* The result of a call that ended normally *)
Outcome(t) ==
    IF t.by \in Roots THEN res
    ELSE [childs |-> ChildsOf(t),
          of     |-> IF t.by \in {"conv", "pointer"} THEN res.of ELSE t.val,
          raw    |-> RawDataOf(t),
          addr   |-> HasAddress(t)]

(* The error result a handler makes; try_format wraps that one as well *)
ErrorOutcome(t) == [NoResult EXCEPT !.raw = IF t.wrap THEN t.val ELSE NoValue]

PopOptsSlip(t) == over                  \* keeps the pushed options

PopOpts(t) == IF t.pushed THEN SubSeq(over, 1, Len(over) - 1) ELSE over

(* Leaving a call normally: format(val, opts) pops the options it pushed,  *)
(* and the result of the outermost call goes to the client.                *)
Leave(r) ==
    /\ stack' = Rest
    /\ over' = PopOpts(Top)
    /\ res' = r
    /\ held' = IF Rest = <<>> THEN held \cup {r} ELSE held

Return ==
    /\ Running
    /\ Top.todo = <<>>
    /\ Leave(Outcome(Top))
    /\ UNCHANGED <<heap, base, depth, num, exc, calls, lostPops, lostStops, shown>>

(* The handlers: try_format and the child bridge catch format_error, a     *)
(* container's child_at catches std::exception, the client's call nothing. *)
CatchesSlip(by) ==                      \* no handler in try_format
    CASE by = "fields"                   -> {FormatError}
      [] by = "elements"                 -> Faults
      [] by \in Formatters \cup {"client"} -> {}

Catches(by) ==
    CASE by \in Formatters \cup {"fields"} -> {FormatError}
      [] by = "elements"                   -> Faults
      [] by = "client"                     -> {}

(* A frame cut short between start and stop never decrements its depth *)
CloseCut == lostStops' = IF Top.open THEN [lostStops EXCEPT ![Top.by] = @ + 1]
                                     ELSE lostStops

Catch ==
    /\ stack # <<>>
    /\ exc \in Catches(Top.by)
    /\ exc' = "none"
    /\ Leave(ErrorOutcome(Top))
    /\ CloseCut
    /\ UNCHANGED <<heap, base, depth, num, calls, lostPops, shown>>

(* No handler here: the frame is discarded without its pop; when it is the *)
(* last one the exception reaches the client.                              *)
Unwind ==
    /\ stack # <<>>
    /\ exc # "none"
    /\ exc \notin Catches(Top.by)
    /\ stack' = Rest
    /\ exc' = IF Rest = <<>> THEN "none" ELSE exc
    /\ lostPops' = IF Top.pushed THEN lostPops + 1 ELSE lostPops
    /\ CloseCut
    /\ UNCHANGED <<heap, base, over, depth, num, res, held, calls, shown>>

-----------------------------------------------------------------------------
Init ==
    /\ heap \in Heaps
    /\ base = [raw |-> TRUE, functor |-> FALSE]
    /\ over = <<>>
    /\ depth = [f \in RecFormatters |-> 0]
    /\ num = [f \in RecFormatters |-> FieldBudget]
    /\ stack = <<>>
    /\ exc = "none"
    /\ res = NoResult
    /\ held = {}
    /\ calls = 0
    /\ lostPops = 0
    /\ lostStops = [f \in RecFormatters |-> 0]
    /\ shown = [f \in RecFormatters |-> 0]

(* The formatting thread: deterministic once the client has called *)
Engine ==
    \/ \E op \in {"format", "raw"} : Call(op) \/ CallUnformattable(op)
    \/ Throw
    \/ StartRecord
    \/ ShowField
    \/ SkipFields
    \/ StopRecord
    \/ ListChilds
    \/ \E kind \in {"fields", "elements"} : AskChild(kind)
    \/ Return
    \/ Catch
    \/ Unwind

Client ==
    \/ \E v \in Values, m \in {"current", "noraw", "raw"} : ClientFormat(v, m)
    \/ \E r \in held : ExpandRawData(r)
    \/ \E r \in held : r.childs # "none" /\ \E i \in 1 .. Len(heap[r.of].subs) : ExpandChild(r, i)
    \/ \E o \in Options : SetFmtOpts(o)
    \/ \E b \in BOOLEAN : SetShowRawData(b)

Next == Engine \/ Client

(* Nothing suspends the calling thread inside a call *)
Spec == Init /\ [][Next]_vars /\ WF_vars(Engine)

-----------------------------------------------------------------------------
(* Properties *)

(* Every variable has its type; rec_value_depth_ in particular is never    *)
(* decremented below zero, which stop_record_value_format asserts.         *)
TypeOK ==
    /\ heap \in [Values -> Desc]
    /\ base \in Options
    /\ over \in Seq(Options)
    /\ depth \in [RecFormatters -> Nat]
    /\ num \in [RecFormatters -> 0 .. FieldBudget]
    /\ stack \in Seq(Frame)
    /\ exc \in Faults \cup {"none"}
    /\ res \in Result
    /\ held \in SUBSET Result
    /\ calls \in Nat
    /\ lostPops \in Nat
    /\ lostStops \in [RecFormatters -> Nat]
    /\ shown \in [RecFormatters -> Nat]

(* The option stack of the context holds exactly one entry per running     *)
(* call of format(val, opts), plus one for each such call that an          *)
(* exception other than format_error left: push and pop of context::format *)
(* stay paired through every nesting and every caught format_error.        *)
OptsBalanced == Len(over) = Cardinality(PushedAt(stack)) + lostPops

(* A record formatter's rec_value_depth_ counts the record values it is    *)
(* in the middle of, plus the ones an exception cut short: whatever the    *)
(* mix of "..." and normal ends, start and stop are paired.                *)
DepthBalanced ==
    \A f \in RecFormatters :
        depth[f] = Cardinality(OpenAt(f, stack)) + lostStops[f]

(* However records nest through pointers, conversions and tuples, a record *)
(* formatter shows at most FieldBudget fields for one outermost record.    *)
BudgetBound == \A f \in RecFormatters : shown[f] <= FieldBudget

(* A record value that starts gets a full field budget exactly when no     *)
(* other record of the same formatter is in progress, as long as no        *)
(* exception has cut a record of that formatter short.                     *)
BudgetFresh ==
    [][\A f \in RecFormatters :
          depth'[f] > depth[f] /\ lostStops[f] = 0
          => (OpenAt(f, stack) = {} <=> num'[f] = FieldBudget)]_vars

(* A format_error never reaches the code that called context::format: the  *)
(* frames of the entry points see it only where they catch it.             *)
ErrorsContained == exc = FormatError => Top.by # "client"

(* While a converted or bound value is being formatted with a copy of the  *)
(* options that turns [Raw Data] off, nothing below it is wrapped in a     *)
(* [Raw Data] proxy, however deep the formatter that made it.              *)
ConversionHidesRawData ==
    \A i \in 2 .. Len(stack) :
        stack[i].pushed /\ stack[i - 1].by \in {"conv", "bind"}
        => \A j \in i .. Len(stack) : ~stack[j].wrap

(* A call into the library comes back, even when records, pointers and     *)
(* closures form a cycle: the field budget cuts the recursion.             *)
FormatTerminates == stack # <<>> ~> stack = <<>>

(* What context.hpp promises of set_fmt_opts ("Sets current format         *)
(* options"): after it, fmt_opts() is what was set.                        *)
SetTakesEffect == [][\A o \in Options : SetFmtOpts(o) => FmtOpts' = o]_vars

(* What record_formatter.cpp promises at start_record_value_format ("new   *)
(* record value formatting, reset number of fields"): a record started     *)
(* when none of its formatter is in progress has the whole budget.         *)
FreshBudget ==
    [][\A f \in RecFormatters :
          depth'[f] > depth[f] /\ OpenAt(f, stack) = {} => num'[f] = FieldBudget]_vars

(* What fmt_result.hpp and try_format promise ("Returns address of         *)
(* formatted value", "setting value address if not set"): the result of a  *)
(* value with an address, formatted without error, has it.                 *)
AddressKept ==
    [][Return /\ Top.by \in Formatters /\ heap[Top.val].addr => res'.addr]_vars
=============================================================================
