# TLA+ models of dbgfmt

dbgfmt turns values of a stopped program (the *debuggee*) into text and trees of
children for a debugger's variable view. It is a single-threaded C++ library: the
debugger calls `context::format(value)`, gets a reference-counted result, and asks that
result for children later, one by one. What is hard about it is not parallelism but

* recursion through user-visible state: formatters call the context back, the context
  keeps a stack of options, each record formatter keeps a depth and a field budget, and
  exceptions cut the recursion short at any point;
* laziness: children are formatted long after the result was made, under whatever
  options the context has then, over memory that may have changed;
* data that cannot be trusted: the debuggee may be half initialised or damaged, its byte
  order may differ from the host's, and its fields may lie at the end of readable memory;
* manual ownership across a plug-in bridge.

The modules here model the code under `src/src` and `src/include/dbgfmt`. Paths below are
relative to the repository.

## 1. Inventory

| Component | State | Operations | Hard behaviour | What makes it correct |
|---|---|---|---|---|
| formatting engine (`src/context.cpp`, `context.hpp`, `formatter.hpp`) | `fmt_opts_`, `fmt_opts_stack_`, the formatter lists | `format`, `format(val, opts)`, `format_raw`, `try_format`, the setters | exceptions of two kinds through nested calls; a handler in every `try_format` | options in force are those of the innermost call; format errors never leave; every call returns |
| record, functor, lambda formatters (`record_formatter.*`, `functor_formatter.cpp`, `lambda_formatter.cpp`) | `rec_value_depth_`, `num_rec_fields_` per formatter object | start, skip test, increment, stop | reentrancy; a field that throws between start and stop | depth = records in progress; budget refilled for outermost records only; at most ten fields |
| eager and converting formatters (`pointer_formatter.cpp`, `value_conv_formatter.hpp`, `std_tuple_formatter.cpp`, `std_bind_result_formatter.cpp`) | none | re-enter the context while formatting | recursion through cycles; options pushed for everything below | terminates; no raw-data child below a conversion |
| results and children (`fmt_result.*`, `proxy_fmt_result.hpp`, `fixed_fmt_result.hpp`, `fmt_result_childs_list.hpp`) | address, time, children closures | `child_at`, `childs_size`, `set_address` | lazy children; wrapping after the fact | index maps are bijections; properties survive wrapping |
| reference counting (`ref_counted.hpp`, `string.hpp`, bridge part of `fmt_result.hpp`) | `ref_count_`, raw pointers in flight | `add_ref`, `release`, `do_return`, `acquire_*`, `make_ref`, `br_get_child_at` | ownership handed over as raw pointers; exceptions between the hand-overs | no object used after release; none leaked |
| data access (`data/accessor.*`, `vector_storage.hpp`, `error_storage.hpp`) | base offset, byte order | sized reads and writes, bit reads | widths, wrap-around, byte order, unreadable bytes | reads what was written; never outside the storage |
| bit-fields (`accessor::read_unsigned_bits`, `read_signed_bits`, `value_impl_common::create_field_val`) | the word under construction | read first, middle, last byte; sign extension; temporary storage | shifts, boundaries, two byte orders | the field's bits, each once, and no byte more |
| value layer (`value_impl_common.cpp`, `value.cpp`) | temporaries' storages, shared by the values made from them; otherwise views of memory | fields, bases, elements, dereference with dynamic type, pointer arithmetic, casts, writes, assignment | offsets through bases, dynamic types, values sharing a storage, two byte orders | navigation from an object stays on objects; what is written is read, and nothing else changes |
| container formatters (`container_formatter.*`, `src/stl/**`) | size cached in the result | `size`, `element`, `child_at` | walks of damaged structures; stale sizes | the i-th element; walks end; an old child fails or shows an element |
| string layouts (`std_string_formatter.cpp`, `stdcpp_cxx11_string_formatter.cpp`, `libcxx_string_formatter.cpp`) | none | size, capacity, data | local buffer or heap | agrees with the library's representation |
| holders (`stdcpp_any_formatter.cpp`, `stdcpp_function_formatter.cpp`, `stdcpp_variant_formatter.cpp`, tuples, smart pointers) | the children kept in the result | find and format what is stored | fallbacks, self-containing storage | the stored value or an error |
| printing (`print.hpp`, `std_chrono_formatter.cpp`, `char_formatter.cpp`) | none | pure functions | conversions towards zero, wrap-around, text cut in a character | the parts add up to the whole |
| `cm` backend (`src/backend/cm`) | type objects made so far, objects and dynamic types by address | find and make types, objects at an address | types found by name; fields declared after a type object was made | the type of that name; the same fields by number and by name |
| type names (`template_name.hpp`, `utils.cpp`, `cxxtn`) | none | string processing | - | not modelled |

How they interact: the debugger calls the **engine**; the engine asks the **formatters**
in list order; formatters read the debuggee through **values**, which read **data**; they
call the engine back for sub-values, directly (records, pointers, tuples, conversions,
bind) or from closures stored in **results** that run when a child is expanded; results
and formatters are held by **reference counts** so that they can come from plug-ins.

`PROJECT.json` lists the hazards line by line with the properties that would catch them.

## 2. Modules

### FormatContext - the engine and the formatters that re-enter it

The C++ recursion is an explicit `stack` of frames, one per call of
`formatter::format` and one per entry point. A frame holds who runs (`by`), the value,
whether this call pushed options (`pushed`), whether its result will be wrapped with
`[Raw Data]` (`wrap`), whether it is between `start_record_value_format` and
`stop_record_value_format` (`open`), and what is left to do (`todo`).

| Model | Code |
|---|---|
| `base`, `over` | `context::fmt_opts_`, `fmt_opts_stack_` |
| `depth`, `num` | `rec_value_depth_`, `num_rec_fields_` of the record, functor and lambda formatter objects |
| `stack`, `exc` | the call stack, the exception in flight |
| `res`, `held` | the result returned last, results the debugger keeps |
| `Call`, `CallUnformattable` | `format`/`format_raw` choosing a formatter and entering it, or finding none |
| `StartRecord`, `ShowField`, `SkipFields`, `StopRecord` | the loop of `record_fmt_result`'s constructor |
| `ListChilds`, `AskChild` | `std_bind_result_formatter` asking its argument tuple for its children |
| `Throw` | a read or a formatting that throws, of either kind |
| `Return`, `Catch`, `Unwind` | leaving a frame with a result, through a handler, or by an exception nobody here handles |
| `ClientFormat`, `ExpandChild`, `ExpandRawData`, `SetFmtOpts`, `SetShowRawData` | the debugger's calls |

`lostPops`, `lostStops` and `shown` are history variables: pops and stops an exception
skipped, fields shown for the outermost record in progress. No guard reads them.

The debuggee is a `heap`: each value has a class (leaf, pointer, record, tuple,
container, converted value, bind result, or opaque: accepted by no formatter), may be a
lambda, may have an `operator()`, and lists what formatting it reads; a fault in that
list is a read that throws `format_error` or another exception. `std::locale("")` in
`char_formatter.cpp` is where an exception other than `format_error` really comes from.

### BitField - reading a bit-field

One action per `read_raw` of `accessor::read_unsigned_bits`, then `MakeValue`: sign
extension, the temporary storage and the way it is read back. A word is a set of pairs
(bit of the word, bit of the record it came from), so that a property says where every
bit went instead of checking sample bytes. No byte that is read is shifted by 64 or more:
`TypeOK` bounds the shift before every use. The sign extension of a field of 64 bits does
shift by 64 (`accessor.cpp:89`); what it shifts is zero, and stays zero in every build.

### RefCounted, Ownership - who owns a result

Results and strings carry their own count; inside the library references are
`boost::intrusive_ptr`s, across the bridge they are raw pointers, each of which owns one
reference from a `do_return` to an `acquire`. An exception may strike between the two, so
RefCounted has one action per operation on a reference (allocate, first reference, copy,
swap, release) and a call of the library is the sequence of operations it performs, kept
in `todo`. The choices the code makes are choices between such sequences.

| Model | Code |
|---|---|
| `alive`, `count` | objects that exist, `ref_counted_impl::ref_count_` |
| `ptr` | the reference in each place: the debugger's variables, the local variables and raw pointers of each nested call, the members `orig_res_`, `pointee_fval_` and the captured `[target]` |
| `fresh` | the object a `unique_ptr` holds until its first reference is made |
| `lost` | references whose raw pointer went out of scope, by object |
| `todo`, `unwinding` | the rest of the call, an exception in flight |
| `Results`, `FormatPlans`, `Wrap` | what `format` builds: plain results, converted values, `std::bind` asking its arguments' children, pointers, functors; error results; `[Raw Data]` |
| `ChildPlans`, `BrGetChildAt`, `Caught` | `child_at` and `br_get_child_at` on both sides of the bridge, with its handler |
| `TextPlan`, `PosFilePlans`, `ReadPlans` | reading a position: `br_get_val_pos`, `set_file` |
| `ReleaseAt`, `Destructor` | `release`, and the destructors of the members it sets off |
| `ToHandler`, `Unwind` | exceptions: inner calls first, up to the `catch (std::exception &)` of a container's element or to the debugger |

`Ownership` is the same program with its memory collected for it: objects refer to
objects, references come only from references, and an object may go when nothing refers
to it. RefCounted implements it with `exists <- alive` and, as objects that are kept
though no place refers to them, the one under construction and those with lost references.

### NodeContainers - walks through the debuggee's memory

Lists, forward lists, hash tables and the trees of both libraries. Each read of a pointer
is a step, so that a walk that does not end is a behaviour that does not end. The memory
is a graph (`link`); `contents` is the sequence the library would iterate over, which no
formatter can see: the properties compare the two.

| Model | Code |
|---|---|
| `link`, `count` | the pointers and the element count in the debuggee |
| `kept` | `container_fmt_result::size_` |
| `walk` | the loop or the recursion in progress: its counter, its node, the stack of `get_tree_item` |
| `Format`, `SizeStep`, `ReadCount`, `CheckSize`, `SizeKnown` | `container_formatter::format` and each formatter's `size` |
| `Expand` | `proxy_fmt_result::child_at`, then `container_fmt_result::child_at` |
| `ListElementStep`, `HashElementStep` | `element` of lists, forward lists and hash tables |
| `TreeLeft`, `TreeSelf`, `TreeRight`, `TreeReturn`, `TreeNotFound` | `get_tree_item` of the libstdc++ tree, one stage of a call each |
| `NextStep`, `MinStep`, `ClimbStep` | `tree_next` and `tree_min` of the libc++ tree |
| `Rebuild`, `Damage` | the debuggee runs: it leaves another container, or one bad link or count |

`Tree` builds every search tree a red-black tree can have: one for each order of ages in
which parents are older than children, kept if no path is twice as long as another.

### ArrayContainers - elements found by arithmetic

Vectors, arrays, valarrays, slices, regex matches, deques, bitsets and strings. One
element is one address; a container is its fields (`rep`), and again `contents` is what
they stand for. A call is one action: its reads cannot be interleaved with anything.
`asserts` tells builds with assertions from those without: `stdcpp_deque_formatter`'s
assertion reads the debuggee again, and aborts the debugger when it has run.
For text, `chars` says how many bytes each character takes; `Converted`, `WideText` and
`Cut` are the conversion to wide characters and the cut after `max_printed_chars`.

`Misread` names intact containers the formatters do get wrong: a libstdc++ deque of
elements of 512 bytes or more, or with a map too large for `max_container_size`; an
empty `match_results`; libc++ strings of big endian debuggees.

### ValueLayer - values, pointers and dynamic types

A value is a type, a storage (memory or a temporary's bytes) and an offset. A client has
one value in hand and one it has kept; each action is one call of `value` on it, which
throws without its `Can...` condition. A temporary's storage is shared by the values
derived from it (`shared`): writing one changes the other.

| Model | Code |
|---|---|
| `mem`, `Target` | the debuggee's memory; its objects, functions, symbols and known types |
| `dynamic` | `value_context_impl::dynamic_types_` of the `cm` backend |
| `CanRead`, `ReadRaw`, `InHostOrder`, `Digits`, `Stored` | `data::accessor`, `data::vector_storage` |
| `CreateField`, `FieldAt`, `Found`, `BaseAt`, `ElementAt` | `create_field_val`, `field_at`, `find_field`, `base_at`, `array_at` |
| `HasField`, `CanField`, `GoToOwn` | `has_field`, `field` with a name, whose test is the wrong way round |
| `Ptr`, `FieldPointer`, `Add`, `Difference`, `MemFunPtr`, `MemVar` | their namesakes in `value_impl_common.cpp` |
| `DynamicType`, `RecordsOf`, `Start`, `FromContext` | `dynamic_type_at_addr`: the virtual table's symbol, its first function, the offset to the top, the context |
| `WriteNumber`, `WriteBool`, `WritePart`, `Assign` | `write_...`, `assign` |

`honest` is a history variable: the client has only navigated, from an object the
debuggee has.

### TypeContext, Chrono, Holders - what a value holds

`Holders` has the formatters of `std::any`, `function`, `bind`, `variant`, `optional`,
`tuple`, smart pointers, durations and time points. `rep` is what the debuggee has,
`stored` what the program has put in. `any` and `function` find the type of what they
hold through the manager function whose address they keep: through its class's template
parameters, or by the name of the type.

The path `_M_payload._M_payload` leads to the value of an `optional`, or in newer
libraries to a union that has the value (`Payload`). A `variant` is a chain of unions:
`Rest` follows `_M_rest` as far as the index says, and `VariantStorage` is the
`_M_first._M_storage` it finds there, the alternative itself, or a buffer of bytes when
the alternative is not trivial. Such a union or buffer is then what the result shows
(`Boxed`; the model has `""` for it).

`TypeContext` is the `cm` backend's side of that: `Lookup` is `find_cm_type` and its
helpers, over types as terms; `Printed` is what is left of a type in its name, which is
where types are lost (enumerations, typedefs, arrays, member pointers, template values,
`bool` and the `char16_t` kinds cannot be found; the two kinds of references become one).
`CodeModelAssumption` says which terms a code model has: names are declared once in each
namespace or class, what is built from types has no name, and no term is a part of itself
(`Nesting`).
`made` are the fields each record's type object has taken, `fields` those the code model
has: `GetOrCreate`, `FieldKnown`, `FieldFound`.

`Chrono` is the arithmetic of durations and time points: `duration_cast` multiplies
before it divides, truncates towards zero and wraps; `Normalized`, `TimeT`, `Fraction`,
`SubSecond` are the parts a formatter shows.

A result keeps some of what it shows (`kept`) and reads the rest again when a child is
expanded (`KeptChild`, `ReadChild`); in between the debuggee may run (`Change`, `Damage`)
and the application may ask the type context or declare fields (`Ask`).

### MCFormatContext, MCBitField, MCRefCounted, MCNodeContainers, MCArrayContainers, MCValueLayer, MCHolders

Instances for TLC.

### The proof modules

`FormatContextProofs`, `BitFieldProofs`, `RefCountedProofs`, `NodeContainersProofs`,
`ArrayContainersProofs`, `ValueLayerProofs` and `HoldersProofs` hold the proofs about
the modules they are named for (`HoldersProofs` also those about TypeContext and Chrono);
`NumberLemmas` has what several of them need of natural numbers. See section 4.

## 3. Runs

| Run | Shows |
|---|---|
| `format_engine` | the properties of FormatContext over all sequences of three client calls |
| `set_takes_effect` | a counterexample: options set after an escaped exception are ignored |
| `fresh_budget` | a counterexample: an unreadable field makes later records lose theirs |
| `address_kept` | a counterexample: the raw-data proxy has no address |
| `bit_fields` | the properties of BitField for every size, offset, type and byte order |
| `reads_all_bits` | a counterexample: a short field that crosses a byte loses bits |
| `ref_counting` | the properties of RefCounted, and that it implements Ownership |
| `unreferenced_destroyed` | a counterexample: a child's name is never released when its position cannot be converted |
| `node_containers` | the properties of NodeContainers: sizes and elements of intact containers, children of old results, which damage hangs a walk and which exhausts the stack |
| `array_containers` | the properties of ArrayContainers: sizes, capacities, elements and texts, and when the deque's assertion can stop the debugger |
| `values` | the properties of ValueLayer over every sequence of three calls: where navigation leads, what writes change, dynamic types |
| `holders` | the properties of Holders, TypeContext and Chrono: what is shown is what is stored, times add up, names find their types |

The five counterexamples are disagreements between the code and its own comments; they
are described under "findings" in `PROJECT.json`. The properties of the passing runs are
stated so that they hold in spite of them, and say exactly how: the balances count what an
exception skipped, `BudgetFresh` speaks of formatters none of whose records was cut
short, the bit-field properties leave out short fields that cross a byte, and
`CountsExact` and `NoLeaks` count the references that were lost, which
`LossNeedsException` confines to exceptions.

**Bounds.** `FieldBudget = 3` (ten in the code): records of three fields reach the
budget, nested ones exceed it. `MaxCalls = 3`: the shortest history in which state left
by one call changes a later one needs two, and a third one changes options or expands a
child in between. `MaxFrames = 20` is never reached: TLC's deepest stack is lower, so no
call is cut by it. The six memories each contain one kind of trouble: a cycle through a
record, a lambda and a conversion; unreadable fields at two depths; a leaf that throws;
bound functors whose arguments are a tuple, a lazily expanded sequence or a record with
such faults. In `bit_fields` nothing is bounded but the number of readable bytes, which
takes the values at which the reading stops after each kind of byte.
`ref_counting` has four objects, as many as a child call needs at once (parent, child,
name and file), and calls nested three deep: an element of a container that formats a
call's arguments and asks them for a child. Nothing is cut by the number of objects:
an allocation without memory throws, as in the program. The debugger has one variable; a
second one adds sharing, which members and proxies provide already, and nothing to the
order of operations.
`node_containers` has four nodes and shows at most three: sizes at the limit and beyond
it occur, and four nodes make every shape of tree in which `tree_next` climbs more than
one level and `get_tree_item` counts across two subtrees. The debuggee runs once, which is
between the formatting of a result and its expansion, or before; damage is one wrong link
or count, which is enough for every kind of cycle. The stack has room for 16 calls, more than
`MaxSize` times the cells: an undamaged tree never needs as many.
`array_containers` scales widths down: nodes of four bytes for 512, bytes of sixteen
values, words of two bits, one printed character for a hundred. Seven elements fill more
than one node of each deque and exceed the six that may be shown; elements of one to five
bytes are smaller than, equal to and larger than a node. Every coding of a text of five
bytes into characters of one or two occurs, with invalid bytes.
`values` has bytes of three bits and memory for 64 of them, so that words are two bytes and
a program with two polymorphic bases, an array of records' pointers and a bit-field of each
kind fits. Three calls reach the whole object from a pointer to one of its bases and a step
inside an array, and a write after two values have come to share a storage; clients start
from a record, an array, a pointer to member and pointers to either base, so that what
needs more than three calls from one object is within reach from another.
`holders` has the ratios of the units scaled down (a month is still no whole number of
days), five counts on both sides of zero and of a month and a year, tuples of three with
any of them empty, and types nested as deep as the lookups tell apart.
All of these but `ref_counting` switch deadlock checking off: a client may stop calling,
and reading a field ends. In `ref_counting` it is on: a call that could not go on would be
reported.

**Fairness.** `WF_vars(Engine)`: the code runs on the thread that called it and nothing
in it waits, so a call that can take a step takes it. The client is not fair.
`FormatTerminates` needs it. `WF_vars(Step)` of NodeContainers is the same: a walk is a
loop or a recursion of the thread that was called. `WalkEnds` is stated with its
exceptions, the cycles in which the code does walk forever (`Trapped`). The other modules
state safety only and assume no fairness.

## 4. Proofs

The theorems hold for every value of the constants that satisfies the assumptions of the
modules: any number of values, nodes, objects and terms, any sizes, limits and budgets,
any memory. The assumptions (`ConstantsAssumption`, the two `SizesAssumption`,
`RefCountedAssumption`, `NodesAssumption`, `BoundsAssumption`, `LimitsAssumption`,
`KindsAssumption`, `LayoutAssumption`, `UnitsAssumption`, `TermsAssumption`,
`CodeModelAssumption`, `HoldersAssumption`, `ItemAssumption`, `ManagersAssumption`, `TypesAssumption`,
`ImagesAssumption`, `FunctionsAssumption`, `ObjectsAssumption`) are evaluated by the passing runs. Those on
ArrayContainers say that the libraries' memory is readable, that the nodes of a deque do
not overlap (`Spacing`) and that counts do not wrap; the one on units that each is a whole
number of the next smaller one, months excepted. `ManagersAssumption` says that manager
functions belong to the four class templates libstdc++ has, that a function pointer fits
into the two words of a `std::function` and is copied with its bytes, and that no functor
is a namespace.

**FormatContext.** `TypeCorrect`, `OptionsArePaired`, `DepthsArePaired` and
`FormatErrorsAreContained` come from one inductive invariant `IInv`: the type invariant,
the two balances, error containment and `Shape`. `Shape` is the strengthening. It says
what is left of each call: a record formatter's frame is ahead of its start, or open with
the rest of a loop of fields that ends in `stop`, or done; no other frame is open or has a
record's steps left; the client's frame only formats values (so the reads that throw
belong to frames above it, which have a handler); an exception in flight has a frame to be
in. Without it `StopRecord` could decrement a depth nobody incremented, and a
`format_error` could start in the client's own frame. The balances are cardinalities of
sets of stack positions; `AtAppend`, `AtFront` and `AtReplace` say how they change when a
frame is pushed, popped or replaced.
`BudgetIsKept` comes from `Spent`: fields shown plus fields left never exceed the budget,
because a refill happens only when the depth is zero, which by `DepthBalanced` means that
no record is in progress. `BudgetsAreFresh` needs `CountInv`: a record in progress that is not on top of the stack,
or is about to format a field, has counted that field, so that its formatter's budget is
not full. `ConversionsHideRawData` comes from `HideInv`: above a frame whose options hide
raw data no frame is wrapped, and no entry of the option stack shows raw data but those
pushed below that frame and as many as exceptions have left (`Covered`).

**BitField.** `FieldsReadBack` and `NoByteTooMany`: after i middle bytes the word is a run
of `First + 8 * i` bits in order; `PlaceByte` makes the run longer, `ValueStep` carries it
through sign extension and storage. `BitTypeCorrect` and `EachBitOnce` hold in both byte
orders, from `WordInv`: where the shift stands (`ShiftOK`), and that the places filled so
far are one interval with one bit of the field each (`Pairs`, `FilledOnce`).

**RefCounted.** `RefCountedProofs` has `TypeCorrect`, `RefCountsAreExact` and
`NothingDangles`. The invariant adds to the three properties that the object under
construction is not counted yet and that deleted objects have count zero: with exact
counts, zero means that no place points to the object (`ZeroMeansUnreferenced`), and
memory can be used again only if nothing still points to what was there. These proofs do
not look at what the calls do: they need only be sequences of operations (the `...Plan`
lemmas), so they cover any formatter that uses references through the same operations.
`CountingRefinesOwnership` maps every step to a step of `Ownership` or a stutter.
Its second part does look at the calls, for `AnswersAreComplete`,
`OnlyExceptionsLose` and `NothingLeaks`. A call in progress is a sequence of operations;
the invariant says there is a *trace* for it, knowledge about the places between any two
operations (which may hold a reference, which must), such that each operation is allowed
where it stands and turns what is known before it into what is known after it. The plans
of all calls have traces, an exception cuts the trace at a handler (`UnwindOK`), and a
trace ends with every local place empty. That what is left can be reached from the
debugger's variables also needs that objects refer to older ones only (`Ranked`), so that
no cycle of references can be made.

**NodeContainers.** `NodeTypeCorrect` rests on `NInv`: the second walk over a container
whose size has been checked meets the cells of the first (`Following`), because nothing is
written in between, so that its count is bounded too. `IntactSizes`, `IntactElements` and
`StaleChildrenFail` rest on `FInv`: where in the library's order each walk stands. For
trees that is the position of a node among the in-order positions of a subtree, proved
from the trees the library can leave (each subtree's oldest node is its root), for
`get_tree_item`'s recursion and for repeated `tree_next`. `OverflowNeedsLeftCycle` rests
on `OInv`: how many nodes had been met when each waiting call was made. Calls that wait
with the same number form a path of left links; on a stack deeper than cells times numbers
some path is longer than there are cells, and has a cycle.

**ArrayContainers.** A call is one action, so the invariant `AInv` is short: each kind has
its fields, and intact containers are among those the library leaves. The work is in one
lemma per kind (`VectorAgrees`, `DequeAgrees`, ... collected in `LibraryAgrees`): the
arithmetic of the formatter finds what the library put there, for any number of nodes and
blocks. Text is a coding of bytes into characters (`Coded`); what is shown is whole
characters, converted as far as they are shown, and no more than are printed.

**Holders, TypeContext, Chrono.** `HolderTypeCorrect` and `TimesAddUp` rest on `HInv`:
durations keep whole counts and one of the units, variants one of their alternatives, and
what is kept is what was read. The lemmas before it prove division towards zero
(`QuotientTwice`, `QuotientWithin`), what `duration_cast` returns when nothing overflows
(`CastIs`), and that the parts shown telescope to the whole (`NormalizedSums`,
`SecondsSum`, `SubSecondSums`). `TypesAreFound`: a type's name finds it if its parts can
be found, and no name finds another type but for rvalue references, by the depth to which
terms are nested (`FoundStep`, `AllFound`); a type object has the fields of its class, or
fewer if the class has grown since (`FieldInv`).
`ContentIsShown` rests on `ContentKept`: while only the library has changed the holder it
is one of the kind's `IntactOf`, and a tuple's result keeps its elements. `ShownRight`
collects one lemma per kind: a tuple's recursion of bases finds every element wherever
empty classes have put it (`TuplesShown`, `LibcxxTuplesShown`), the arguments of a bind
likewise (`BindsShown`), a variant's walk ends at the union its index counts to (`RestIs`,
`StorageIs`, over unions built from the innermost outwards, `UnionsAre`), `any` and
`function` find their type by the template parameter or by its name (`AnysShown`,
`FunctionsShown`, from `TypesAreFound`'s lemmas), and owners are counted modulo the word
(`CountsShown`). Children that read the holder again are the same
lemmas, applied to the holder as it is now (`ExpandContent`). The attempt to prove
`ReadChild` showed that two cases of it overlapped, which leaves the value open in TLA+;
they no longer do.

**ValueLayer.** `TypesAssumption` is what a compiler's debug information satisfies: it is
closed under the types it names, which are finitely many, no typedef is its own, no object
is in one of its type, bases start at whole bytes, members lie in their record in the
order of their offsets; and every type is small against `Far`, the share of the address
space one call may lead through (with addresses of 64 bits, the largest type of a program
is not a thousandth of it).
`FunctionsAssumption` says that the address a symbol file gives for a member function is
where the debuggee has that function, and no other.
`ObjectsAssumption` is what compilers put into the debuggee's memory: objects lie within a
pointer's reach; each part of an object that has virtual functions points to the table of
the object it is a base of, the symbol there names that object's class, and two pointers
before the functions is the offset of the whole object (`HasTable`; the Itanium C++ ABI).
It speaks of the memory the program starts with, which is also all that the two theorems
that use it speak of.
`ValueTypeCorrect` and the three theorems after it rest on `IInv`: memory is bytes, what an
application has registered has a declared type, values that share a temporary see the same
bytes, and a value is `Near`: the offset of a temporary is at most `Far` for each call
that led to it. That is the strengthening: `vector_storage::read` checks the end of a read
modulo 2^64, so that a temporary far beyond its bytes would be readable.
`WrittenNumbersRead` needs that digits are bytes, that their sum is the number again
(`NumberOfDigits`), and that the two byte orders undo each other (`OrdersAgree`).
`PointersCompute` is arithmetic modulo the pointer's width, `MembersAgree` the search of
members (`Found`) against their offsets and the bits of a bit-field through a temporary
(`BitsInTemporary`). The proofs changed two properties: a pointer to member's offset in
bits wraps for values from an eighth of the address space on, and a field is the one found
by its name only if no other member has that name.
`NavigationStaysOnObjects` and `DynamicTypesAreRight` add `HInv`: as long as a client has
only navigated, the memory is as it was and its value is `GoodVal`: in memory, an object
of the debuggee; in a temporary, no record or array, and if a pointer, then one to such an
object or to a function. The second half is what `ObjectsOnly` does not say: members of a
record in a temporary would be made of whatever bytes it has. There is one lemma for each
call (`FieldHonest`, ..., `FollowHonest`). They rest on `InsideClosed`: what is in an
object of `Inside` is in `Inside`. `Inside` goes down once for each declared type, and an
object found only in the last step would lie under as many objects, each of another
type than those around it (`LateParts`), which are more types than there are
(`ChainsAreShort`, by the pigeonhole principle). `TableRead` is `dynamic_type_at_addr`
on memory that satisfies `HasTable`: the type is that of the symbols, the start that of
the object, modulo the address space.

**How induction is done.** The library's induction theorems cannot be instantiated, but a
set of natural numbers has a least element (`Smallest`, from a well-founded ordering
of finite sets), so that a property of all numbers follows from the absence of a least
counterexample. That a recursive function satisfies its own equation is shown by giving
the function explicitly, or by building it up to each depth and then taking the least
depth at which there is none (`PrintedIs`, `PartsIs`, `FindIs`).

**Only model-checked.** `FormatTerminates` and `WalkEnds`, which are liveness: fairness
means ENABLED, which the prover does not handle. Every safety property of the passing
runs is a theorem.

## 5. What the models leave out

* The text of results, and the time they took.
* Bases of a record: expanding one is the same call as expanding a field.
* `accepts` that throws `format_error` counts as not accepting, as in the code; a value
  whose every formatter does so is *opaque*.
* A pointer's only child is its formatted pointee, unless that is a record, whose children
  it then shows; the model gives the pointee's children in both cases.
* In FormatContext the debuggee is stopped during a session: memory is a constant of a
  behaviour. NodeContainers, ArrayContainers and Holders have it run between calls; it
  never runs during one.
* Options other than `show_raw_data` and `rec_as_functor` change only text.
* A `std::any` that contains itself recurses without bound in the code; the memories in
  which termination is checked have no cycle that avoids every record.
* In BitField, `signed` stands for every kind outside the five unsigned ones the code
  lists, and `FieldReadsBack` is about little endian debuggees: in big endian ones the
  temporary is written in the host's order and read in the debuggee's.
* In RefCounted a pointer's pointee is formatted before the pointer's result is allocated;
  in the code its constructor does it, inside `make_unique`. Either way no reference to
  the unfinished object exists.
* Results hold other results in three members only; the closures of other children
  capture values. `[size]` and `[capacity]` proxies hold the result they wrap in
  `orig_res_`, as the `[Raw Data]` proxy does, and are made by the same operations.
* The strings a formatter reads from a nested result while it formats (`val()`) are
  acquired and released within one expression; only the debugger's own reads of a
  position are modelled, whose string may fail to be converted.
* Memory is reused in an arbitrary but fixed order.
* The layouts of the C++ libraries are known from what the formatters read and from the
  tests' models of them; the definitions that build them are marked external.
* Queues and stacks hand on to the container they hold; iterators show the element they
  point to. Neither is modelled.
* Floating-point values. The accessor copies them in the host's format. A duration whose
  count is floating-point shows the integer its bytes spell.
* In ValueLayer bit-fields lie within one byte; BitField has the others. A record's
  `is_dynamic` is always false in the `cm` backend: debuggees whose types are dynamic stand
  for other backends. Names of types in virtual tables are found or not; TypeContext has
  which names are.
* `value_impl_common::field` throws when the field is found, where `value.hpp:299` promises
  its value: the model has the call (`GoToOwn`), which never returns one. Asked for a field
  that a record does not have it goes on with a null type and ends the program
  (`value_impl_common.cpp:656`): the client of the model does not ask.
* The `accessor` built from another one with an offset, whose test refuses offsets greater
  than the base (`accessor.hpp:29`), and `time_point_to_ptime`: nothing uses them.
* In Chrono the host's clock counts nanoseconds, and libc++'s narrower counts of days are
  not told apart.
* In TypeContext volatile is treated like const, and the parser of type names is known
  from its use.
* Results also keep plain references to their context and formatter; both are assumed to
  outlive them.

## 6. Plan

1. An abstract children list (`[size]`, `[capacity]`, `[Raw Data]` in any nesting, and the
   elements) that ArrayContainers and NodeContainers implement.
2. Iterators and container adaptors; floating-point values as opaque bytes.
