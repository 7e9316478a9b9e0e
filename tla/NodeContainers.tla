--------------------------- MODULE NodeContainers ---------------------------
(***************************************************************************)
(* The formatters of node based containers: lists, forward lists, hash     *)
(* tables and search trees of libstdc++ and libc++ (src/src/stl), on the   *)
(* rules of container_formatter (src/src/container_formatter.cpp).         *)
(*                                                                         *)
(* A formatter follows pointers through the memory of a stopped debuggee,  *)
(* one read per step here.  The size it finds is kept in the result; the   *)
(* elements are looked up when a child is expanded, and in between the     *)
(* debuggee may have run: it has changed the container (Rebuild), or       *)
(* damaged it, as a container that is not yet constructed looks (Damage).  *)
(***************************************************************************)
EXTENDS Integers, Sequences, FiniteSets

CONSTANTS
    Nodes,      \* addresses of nodes, numbered in the order of a tree's keys
    Header,     \* address of the container's own node
    Null, Bad,  \* the null pointer; addresses where nothing can be read
    MaxSize,    \* container_formatter::max_container_size
    MaxStack,   \* calls of get_tree_item the stack has room for
    MaxChanges, \* bound: times the debuggee runs
    Kinds,      \* kinds of containers considered
    Beyond      \* what memory beyond the end node of a libc++ tree may hold

Cells == Nodes \cup {Header}
Ptr   == Cells \cup {Null, Bad}

ASSUME NodesAssumption ==
    /\ Nodes \subseteq Nat \ {0}
    /\ IsFiniteSet(Nodes)
    /\ Header \notin Nodes
    /\ {Null, Bad} \cap Cells = {}
    /\ Null # Bad
ASSUME BoundsAssumption ==
    /\ MaxSize \in Nat
    /\ MaxChanges \in Nat
    /\ MaxStack \in Nat /\ MaxStack > MaxSize * Cardinality(Cells)
    /\ Kinds \subseteq {"list", "forward_list", "hash", "stdcpp_tree", "libcxx_tree"}
    /\ Beyond \subseteq Ptr

VARIABLES
    kind,     \* the container's kind
    link,     \* the pointers in memory: <<cell, field>> -> Ptr
    count,    \* the number of elements the container has stored
    contents, \* its elements in order, as the library last left them
    intact,   \* whether nothing has been damaged since
    changes,  \* times the debuggee has run
    kept,     \* size kept by the result on display (size_), or NoResult
    walk,     \* the walk in progress
    answer    \* what the last call has returned, until the debuggee runs

vars == <<kind, link, count, contents, intact, changes, kept, walk, answer>>
memory == <<kind, link, count, contents, intact, changes>>

NoResult == -1

(* The pointers each kind of container has.  Beyond the end node of a      *)
(* libc++ tree lie its size, which is read where a node has its right      *)
(* child, and memory of something else, where a node has its parent.       *)
Fields(k, c) ==
    CASE k \in {"list", "forward_list", "hash"} -> {"next"}
      [] k = "stdcpp_tree" /\ c # Header -> {"left", "right"}
      [] k = "stdcpp_tree" /\ c = Header -> {"left", "right", "parent"}
      [] k = "libcxx_tree" /\ c # Header -> {"left", "right", "parent"}
      [] OTHER -> {"left", "begin", "parent"}

Links(k) == {l \in Cells \X {"next", "left", "right", "parent", "begin"} :
                l[2] \in Fields(k, l[1])}

-----------------------------------------------------------------------------
(* Memory as the libraries leave it *)

(* A chain of the nodes of s, from the header to its end mark *)
Chain(k, s) ==
    [l \in Links(k) |->
        LET at == {i \in DOMAIN s : s[i] = l[1]}
            i  == IF l[1] = Header THEN 0 ELSE CHOOSE j \in at : TRUE
        IN  IF l[1] # Header /\ at = {} THEN Null
            ELSE IF i < Len(s) THEN s[i + 1]
            ELSE IF k = "list" THEN Header ELSE Null]

(* The search tree of the nodes in DOMAIN age, where the oldest node of    *)
(* each subtree is its root.                                               *)
Between(m, n) == {x \in Nodes : (m <= x /\ x <= n) \/ (n <= x /\ x <= m)}
Above(age, m, n) == \A x \in Between(m, n) \cap DOMAIN age : age[m] <= age[x]
Subtree(age, n)  == {x \in DOMAIN age : Above(age, n, x)}
Oldest(age, S)   == IF S = {} THEN Null ELSE CHOOSE x \in S : \A y \in S : age[x] <= age[y]
LeftOf(age, n)   == Oldest(age, {x \in Subtree(age, n) : x < n})
RightOf(age, n)  == Oldest(age, {x \in Subtree(age, n) : x > n})
Level(age, n)    == Cardinality({x \in DOMAIN age : Above(age, x, n)})

(* Red-black trees: no path to a missing child is twice as long as another *)
Balanced(age) ==
    \A m, n \in DOMAIN age :
        Null \in {LeftOf(age, m), RightOf(age, m)} => Level(age, n) <= 2 * Level(age, m)

Tree(k, age, junk) ==
    LET S       == DOMAIN age
        root    == Oldest(age, S)
        Parent(n) == IF n = root THEN Header
                     ELSE CHOOSE x \in S : n \in {LeftOf(age, x), RightOf(age, x)}
        Edge(pick(_)) == IF S = {} THEN Header ELSE CHOOSE n \in S : pick(n)
        First(n) == \A x \in S : n <= x
        Last(n)  == \A x \in S : n >= x
    IN  [l \in Links(k) |->
            CASE l[1] = Header /\ k = "stdcpp_tree" ->
                    (CASE l[2] = "parent" -> root
                       [] l[2] = "left"   -> Edge(First)
                       [] OTHER           -> Edge(Last))
              [] l[1] = Header /\ k = "libcxx_tree" ->
                    (CASE l[2] = "left"  -> root
                       [] l[2] = "begin" -> Edge(First)
                       [] OTHER          -> junk)
              [] l[1] \notin S \cup {Header} -> Null
              [] OTHER -> (CASE l[2] = "left"  -> LeftOf(age, l[1])
                             [] l[2] = "right" -> RightOf(age, l[1])
                             [] OTHER          -> Parent(l[1]))]

Sorted(S) == CHOOSE s \in [1 .. Cardinality(S) -> S] :
                \A i, j \in DOMAIN s : i < j => s[i] < s[j]

Ages(S) == {age \in [S -> 1 .. Cardinality(S)] :
                \A x, y \in S : age[x] = age[y] => x = y}

(* A result keeps nothing of the nodes but how many there are, so chains   *)
(* in the order of their addresses stand for all others.                   *)
IntactMemory(k) ==
    UNION {{[link |-> m, contents |-> Sorted(S)] :
              m \in IF k \in {"list", "forward_list", "hash"} THEN {Chain(k, Sorted(S))}
                    ELSE {Tree(k, age, junk) :
                            age \in {a \in Ages(S) : Balanced(a)},
                            junk \in IF k = "libcxx_tree" THEN Beyond ELSE {Null}}} :
           S \in SUBSET Nodes}

-----------------------------------------------------------------------------
(* Reading *)

Readable(c) == c \in Cells

(* The size of a libc++ tree, taken for a pointer *)
CountAsPointer == IF count = 0 THEN Null ELSE Bad

Read(c, f) == IF <<c, f>> \in DOMAIN link THEN link[<<c, f>>] ELSE CountAsPointer

NoWalk == [op |-> "none"]
Walking == walk.op \notin {"none", "crashed"}

Element(c) == [what |-> "element", cell |-> c, index |-> walk.index]
Size(n)    == [what |-> "size", size |-> n]
Error      == [what |-> "error", op |-> walk.op,
               index |-> IF walk.op = "element" THEN walk.index ELSE 0]
NoAnswer   == [what |-> "none"]

(* format_error: the context or child_at shows it instead of a result *)
Fail ==
    /\ answer' = Error
    /\ kept' = IF walk.op = "element" THEN kept ELSE NoResult
    /\ walk' = NoWalk

(* The element's value object; it is read when it is formatted *)
Show(c) ==
    IF Readable(c)
    THEN answer' = Element(c) /\ walk' = NoWalk /\ UNCHANGED kept
    ELSE Fail

-----------------------------------------------------------------------------
(* container_formatter::format: the size, checked, then format_value,      *)
(* which asks for the size again                                           *)

Counted(k) == k \in {"hash", "stdcpp_tree", "libcxx_tree"}

SizeWalk(op) == [op |-> op, n |-> 0, size |-> IF op = "text" THEN walk.n ELSE 0,
                 node |-> IF Counted(kind) THEN Null ELSE link[<<Header, "next">>]]

Format ==
    /\ walk.op = "none"
    /\ walk' = SizeWalk("size")
    /\ answer' = NoAnswer
    /\ UNCHANGED <<memory, kept>>

(* The end of a list is its root node, the end of a forward list is null *)
AtEndSlip(node) == node = Null

AtEnd(node) == IF kind = "list" THEN node = Header ELSE node = Null

InSize == walk.op \in {"size", "text"}

CheckSizeSlip(sz) == sz > MaxSize + 1

CheckSize(sz) == sz > MaxSize           \* check_size throws

(* The size has been found: walk.n *)
SizeKnown(sz) ==
    IF walk.op = "text"
    THEN /\ kept' = walk.size
         /\ answer' = Size(sz)
         /\ walk' = NoWalk
    ELSE IF CheckSize(sz) THEN Fail
    ELSE /\ walk' = [SizeWalk("text") EXCEPT !.size = sz]
         /\ UNCHANGED <<kept, answer>>

CountedSizeSlip == count + 1

CountedSize == count

(* Trees and hash tables store their size *)
ReadCount ==
    /\ InSize
    /\ Counted(kind)
    /\ SizeKnown(CountedSize)
    /\ UNCHANGED memory

(* Lists are walked.  The counter is kept up to MaxSize + 1: only whether  *)
(* it is greater than MaxSize matters above.                               *)
SizeStep ==
    /\ InSize
    /\ ~Counted(kind)
    /\ IF AtEnd(walk.node) THEN SizeKnown(walk.n)
       ELSE IF ~Readable(walk.node) THEN Fail
       ELSE /\ walk' = [walk EXCEPT !.node = Read(walk.node, "next"),
                                    !.n = IF @ > MaxSize THEN @ ELSE @ + 1]
            /\ UNCHANGED <<kept, answer>>
    /\ UNCHANGED memory

-----------------------------------------------------------------------------
(* Expanding a child: the size proxy's [size] child comes first, then the  *)
(* elements, container_fmt_result::child_at                                *)

FirstNode ==
    CASE kind = "stdcpp_tree" -> link[<<Header, "parent">>]
      [] kind = "libcxx_tree" -> link[<<Header, "begin">>]
      [] OTHER -> link[<<Header, "next">>]

ElementWalk(i) ==
    [op |-> "element", index |-> i, n |-> 0, node |-> FirstNode, mode |-> "next",
     stack |-> IF kind = "stdcpp_tree" THEN <<[node |-> FirstNode, stage |-> "left"]>>
               ELSE <<>>]

(* proxy_fmt_result::child_at with one begin child *)
Expand(idx) ==
    /\ walk.op = "none"
    /\ kept # NoResult
    /\ idx < 1 + kept
    /\ IF idx < 1 THEN answer' = Size(kept) /\ UNCHANGED walk
       ELSE walk' = ElementWalk(idx - 1) /\ answer' = NoAnswer
    /\ UNCHANGED <<memory, kept>>

InElement(k) == walk.op = "element" /\ kind \in k

NotFoundSlip(node) == FALSE             \* the index alone bounds the walk

NotFound(node) == AtEnd(node)           \* the loop of element has ended

(* std_list_formatter::element, std_forward_list_formatter::element *)
ListElementStep ==
    /\ InElement({"list", "forward_list"})
    /\ IF NotFound(walk.node) THEN Fail       \* "can't get std::list item"
       ELSE IF walk.n = walk.index THEN Show(walk.node)
       ELSE IF ~Readable(walk.node) THEN Fail
       ELSE /\ walk' = [walk EXCEPT !.node = Read(walk.node, "next"), !.n = @ + 1]
            /\ UNCHANGED <<kept, answer>>
    /\ UNCHANGED memory

(* stdcpp_hashtable_formatter::element, libcxx_hash_table_formatter::      *)
(* element: the index alone bounds the walk                                *)
HashElementStep ==
    /\ InElement({"hash"})
    /\ IF walk.n = walk.index THEN Show(walk.node)
       ELSE IF ~Readable(walk.node) THEN Fail
       ELSE /\ walk' = [walk EXCEPT !.node = Read(walk.node, "next"), !.n = @ + 1]
            /\ UNCHANGED <<kept, answer>>
    /\ UNCHANGED memory

-----------------------------------------------------------------------------
(* libstdc++ trees: get_tree_item calls itself for the left subtree, then  *)
(* looks at its own node, then calls itself for the right subtree          *)

InTree == InElement({"stdcpp_tree"})
Top == walk.stack[Len(walk.stack)]
WithTop(stage) == [walk.stack EXCEPT ![Len(walk.stack)].stage = stage]

(* A call for the subtree at p, made by the call on top of the stack *)
CallFor(p, next) ==
    IF p = Null THEN walk' = [walk EXCEPT !.stack = WithTop(next)]
    ELSE IF Len(walk.stack) = MaxStack THEN walk' = [op |-> "crashed"]
    ELSE walk' = [walk EXCEPT
                    !.stack = Append(WithTop(next), [node |-> p, stage |-> "left"])]

TreeLeft ==
    /\ InTree
    /\ walk.stack # <<>> /\ Top.stage = "left"
    /\ IF Readable(Top.node)
       THEN CallFor(Read(Top.node, "left"), "self") /\ UNCHANGED <<kept, answer>>
       ELSE Fail
    /\ UNCHANGED memory

AfterSelfSlip(n) == IF n = 0 THEN n ELSE n + 1

AfterSelf(n) == n + 1                   \* ++cindex

TreeSelf ==
    /\ InTree
    /\ walk.stack # <<>> /\ Top.stage = "self"
    /\ IF walk.n = walk.index THEN Show(Top.node)
       ELSE /\ walk' = [walk EXCEPT !.n = AfterSelf(@), !.stack = WithTop("right")]
            /\ UNCHANGED <<kept, answer>>
    /\ UNCHANGED memory

TreeRight ==
    /\ InTree
    /\ walk.stack # <<>> /\ Top.stage = "right"
    /\ CallFor(Read(Top.node, "right"), "return")
    /\ UNCHANGED <<memory, kept, answer>>

TreeReturn ==
    /\ InTree
    /\ walk.stack # <<>> /\ Top.stage = "return"
    /\ walk' = [walk EXCEPT !.stack = SubSeq(@, 1, Len(@) - 1)]
    /\ UNCHANGED <<memory, kept, answer>>

TreeNotFound ==                         \* "can't find tree node with index"
    /\ InTree
    /\ walk.stack = <<>>
    /\ Fail
    /\ UNCHANGED memory

-----------------------------------------------------------------------------
(* libc++ trees: index times tree_next from __begin_node_ *)

InIteration == InElement({"libcxx_tree"})

Arrive(p) == walk' = [walk EXCEPT !.node = p, !.n = @ + 1, !.mode = "next"]

(* tree_next: into the right subtree, or up *)
NextStep ==
    /\ InIteration
    /\ walk.mode = "next"
    /\ IF walk.n = walk.index THEN Show(walk.node)
       ELSE IF ~Readable(walk.node) THEN Fail
       ELSE /\ walk' = IF Read(walk.node, "right") = Null
                       THEN [walk EXCEPT !.mode = "climb"]
                       ELSE [walk EXCEPT !.mode = "min", !.node = Read(walk.node, "right")]
            /\ UNCHANGED <<kept, answer>>
    /\ UNCHANGED memory

MinStep ==                              \* tree_min
    /\ InIteration
    /\ walk.mode = "min"
    /\ IF ~Readable(walk.node) THEN Fail
       ELSE /\ IF Read(walk.node, "left") = Null THEN Arrive(walk.node)
               ELSE walk' = [walk EXCEPT !.node = Read(walk.node, "left")]
            /\ UNCHANGED <<kept, answer>>
    /\ UNCHANGED memory

IsLeftChild(p) == Read(Read(p, "parent"), "left") = p

ClimbStep ==                            \* while (!tree_is_left_child(res))
    /\ InIteration
    /\ walk.mode = "climb"
    /\ LET up == Read(walk.node, "parent") IN
       IF ~Readable(walk.node) \/ ~Readable(up) THEN Fail
       ELSE /\ IF IsLeftChild(walk.node) THEN Arrive(up)
               ELSE walk' = [walk EXCEPT !.node = up]
            /\ UNCHANGED <<kept, answer>>
    /\ UNCHANGED memory

-----------------------------------------------------------------------------
(* The debuggee runs between two calls of its debugger *)

Rebuild ==
    /\ walk.op = "none"
    /\ changes < MaxChanges
    /\ \E m \in IntactMemory(kind) :
        /\ link' = m.link
        /\ contents' = m.contents
        /\ count' = Len(m.contents)
    /\ intact' = TRUE
    /\ changes' = changes + 1
    /\ answer' = NoAnswer
    /\ UNCHANGED <<kind, kept, walk>>

Damage ==
    /\ walk.op = "none"
    /\ changes < MaxChanges
    /\ \/ \E l \in DOMAIN link, p \in Ptr : link' = [link EXCEPT ![l] = p] /\ UNCHANGED count
       \/ \E n \in 0 .. MaxSize + 1 : count' = n /\ UNCHANGED link
    /\ intact' = FALSE
    /\ changes' = changes + 1
    /\ answer' = NoAnswer
    /\ UNCHANGED <<kind, contents, kept, walk>>

Init ==
    /\ kind \in Kinds
    /\ \E m \in IntactMemory(kind) :
        /\ link = m.link
        /\ contents = m.contents
        /\ count = Len(m.contents)
    /\ intact = TRUE
    /\ changes = 0
    /\ kept = NoResult
    /\ walk = NoWalk
    /\ answer = NoAnswer

Step == \/ ReadCount \/ SizeStep \/ ListElementStep \/ HashElementStep
        \/ TreeLeft \/ TreeSelf \/ TreeRight \/ TreeReturn \/ TreeNotFound
        \/ NextStep \/ MinStep \/ ClimbStep

Next == Format \/ (\E idx \in 0 .. MaxSize : Expand(idx)) \/ Step \/ Rebuild \/ Damage

(* A walk is a loop of one thread: it goes on as long as it can *)
Spec == Init /\ [][Next]_vars /\ WF_vars(Step)

-----------------------------------------------------------------------------
(* Properties *)

Walks ==
    {NoWalk, [op |-> "crashed"]}
    \cup [op : {"size", "text"}, n : 0 .. MaxSize + 1, size : 0 .. MaxSize, node : Ptr]
    \cup [op : {"element"}, index : 0 .. MaxSize - 1, n : 0 .. MaxSize - 1, node : Ptr,
          mode : {"next", "min", "climb"},
          stack : Seq([node : Ptr, stage : {"left", "self", "right", "return"}])]

Answers ==
    {NoAnswer} \cup [what : {"element"}, cell : Cells, index : 0 .. MaxSize - 1]
    \cup [what : {"size"}, size : 0 .. MaxSize]
    \cup [what : {"error"}, op : {"size", "text"}, index : {0}]
    \cup [what : {"error"}, op : {"element"}, index : 0 .. MaxSize - 1]

(* The types; in particular no size above max_container_size is ever shown *)
(* or kept, and no walk for an element counts beyond the index asked for.  *)
TypeOK ==
    /\ kind \in Kinds
    /\ link \in [Links(kind) -> Ptr]
    /\ count \in Nat
    /\ contents \in Seq(Nodes)
    /\ intact \in BOOLEAN
    /\ changes \in 0 .. MaxChanges
    /\ kept \in {NoResult} \cup 0 .. MaxSize
    /\ walk \in Walks
    /\ walk.op = "element" => walk.n <= walk.index /\ Len(walk.stack) <= MaxStack
    /\ answer \in Answers

(* Formatting an intact container of at most max_container_size elements   *)
(* shows its size and never an error.                                      *)
SizeAgrees ==
    intact /\ answer.what \in {"size", "error"} /\ Len(contents) <= MaxSize =>
        \/ answer = Size(Len(contents))
        \/ answer.what = "size" /\ changes > 0                \* [size] child of an old result
        \/ answer.what = "error" /\ answer.op = "element"

(* The child at an index below the size of an intact container is the      *)
(* element the library's own iteration finds at that position: no walk     *)
(* skips, repeats or loses one, whatever the shape of the tree.            *)
ElementsAgree ==
    /\ intact /\ answer.what = "element" /\ answer.index < Len(contents) =>
            answer.cell = contents[answer.index + 1]
    /\ intact /\ answer.what = "error" /\ answer.op = "element" =>
            answer.index >= Len(contents)

(* A child of an old result whose index the container no longer has is an  *)
(* error, never memory that is not one of its elements.  The libc++ tree   *)
(* walk is the exception: it has no end, and shows the end node's          *)
(* neighbourhood as an element (index = size).                             *)
StaleChildFails ==
    intact /\ answer.what = "element" /\ kind # "libcxx_tree" =>
        \E i \in DOMAIN contents : answer.cell = contents[i]

(* The cells met by following field f from p on *)
Path(p, f) ==
    LET at[k \in 0 .. Cardinality(Cells) + 1] ==
            IF k = 0 THEN p
            ELSE IF at[k - 1] \in Cells THEN Read(at[k - 1], f) ELSE at[k - 1]
    IN  {at[k] : k \in DOMAIN at}

(* The damage that hangs a walk: a cycle of next links that misses the     *)
(* list's root; any cycle of a forward list; in a libc++ tree a cycle of   *)
(* left links, or one of parent links without a left child.                *)
Trapped ==
    \/ InSize /\ kind = "list" /\ Path(link[<<Header, "next">>], "next") \subseteq Nodes
    \/ InSize /\ kind = "forward_list" /\ Path(link[<<Header, "next">>], "next") \subseteq Cells
    \/ /\ InIteration
       /\ walk.mode = "min"
       /\ Path(walk.node, "left") \subseteq Cells
    \/ /\ InIteration
       /\ walk.mode = "climb"
       /\ Path(walk.node, "parent") \subseteq Cells
       /\ \A c \in Path(walk.node, "parent") : Read(Read(c, "parent"), "left") # c

(* Every walk comes to an end, unless it is in one of those cycles: sizes  *)
(* of lists are not bounded, every other walk is, by its index or by the   *)
(* tree it is in.                                                          *)
WalkEnds == Walking ~> (~Walking \/ Trapped)

(* The recursion of get_tree_item exhausts a stack with room for more than *)
(* MaxSize calls per node only in a tree with a cycle of left links: a     *)
(* cycle of right links ends at the index.                                 *)
OverflowOnlyLeftCycle ==
    walk.op = "crashed" => \E c \in Cells : Path(c, "left") \subseteq Cells
=============================================================================
