----------------------------- MODULE MCHolders -----------------------------
(* Tuples and variants of up to three, types and managers of every kind,   *)
(* and the lengths of the units scaled down: a day is 64, a month 200.     *)
EXTENDS Holders

Term(k, id, scope, args) == [k |-> k, id |-> id, scope |-> scope, args |-> args, const |-> FALSE]
Builtin(id) == Term("builtin", id, <<>>, <<>>)
Const(t)    == [t EXCEPT !.const = TRUE]
Pointer(t)  == Term("pointer", "", <<>>, <<t>>)
Of(k, t)    == Term(k, "", <<>>, <<t>>)

std  == Term("namespace", "std", <<>>, <<>>)
n    == Term("namespace", "n", <<>>, <<>>)
int  == Builtin("int")
bool == Builtin("bool")
void == Builtin("void")
A    == Term("named_record", "A", <<n>>, <<>>)
B    == Term("named_record", "A", <<>>, <<>>)       \* another class of the name
E    == Term("enum", "E", <<n>>, <<>>)
T    == Term("typedef", "T", <<>>, <<>>)
four == Term("value", "4", <<>>, <<>>)
X(t) == Term("instance", "X", <<n>>, <<t>>)
XL   == X(Of("lref", A))
XR   == X(Of("rref", A))
In   == Term("named_record", "In", <<X(A)>>, <<>>)
F    == Term("function", "", <<>>, <<int, Pointer(A)>>)
bind == Term("instance", "_Bind", <<std>>, <<Pointer(F)>>)
mem  == Of("mem_ptr", A)
base == Term("named_record", "_Function_base", <<std>>, <<>>)

\* A: fits exactly; X<A>: copied by a constructor; X<A&>: large
theFunctors == {A, X(A), XL, XR, X(four), bind, Pointer(F), mem, E, bool}
sizes == [t \in theFunctors |-> CASE t = XL -> 24 [] t \in {A, mem, X(A), bind} -> 16 [] OTHER -> 8]
trivial == {A, XL, XR, X(four), Pointer(F), mem, E, bool}

Handler(t)  == Term("instance", "_Function_handler", <<std>>, <<F, t>>)
Manager(t)  == Term("instance", "_Base_manager", <<base>>, <<t>>)
Internal(t) == Term("instance", "_Manager_internal", <<std>>, <<t>>)
External(t) == Term("instance", "_Manager_external", <<std>>, <<t>>)

theManagers ==
    {Handler(t) : t \in theFunctors \ {XR, E, mem}} \cup {Manager(t) : t \in {X(A), bind}}
    \cup {Internal(t) : t \in theFunctors \ {XL, bind, mem}} \cup {External(t) : t \in {XL, A}}

theTerms ==
    {std, n, int, bool, void, Const(void), A, Const(A), B, E, T, four, X(A), XL, XR, X(four),
     In, F, bind, mem, base, Of("lref", A), Of("rref", A), Of("array", int), Pointer(A),
     Pointer(Const(A)), Pointer(void), Pointer(Const(void)), Pointer(F), Pointer(In)}
    \cup theManagers

theFuns ==
    LET f == {[name |-> nm, template |-> t, addr |-> a] :
                nm \in {"f", "g"}, t \in BOOLEAN, a \in {0, 10}}
    IN  {<<>>} \cup {<<x>> : x \in f} \cup {<<x, y>> : x, y \in f}

theGrowing == {A}
items      == <<"first", "second", "third", "fourth">>
lengths    == <<1, 2, 4, 8, 16, 32, 64, 128, 200, 2400>>
counts     == {-2401, -1, 0, 3, 263}
=============================================================================
