---------------------------- MODULE TypeContext ----------------------------
(***************************************************************************)
(* The code model backend (src/src/backend/cm): how the type context finds *)
(* a type by its name, which type objects it makes, and what they answer   *)
(* about records and their members.                                        *)
(*                                                                         *)
(* A type of the code model is a term [k, id, scope, args, const]: args    *)
(* are the pointee, the return type and parameters, the template           *)
(* arguments; scope is empty or has the enclosing namespace or class.      *)
(* Volatile is treated like const and is left out.  The code model, and    *)
(* the library that parses type names, are known from their use only.      *)
(***************************************************************************)
EXTENDS Integers, Sequences, FiniteSets

CONSTANTS
    Terms,       \* types, namespaces and template values of the code model
    FunLists,    \* lists of member functions of classes: name, template?, address
    Growing,     \* bound: the classes whose fields are followed
    MaxFields    \* bound: fields declared in a class

(* The parts of a term are terms, and so is a type without its const.  A   *)
(* code model is finite, and no term is a part of itself.                  *)
ASSUME TermsAssumption ==
    /\ IsFiniteSet(Terms)
    /\ \A t \in Terms : \A f \in {"args", "scope"} : \A i \in DOMAIN t[f] : t[f][i] \in Terms
    /\ \A t \in Terms : [t EXCEPT !.const = FALSE] \in Terms
    /\ Growing \subseteq Terms /\ \A c \in Growing : ~c.const
    /\ FunLists \subseteq Seq([name : STRING, template : BOOLEAN, addr : Nat])
    /\ MaxFields \in Nat

VARIABLES
    fields,      \* the number of fields a class has in the code model
    made,        \* the fields in the type object of a record type, or NotMade
    grown,       \* classes that got a field after a type object of theirs was made
    params,      \* set_template_params_enabled
    answer       \* what the last call has returned

typeVars == <<fields, made, grown, params>>

NotMade == -1

Part(s)  == {s[i] : i \in DOMAIN s}
Plain(t) == [t EXCEPT !.const = FALSE]

(* How deep a term is nested *)
Nesting[t \in Terms] ==
    CHOOSE n \in 0 .. Cardinality(Terms) :
        \A p \in Part(t.args) \cup Part(t.scope) : Nesting[p] < n

IsRecord(t)   == t.k \in {"named_record", "instance"}
IsNothing(t)  == t.k = "nothing"
RecordTypes   == {t \in Terms : IsRecord(t)}
Followed      == {t \in RecordTypes : Plain(t) \in Growing}
Contexts      == {t \in Terms : ~t.const /\ (t.k = "namespace" \/ IsRecord(t))}
Nothing       == [k |-> "nothing", id |-> "", scope |-> <<>>, args |-> <<>>, const |-> FALSE]

(* The kinds of terms: what is declared under a name, what is built from   *)
(* other types                                                             *)
Declared == {"named_record", "namespace", "enum", "typedef", "value"}
Built    == {"function", "pointer", "lref", "rref", "array", "mem_ptr"}

(* Which terms a code model has.  Names are declared in namespaces and     *)
(* classes, once in each, unless a typedef has the name of its own class,  *)
(* which is that class then; no class has the name of a builtin type; what *)
(* is built from types has no name of its own.                             *)
ASSUME CodeModelAssumption ==
    /\ \A t \in Terms : Nesting[t] \in 0 .. Cardinality(Terms)
    /\ \A t \in Terms : \A p \in Part(t.args) \cup Part(t.scope) : Nesting[p] < Nesting[t]
    /\ Terms \subseteq [k : {"builtin", "instance"} \cup Declared \cup Built, id : STRING,
                        scope : Seq(Contexts), args : Seq({t \in Terms : t.k # "namespace"}),
                        const : BOOLEAN]
    /\ \A t \in Terms :
        /\ t.k = "builtin" => t.scope = <<>> /\ t.args = <<>>
        /\ t.k \in Declared => t.args = <<>>
        /\ t.k \in Built => t.id = "" /\ t.scope = <<>>
        /\ t.k = "pointer" => Len(t.args) = 1
        /\ t.id = "void" => t.k = "builtin"
    /\ \A s, t \in {t \in Terms : t.k \in Declared} : s.id = t.id /\ s.scope = t.scope => s.k = t.k

-----------------------------------------------------------------------------
(* Names.  What a type is called, as cxxtn parses it: enums and typedefs   *)
(* are spelled like classes, and so is the value of a template parameter;  *)
(* there is one kind of reference.                                         *)
NameKind(k) ==
    CASE k \in {"named_record", "namespace", "enum", "typedef", "value"} -> "basic"
      [] k = "instance" -> "template"
      [] k \in {"lref", "rref"} -> "reference"
      [] OTHER -> k

Printed[t \in Terms] ==
    [k     |-> NameKind(t.k), id |-> t.id, const |-> t.const,
     scope |-> [i \in DOMAIN t.scope |-> Printed[t.scope[i]]],
     args  |-> [i \in DOMAIN t.args |-> Printed[t.args[i]]]]

Names == {Printed[t] : t \in Terms}

(* find_cm_builtin_type: other kinds fall through to an assertion, and are *)
(* not found where it is compiled out                                      *)
NamedBuiltins ==
    {"void", "char", "short", "int", "long", "long long", "unsigned char",
     "unsigned short", "unsigned int", "unsigned long", "unsigned long long",
     "float", "double", "long double", "wchar_t"}

(* find_cm_decl_ctx: a namespace before a class of the name *)
FindBasic(id, scope) ==
    LET Of(k) == {e \in Contexts : e.k = k /\ e.id = id /\ e.scope = scope}
    IN  IF Of("namespace") # {} THEN CHOOSE e \in Of("namespace") : TRUE
        ELSE IF Of("named_record") # {} THEN CHOOSE e \in Of("named_record") : TRUE
        ELSE Nothing

(* find_instantiation, of a template with as many parameters *)
FindInstance(id, scope, args) ==
    LET is == {e \in Contexts : e.k = "instance" /\ e.id = id /\ e.scope = scope /\ e.args = args}
    IN  IF is = {} THEN Nothing ELSE CHOOSE e \in is : TRUE

Composite(k, args) == [Nothing EXCEPT !.k = k, !.args = args]

(* find_cm_type, once the parts of the name have been found *)
LookupSlip(n, scope, args) ==
    CASE n.k = "builtin" ->
            IF n.id \in NamedBuiltins THEN [Nothing EXCEPT !.k = "builtin", !.id = n.id] ELSE Nothing
      [] n.k = "basic"     -> FindBasic(n.id, <<>>)
      [] n.k = "template"  -> FindInstance(n.id, scope, args)
      [] n.k \in {"function", "pointer"} -> Composite(n.k, args)
      [] n.k = "reference" -> Composite("lref", args)
      [] OTHER -> Nothing

Lookup(n, scope, args) ==
    CASE n.k = "builtin" ->
            IF n.id \in NamedBuiltins THEN [Nothing EXCEPT !.k = "builtin", !.id = n.id] ELSE Nothing
      [] n.k = "basic"     -> FindBasic(n.id, scope)
      [] n.k = "template"  -> FindInstance(n.id, scope, args)
      [] n.k \in {"function", "pointer"} -> Composite(n.k, args)
      [] n.k = "reference" -> Composite("lref", args)
      [] OTHER -> Nothing

(* A namespace can hold the name asked for, but is no type itself *)
AsType(e, const) ==
    IF IsNothing(e) \/ e.k = "namespace" THEN Nothing ELSE [e EXCEPT !.const = const]

Find[n \in Names] ==
    LET scope == [i \in DOMAIN n.scope |-> Find[n.scope[i]]]
        args  == [i \in DOMAIN n.args |-> AsType(Find[n.args[i]], n.args[i].const)]
    IN  IF Nothing \in Part(scope) \cup Part(args) THEN Nothing ELSE Lookup(n, scope, args)

(* type_context_impl::find_type *)
FindType(n) == AsType(Find[n], n.const)

(* type_context_impl::bt_type: null pointers have no type *)
BtType(kind) ==
    CASE kind = "double"    -> "long double"
      [] kind = "nullptr_t" -> "error"
      [] OTHER              -> kind

BuiltinKinds ==
    NamedBuiltins \cup {"bool", "char16_t", "char32_t", "nullptr_t"}

-----------------------------------------------------------------------------
(* Type objects.  One is made per qualified type; that of a record takes   *)
(* the fields declared so far.                                             *)

(* record_type_impl's constructor *)
Constructed(t) == fields[Plain(t)]

(* get_or_create_type and create_type *)
GetOrCreate(m, t) ==
    IF t \in Followed /\ m[t] = NotMade THEN [m EXCEPT ![t] = Constructed(t)] ELSE m

FieldsSize(t) == made[t]

(* check_field_index, before the fields are asked by number *)
FieldKnown(t, i) == i < FieldsSize(t)

(* find_field asks the code model, not the type object *)
FieldFound(t, i) == i < fields[Plain(t)]

(* template_params_size, template_param_is_type and template_param_type; *)
(* the set is empty when the parameter cannot be had                     *)
TemplateParamsSize(t) == IF params /\ t.k = "instance" THEN Len(t.args) ELSE 0

TemplateParamType(t, i) ==
    IF i >= TemplateParamsSize(t) \/ t.args[i + 1].k = "value" THEN {} ELSE {t.args[i + 1]}

(* pointer_type_impl::can_dereference *)
CanDereference(t) ==
    /\ t.args[1] # [Nothing EXCEPT !.k = "builtin", !.id = "void"]
    /\ t.args[1].k # "function"

(* mem_fun_type and mem_fun_addr: the first function of the name, or 0 *)
MemFun(fs, nm) ==
    LET is == {i \in DOMAIN fs : fs[i].name = nm}
    IN  IF is = {} THEN 0 ELSE CHOOSE i \in is : \A j \in is : i <= j

MemFunAddr(fs, nm) == IF MemFun(fs, nm) = 0 THEN 0 ELSE fs[MemFun(fs, nm)].addr

(* mem_funcs leaves templates out *)
MemFuncs(fs) == {f \in Part(fs) : ~f.template}

-----------------------------------------------------------------------------
(* The application asks for a type and its fields, or adds to the model *)

AskName(n) ==
    /\ made' = GetOrCreate(made, FindType(n))
    /\ answer' = [what |-> "type", found |-> ~IsNothing(FindType(n))]
    /\ UNCHANGED <<fields, grown, params>>

AskField(t, i) ==
    /\ made[t] # NotMade
    /\ answer' = [what |-> "field", of |-> t, at |-> i,
                  known |-> FieldKnown(t, i), found |-> FieldFound(t, i)]
    /\ UNCHANGED typeVars

AddField(c) ==
    /\ fields[c] < MaxFields
    /\ fields' = [fields EXCEPT ![c] = @ + 1]
    /\ grown' = IF \E t \in Followed : Plain(t) = c /\ made[t] # NotMade
                THEN grown \cup {c} ELSE grown
    /\ answer' = [what |-> "none"]
    /\ UNCHANGED <<made, params>>

TypeInit ==
    /\ fields = [c \in Growing |-> 0]
    /\ made = [t \in Followed |-> NotMade]
    /\ grown = {}
    /\ params \in BOOLEAN

TypeNext ==
    \/ \E n \in Names : AskName(n)
    \/ \E t \in Followed, i \in 0 .. MaxFields : AskField(t, i)
    \/ \E c \in Growing : AddField(c)
=============================================================================
