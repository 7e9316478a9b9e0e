-------------------------- MODULE MCFormatContext --------------------------
(* Debuggee memories for model-checking FormatContext. *)
EXTENDS FormatContext, TLC

CONSTANTS leaf, ptr, rec, fun, lam, cust

Leaf(subs)    == [class |-> "leaf", lambda |-> FALSE, addr |-> TRUE,
                  callop |-> NoValue, subs |-> subs]
Of(c, subs)   == [Leaf(subs) EXCEPT !.class = c]
Lambda(subs)  == [Of("record", subs) EXCEPT !.lambda = TRUE, !.callop = fun]
Functor(subs) == [Of("record", subs) EXCEPT !.callop = fun]
CallOp        == [Leaf(<<>>) EXCEPT !.addr = FALSE]

(* A record linked to itself, captured by a lambda behind a conversion. *)
Cyclic == leaf :> Leaf(<<>>) @@ ptr :> Of("pointer", <<rec>>)
       @@ rec :> Of("record", <<leaf, ptr, ptr>>) @@ fun :> CallOp
       @@ lam :> Lambda(<<rec>>) @@ cust :> Of("conv", <<lam>>)

(* A field that cannot be read, met at several depths. *)
FaultyField == leaf :> Leaf(<<>>) @@ ptr :> Of("pointer", <<rec>>)
       @@ rec :> Of("record", <<leaf, FormatError, leaf>>) @@ fun :> CallOp
       @@ lam :> Lambda(<<ptr, FormatError>>) @@ cust :> Of("tuple", <<rec, lam>>)

(* A leaf whose formatting throws something other than format_error. *)
Throwing == leaf :> Leaf(<<Exception>>) @@ ptr :> Of("pointer", <<cust>>)
       @@ rec :> Of("record", <<fun, leaf>>) @@ fun :> CallOp
       @@ lam :> Functor(<<fun, ptr>>) @@ cust :> Of("conv", <<rec>>)

(* std::bind of a functor and a tuple, one element of which throws. *)
Bound == leaf :> Leaf(<<Exception>>) @@ ptr :> Of("pointer", <<lam>>)
       @@ rec :> Of("tuple", <<fun, leaf>>) @@ fun :> CallOp
       @@ lam :> Functor(<<cust>>) @@ cust :> Of("bind", <<lam, rec>>)

(* std::bind whose arguments are a lazily expanded sequence. *)
BoundLazy == leaf :> Leaf(<<Exception>>) @@ ptr :> Of("pointer", <<FormatError>>)
       @@ rec :> Of("container", <<leaf, FormatError, lam>>) @@ fun :> Of("opaque", <<>>)
       @@ lam :> Functor(<<ptr, fun>>) @@ cust :> Of("bind", <<lam, rec>>)

(* std::bind whose arguments are shown as a record. *)
BoundRecord == leaf :> Leaf(<<FormatError>>) @@ ptr :> Of("pointer", <<>>)
       @@ rec :> Of("record", <<leaf, FormatError>>) @@ fun :> CallOp
       @@ lam :> [Lambda(<<leaf>>) EXCEPT !.callop = NoValue]
       @@ cust :> Of("bind", <<lam, rec>>)

MCValues == {leaf, ptr, rec, fun, lam, cust}
MCHeaps  == {Cyclic, FaultyField, Throwing, Bound, BoundLazy, BoundRecord}
=============================================================================
