----------------------------- MODULE MCValueLayer -----------------------------
(***************************************************************************)
(* Debuggees with bytes of three bits and 64 of them: a record P with      *)
(* members of every kind, a class D with two polymorphic bases, pointers   *)
(* to all of them, the virtual tables of A and D.                          *)
(***************************************************************************)
EXTENDS ValueLayer, TLC

Builtin(k, sz) == [kind |-> k, size |-> sz]

Member(nm, t, o, b) == [name |-> nm, type |-> t, offset |-> o, bits |-> b]

Rec(sz, dyn, bs, fs, fns) ==
    [kind |-> "record", size |-> sz, dynamic |-> dyn, bases |-> bs, fields |-> fs,
     functions |-> fns]

MCTypes ==
    [u1 |-> Builtin("unsigned", 1), i2 |-> Builtin("signed", 2), bool |-> Builtin("bool", 1),
     cu |-> Builtin("complex_unsigned", 2), fn |-> Builtin("function", 0),
     ts |-> [kind |-> "typedef", base |-> <<"u1">>],
     tp |-> [kind |-> "typedef", base |-> <<"ptr", "A">>],
     ar |-> [kind |-> "array", base |-> <<"ts">>, length |-> 2, size |-> 2],
     mp |-> [kind |-> "memptr", object |-> <<"P">>, size |-> 2],
     P |-> Rec(9, FALSE, <<>>,
               <<Member("x", <<"bool">>, 0, 3), Member("n", <<"ptr", "P">>, 3, 6),
                 Member("f", <<"u1">>, 10, 2), Member("w", <<"i2">>, 12, 3),
                 Member("arr", <<"ar">>, 15, 6), Member("c", <<"cu">>, 21, 6)>>,
               [pf |-> 62]),
     A |-> Rec(3, TRUE, <<>>, <<Member("a", <<"ts">>, 6, 3)>>, [af |-> 56]),
     B |-> Rec(3, TRUE, <<>>, <<Member("b", <<"u1">>, 6, 3)>>, [bf |-> 60]),
     D |-> Rec(8, TRUE, <<[type |-> <<"A">>, offset |-> 0], [type |-> <<"B">>, offset |-> 9]>>,
               <<Member("d", <<"i2">>, 18, 6)>>, [df |-> 58])]

Object(n, a) == [type |-> <<n>>, addr |-> a]

(* Words are pairs of bytes; w maps their addresses to them *)
Memory(e, w) ==
    [a \in 1 .. 63 |->
        LET at == {x \in DOMAIN w : a \in {x, x + 1}}
            x  == CHOOSE x \in at : TRUE
            n  == w[x] % 64
        IN  IF at = {} THEN a % 8
            ELSE IF (e = "little") = (a = x) THEN n % 8 ELSE n \div 8]

Functions == {[lo |-> 56, hi |-> 57, record |-> <<"A">>, name |-> "af"],
              [lo |-> 58, hi |-> 59, record |-> <<"D">>, name |-> "df"],
              [lo |-> 60, hi |-> 61, record |-> <<"B">>, name |-> "bf"],
              [lo |-> 62, hi |-> 62, record |-> <<"P">>, name |-> "pf"]}

Symbols == {[of |-> "D", lo |-> 36, hi |-> 47, vtable |-> TRUE],
            [of |-> "A", lo |-> 48, hi |-> 53, vtable |-> TRUE],
            [of |-> "P", lo |-> 1, hi |-> 9, vtable |-> FALSE]}

(* The vptrs of A and B and the first functions of D's tables *)
Words(va, vb, fa, fb) ==
    (2 :> 10) @@ (11 :> 1) @@ (20 :> va) @@ (23 :> vb) @@ (28 :> 20) @@ (30 :> 23)
    @@ (34 :> 5) @@ (36 :> 0) @@ (40 :> fa) @@ (42 :> -3) @@ (46 :> fb)
    @@ (48 :> 0) @@ (52 :> 56)

MCMemories ==
    [whole_l   |-> Memory("little", Words(40, 46, 56, 60)),
     whole_b   |-> Memory("big", Words(40, 46, 58, 63)),
     unnamed_l |-> Memory("little", Words(40, 46, 56, 63)),
     unnamed_b |-> Memory("big", Words(40, 46, 58, 60)),
     base_l    |-> Memory("little", Words(52, 0, 58, 60))]

P1 == Object("P", 1)
P2 == Object("P", 10)

Whole(n) == Object(IF n = "base_l" THEN "A" ELSE "D", 20)
PtrA == [type |-> <<"tp">>, addr |-> 28]
PtrB == [type |-> <<"ptr", "B">>, addr |-> 30]
Arr  == Object("ar", 6)
Mp   == Object("mp", 34)

MCDebuggees ==
    [n \in {"whole_l", "whole_b", "unnamed_l", "unnamed_b", "base_l"} |->
        [end |-> IF n \in {"whole_b", "unnamed_b"} THEN "big" ELSE "little",
         objects |-> {P1, P2, PtrA, PtrB, Arr, Mp, Whole(n)},
         roots |-> {P1, PtrA, Whole(n)} \cup
                   (IF n \in {"whole_l", "whole_b"} THEN {Arr, Mp} ELSE {PtrB}),
         symbols |-> Symbols, functions |-> Functions,
         known |-> CASE n \in {"whole_l", "whole_b"} -> {"A", "B", "D", "P"}
                     [] n \in {"unnamed_l", "unnamed_b"} -> {"A", "B"}
                     [] OTHER -> {"A"},
         registers |-> {[addr |-> 23, as |-> P1], [addr |-> 23, as |-> P2],
                        [addr |-> 10, as |-> P1]}]]

MCCasts == {<<"i2">>, <<"P">>, <<"ptr", "ts">>}
MCNumbers == {-1, 13}
MCSteps == {-1, 1, 2}
=============================================================================
