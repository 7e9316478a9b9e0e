----------------------------- MODULE Ownership -----------------------------
(***************************************************************************)
(* What reference counting promises to the rest of dbgfmt, with no counts  *)
(* in it: objects refer to objects, variables refer to objects, and an     *)
(* object may cease to exist only when nothing that still exists refers to *)
(* it.  It is the view of a program whose memory is collected for it.      *)
(***************************************************************************)
CONSTANTS
    Objects,    \* results, strings: whatever is referred to
    Null,       \* no object
    Roots,      \* the places outside objects that hold a reference
    Members     \* the places inside an object that hold a reference

Holders == Roots \cup (Objects \X Members)

VARIABLES
    exists,     \* the objects there are
    kept,       \* objects that are kept though no place refers to them
    ptr         \* what each place refers to

ownVars == <<exists, kept, ptr>>

Targets == {ptr[h] : h \in Holders} \ {Null}

(* Whatever is referred to exists.  A member of an object that is gone may *)
(* still refer to something, until its destructor has run.                 *)
Sound == kept \cup Targets \subseteq exists

(* Everything a chain of references leads to from outside is in S.         *)
Closed(S) ==
    /\ kept \subseteq S
    /\ \A h \in Roots : ptr[h] \in S \cup {Null}
    /\ \A o \in S, m \in Members : ptr[<<o, m>>] \in S \cup {Null}

Reachable == {o \in exists : \A S \in SUBSET exists : Closed(S) => o \in S}

Init ==
    /\ exists = {}
    /\ kept = {}
    /\ ptr = [h \in Holders |-> Null]

(* A new object belongs to whoever makes it.                               *)
Create(o) ==
    /\ o \notin exists
    /\ exists' = exists \cup {o}
    /\ kept' = kept \cup {o}
    /\ UNCHANGED ptr

(* References are copied, moved and dropped: none comes from nowhere.      *)
(* What nothing refers to any more may go.                                 *)
Use ==
    /\ DOMAIN ptr' = Holders
    /\ kept' \cup Targets' \subseteq kept \cup Targets
    /\ exists' \subseteq exists
    /\ Sound'

Next == Use \/ \E o \in Objects : Create(o)

Spec == Init /\ [][Next]_ownVars
=============================================================================
