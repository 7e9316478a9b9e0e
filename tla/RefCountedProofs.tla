-------------------------- MODULE RefCountedProofs --------------------------
(***************************************************************************)
(* Proofs about RefCounted, for any memory, any number of the debugger's   *)
(* variables and any depth of nested calls.  No proof of the first part    *)
(* depends on what the calls do with references: whatever sequence of      *)
(* operations they are made of, the counts stay exact, and with exact      *)
(* counts nothing dangles.  The second part is about what the calls do:    *)
(* see there.                                                              *)
(***************************************************************************)
EXTENDS RefCounted, SequenceTheorems, FiniteSetTheorems, WellFoundedInduction, TLAPS

(* An object under construction has no reference yet; an object that was   *)
(* deleted has none any more.                                              *)
FreshUncounted == fresh # Null => fresh \in alive /\ count[fresh] = 0
DeadUncounted  == \A o \in Objects \ alive : count[o] = 0

IInv == TypeOK /\ CountsExact /\ NoDangling /\ FreshUncounted /\ DeadUncounted

-----------------------------------------------------------------------------
(* Calls are sequences of operations *)

Plan(s) == s \in Seq(Op)

(* Calls are put together from parts of calls *)
LEMMA Join == \A a, b : Plan(a) /\ Plan(b) => Plan(a \o b)
BY ConcatProperties DEF Plan

(* A call may do nothing *)
LEMMA Nothing == Plan(<<>>)
BY DEF Plan

(* One operation is a call *)
LEMMA Single ==
  ASSUME NEW x \in Op
  PROVE  Plan(<<x>>)
BY DEF Plan

(* Local variables and members are places that hold references *)
LEMMA Locals ==
  ASSUME NEW L \in Levels
  PROVE  \A v \in Raws \cup Refs : <<L, v>> \in Holders
BY DEF Holders, Roots, RawLocals, RefLocals

(* Every holder is a place an operation may write to.                      *)
LEMMA HoldersArePlaces == Holders \subseteq Places
BY DEF Places

(* The operations on references *)
LEMMA CopyPlan ==
  ASSUME NEW to \in Places, NEW from \in Holders
  PROVE  Plan(Copy(to, from))
<1>1. [op |-> "copy", to |-> to, from |-> from] \in Op
  BY DEF Op, Copies
<1>2. QED
  BY <1>1, Single DEF Copy, Do

(* An operation between two holders other than a copy is a plan.           *)
LEMMA BasicPlan ==
  ASSUME NEW to \in Holders, NEW from \in Holders,
         NEW op \in {"make_unique", "own", "swap", "release", "throw"}
  PROVE  Plan(Do(op, to, from))
<1>1. [op |-> op, to |-> to, from |-> from] \in Op
  BY DEF Op, Basics
<1>2. QED
  BY <1>1, Single DEF Do

(* A part that is decided later is a plan.                                 *)
LEMMA PartPlan ==
  ASSUME NEW L \in Levels, NEW from \in Holders,
         NEW op \in {"format", "wrap", "child", "pos_file", "read", "guard"}
  PROVE  Plan(Do(op, <<L, "fval">>, from))
<1>1. [op |-> op, to |-> <<L, "fval">>, from |-> from] \in Op
  BY DEF Op, Parts
<1>2. QED
  BY <1>1, Single DEF Do

(* Releasing a holder is a plan.                                           *)
LEMMA ReleasePlan ==
  ASSUME NEW h \in Holders
  PROVE  Plan(Release(h))
BY BasicPlan DEF Release

(* Swapping two holders is a plan.                                         *)
LEMMA SwapPlan ==
  ASSUME NEW to \in Holders, NEW from \in Holders
  PROVE  Plan(Swap(to, from))
BY BasicPlan DEF Swap

(* Acquiring a raw pointer into a variable is a plan.                      *)
LEMMA AcquirePlan ==
  ASSUME NEW to \in Holders, NEW raw \in Holders
  PROVE  Plan(Acquire(to, raw))
BY CopyPlan, ReleasePlan, Join, HoldersArePlaces DEF Acquire

(* The steps a call on one level is made of *)
LEMMA LevelPlans ==
  ASSUME NEW L \in Levels
  PROVE  /\ Plan(MakeUnique(L))
         /\ Plan(Throw(L))
         /\ \A op \in {"wrap", "pos_file", "read", "guard"} : Plan(Part(L, op))
         /\ \A v \in Refs : Plan(AcquireFresh(L, v)) /\ Plan(MakeRef(L, v))
         /\ \A out \in Raws : Plan(MakeString(L, out))
<1> DEFINE obj == <<L, "obj">>
           str == <<L, "str">>
           fval == <<L, "fval">>
<1>1. obj \in Holders /\ str \in Holders /\ fval \in Holders
  BY Locals DEF Raws, Refs
<1>2. \A v \in Refs : <<L, v>> \in Holders
  BY Locals
<1>3. \A v \in Raws : <<L, v>> \in Holders
  BY Locals
<1>4. Plan(MakeUnique(L)) /\ Plan(Throw(L)) /\ Plan(Do("own", obj, obj))
  BY <1>1, BasicPlan DEF MakeUnique, Throw
<1>5. \A op \in {"wrap", "pos_file", "read", "guard"} : Plan(Part(L, op))
  BY <1>1, PartPlan DEF Part
<1>6. \A v \in Refs : Plan(Acquire(<<L, v>>, obj))
  BY <1>1, <1>2, AcquirePlan
<1>7. \A v \in Refs : Plan(AcquireFresh(L, v))
  BY <1>4, <1>6, Join DEF AcquireFresh
<1>8. \A v \in Refs : Plan(MakeRef(L, v))
  BY <1>4, <1>7, Join DEF MakeRef
<1>9. \A out \in Raws : Plan(DoReturn(<<L, out>>, str))
  BY <1>1, <1>3, CopyPlan, HoldersArePlaces DEF DoReturn
<1>10. Plan(Release(str))
  BY <1>1, ReleasePlan
<1>11. Plan(MakeRef(L, "str"))
  BY <1>8 DEF Refs
<1>12. \A out \in Raws : Plan(MakeString(L, out))
  BY <1>9, <1>10, <1>11, Join DEF MakeString
<1>13. QED
  BY <1>4, <1>5, <1>7, <1>8, <1>12

(* A nested call and its result *)
LEMMA NestedPlan ==
  ASSUME NEW L \in Levels, L # MaxLevel, NEW op \in {"format", "child"},
         NEW from \in Holders, NEW v \in Refs
  PROVE  Plan(Nested(L, op, from, v))
<1>1. L + 1 \in Levels
  BY RefCountedAssumption DEF Levels
<1>2. <<L + 1, "fval">> \in Holders /\ <<L, v>> \in Holders
  BY <1>1, Locals DEF Refs
<1>3. Plan(Do(op, <<L + 1, "fval">>, from))
  BY <1>1, PartPlan
<1>4. Plan(Swap(<<L, v>>, <<L + 1, "fval">>))
  BY <1>2, SwapPlan
<1>5. QED
  BY <1>3, <1>4, Join DEF Nested

-----------------------------------------------------------------------------
(* The calls *)

(* A member of an object under construction is a place *)
LEMMA FreshPlaces ==
  \A m \in Members : <<Fresh, m>> \in Places
BY DEF Places

(* The members of an object are holders.                                   *)
LEMMA MemberHolders ==
  \A o \in Objects, m \in Members : <<o, m>> \in Holders
BY DEF Holders

(* Every way to make a result is a call *)
LEMMA ResultPlans ==
  ASSUME NEW L \in Levels
  PROVE  \A r \in Results(L) : Plan(r)
<1> DEFINE pointee == <<L, "pointee_fval">>
           ffptr   == <<L, "ffptr">>
           record  == <<L, "record">>
           ch      == <<L, "ch">>
           toPointee == <<Fresh, "pointee_fval">>
           toOrig    == <<Fresh, "orig_res">>
           toTarget  == <<Fresh, "target">>
<1>1. pointee \in Holders /\ ffptr \in Holders /\ record \in Holders /\ ch \in Holders
  BY Locals DEF Refs
<1>2. toPointee \in Places /\ toOrig \in Places /\ toTarget \in Places
  BY FreshPlaces DEF Members
<1>3. /\ Plan(MakeUnique(L)) /\ Plan(MakeRef(L, "res")) /\ Plan(MakeRef(L, "record"))
      /\ Plan(AcquireFresh(L, "res"))
  BY LevelPlans DEF Refs
<1>4. Plan(Copy(toPointee, pointee)) /\ Plan(Copy(toOrig, record)) /\ Plan(Copy(toTarget, ffptr))
  BY <1>1, <1>2, CopyPlan
<1>5. /\ Plan(Release(pointee)) /\ Plan(Release(record)) /\ Plan(Release(ffptr))
      /\ Plan(Release(ch))
  BY <1>1, ReleasePlan
<1>6. ASSUME L # MaxLevel
      PROVE  /\ Plan(FormatNested(L, "pointee_fval")) /\ Plan(FormatNested(L, "ffptr"))
             /\ Plan(FormatNested(L, "res")) /\ Plan(Nested(L, "child", ffptr, "ch"))
  BY <1>1, <1>6, Locals, NestedPlan DEF FormatNested, Refs
<1> HIDE DEF pointee, ffptr, record, ch, toPointee, toOrig, toTarget
<1>7. ASSUME L # MaxLevel
      PROVE  Plan(FormatNested(L, "pointee_fval") \o MakeUnique(L)
                    \o Copy(toPointee, pointee) \o Release(pointee) \o AcquireFresh(L, "res"))
  BY <1>3, <1>4, <1>5, <1>6, <1>7, Join
<1>8. ASSUME L # MaxLevel
      PROVE  Plan(FormatNested(L, "ffptr") \o MakeRef(L, "record") \o MakeUnique(L)
                    \o Copy(toOrig, record) \o Copy(toTarget, ffptr) \o AcquireFresh(L, "res")
                    \o Release(record) \o Release(ffptr))
  BY <1>3, <1>4, <1>5, <1>6, <1>8, Join
<1>9. ASSUME L # MaxLevel
      PROVE  Plan(FormatNested(L, "ffptr") \o Nested(L, "child", ffptr, "ch") \o Release(ch)
                    \o MakeRef(L, "res") \o Release(ffptr))
  BY <1>3, <1>5, <1>6, <1>9, Join
<1>10. QED
  BY <1>3, <1>6, <1>7, <1>8, <1>9
     DEF Results, pointee, ffptr, record, ch, toPointee, toOrig, toTarget

(* What a formatter did before it failed is a call *)
LEMMA FailurePlans ==
  ASSUME NEW L \in Levels
  PROVE  \A f \in Failures(L) : Plan(f)
<1>1. <<L, "ffptr">> \in Holders
  BY Locals DEF Refs
<1>2. ASSUME L # MaxLevel
      PROVE  Plan(FormatNested(L, "ffptr"))
  BY <1>1, <1>2, NestedPlan DEF FormatNested, Refs
<1>3. Plan(Release(<<L, "ffptr">>))
  BY <1>1, ReleasePlan
<1>4. ASSUME L # MaxLevel
      PROVE  Plan(FormatNested(L, "ffptr") \o Release(<<L, "ffptr">>))
  BY <1>2, <1>3, <1>4, Join
<1>5. QED
  BY <1>4, Nothing DEF Failures

(* context::format is a call *)
LEMMA FormatIsPlan ==
  ASSUME NEW L \in Levels
  PROVE  \A p \in FormatPlans(L) : Plan(p)
<1> DEFINE obj == <<L, "obj">>
           res == <<L, "res">>
           fval == <<L, "fval">>
<1>1. obj \in Holders /\ res \in Holders /\ fval \in Holders
  BY Locals DEF Raws, Refs
<1>2. Plan(DoReturn(obj, res)) /\ Plan(Release(res))
  BY <1>1, CopyPlan, ReleasePlan, HoldersArePlaces DEF DoReturn
<1>3. Plan(BrFormat(L))
  BY <1>2, Join DEF BrFormat
<1>4. Plan(Acquire(fval, obj))
  BY <1>1, AcquirePlan
<1>5. Plan(MakeRef(L, "fval")) /\ Plan(Part(L, "wrap")) /\ Plan(Throw(L))
  BY LevelPlans DEF Refs
<1> HIDE DEF obj, res, fval
<1>6. \A r \in Results(L) : Plan(r \o BrFormat(L) \o Acquire(fval, obj) \o Part(L, "wrap"))
  BY <1>3, <1>4, <1>5, ResultPlans, Join
<1>7. \A f \in Failures(L) : Plan(f \o MakeRef(L, "fval") \o Part(L, "wrap"))
  BY <1>5, FailurePlans, Join
<1>8. \A f \in Failures(L) : Plan(f \o Throw(L))
  BY <1>5, FailurePlans, Join
<1>9. QED
  BY <1>6, <1>7, <1>8 DEF FormatPlans, fval, obj

(* The [Raw Data] proxy is a call *)
LEMMA WrapIsPlan ==
  ASSUME NEW L \in Levels
  PROVE  Plan(Wrap(L))
<1> DEFINE toOrig == <<Fresh, "orig_res">>
           fval == <<L, "fval">>
           proxy == <<L, "proxy">>
<1>1. toOrig \in Places /\ fval \in Holders /\ proxy \in Holders
  BY FreshPlaces, Locals DEF Refs, Members
<1>2. Plan(Copy(toOrig, fval)) /\ Plan(Swap(fval, proxy)) /\ Plan(Release(proxy))
  BY <1>1, CopyPlan, SwapPlan, ReleasePlan
<1>3. Plan(MakeUnique(L)) /\ Plan(AcquireFresh(L, "proxy"))
  BY LevelPlans DEF Refs
<1> HIDE DEF toOrig, fval, proxy
<1>4. Plan(MakeUnique(L) \o Copy(toOrig, fval) \o AcquireFresh(L, "proxy")
             \o Swap(fval, proxy) \o Release(proxy))
  BY <1>2, <1>3, Join
<1>5. QED
  BY <1>4 DEF Wrap, toOrig, fval, proxy

(* Where a child may come from *)
LEMMA SourcePlans ==
  ASSUME NEW L \in Levels, NEW o \in Objects
  PROVE  \A s \in Sources(L, o) : Plan(s)
<1>1. <<L, "ch">> \in Holders
  BY Locals DEF Refs
<1>2. \A m \in Members : <<o, m>> \in Holders
  BY MemberHolders
<1>3. \A m \in Members : Plan(Copy(<<L, "ch">>, <<o, m>>))
  BY <1>1, <1>2, CopyPlan, HoldersArePlaces
<1>4. ASSUME L # MaxLevel, NEW m \in Members
      PROVE  Plan(Nested(L, "child", <<o, m>>, "ch"))
  BY <1>2, <1>4, NestedPlan DEF Refs
<1>5. ASSUME L # MaxLevel
      PROVE  Plan(FormatNested(L, "ch")) /\ Plan(Guarded(L))
  <2>1. Plan(FormatNested(L, "ch"))
    BY <1>1, <1>5, NestedPlan DEF FormatNested, Refs
  <2>2. Plan(Part(L, "guard"))
    BY LevelPlans
  <2>3. QED
    BY <2>1, <2>2, Join DEF Guarded
<1>6. /\ Held(o, {"pointee_fval", "target"}) \subseteq Members
      /\ Held(o, {"pointee_fval", "orig_res"}) \subseteq Members
  BY DEF Held, Members
<1>7. Plan(MakeRef(L, "ch"))
  BY LevelPlans DEF Refs
<1>8. QED
  BY <1>3, <1>4, <1>5, <1>6, <1>7 DEF Sources

(* br_get_child_at is a call *)
LEMMA BrGetChildAtPlans ==
  ASSUME NEW L \in Levels, NEW o \in Objects
  PROVE  \A p \in BrGetChildAt(L, o) : Plan(p)
<1> DEFINE ch == <<L, "ch">>
           ref == <<L, "res_ref">>
           out == <<L, "br_res">>
<1>1. ch \in Holders /\ ref \in Holders /\ out \in Holders
  BY Locals DEF Raws, Refs
<1>2. /\ Plan(Copy(ref, ch)) /\ Plan(DoReturn(out, ref))
      /\ Plan(Release(ref)) /\ Plan(Release(ch))
  BY <1>1, CopyPlan, ReleasePlan, HoldersArePlaces DEF DoReturn
<1>3. /\ Plan(MakeString(L, "br_name")) /\ Plan(Part(L, "pos_file"))
      /\ Plan(MakeRef(L, "res_ref"))
  BY LevelPlans DEF Raws, Refs
<1> HIDE DEF ch, ref, out
<1>4. \A s \in Sources(L, o) :
        Plan(s \o MakeString(L, "br_name") \o Part(L, "pos_file") \o Copy(ref, ch)
               \o DoReturn(out, ref) \o Release(ref) \o Release(ch))
  BY <1>2, <1>3, SourcePlans, Join
<1>5. Plan(MakeString(L, "br_name") \o MakeRef(L, "res_ref") \o DoReturn(out, ref) \o Release(ref))
  BY <1>2, <1>3, Join
<1>6. \A s \in Sources(L, o) : Plan(Answered(L, s))
  BY <1>4 DEF Answered, ch, ref, out
<1>7. Plan(Caught(L))
  BY <1>5 DEF Caught, ref, out
<1>8. QED
  BY <1>6, <1>7 DEF BrGetChildAt

(* child_at is a call *)
LEMMA ChildIsPlan ==
  ASSUME NEW L \in Levels, NEW o \in Objects
  PROVE  \A p \in ChildPlans(L, o) : Plan(p)
<1> DEFINE nm == <<L, "nm_ref">>
           file == <<L, "pos_file_ref">>
           ref == <<L, "res_ref">>
           fval == <<L, "fval">>
           brName == <<L, "br_name">>
           brFile == <<L, "br_pos_file">>
           brRes == <<L, "br_res">>
<1>1. /\ nm \in Holders /\ file \in Holders /\ ref \in Holders /\ fval \in Holders
      /\ brName \in Holders /\ brFile \in Holders /\ brRes \in Holders
  BY Locals DEF Raws, Refs
<1>2. Plan(Acquire(nm, brName)) /\ Plan(Acquire(file, brFile)) /\ Plan(Acquire(ref, brRes))
  BY <1>1, AcquirePlan
<1>3. Plan(Copy(fval, ref)) /\ Plan(Release(ref)) /\ Plan(Release(file)) /\ Plan(Release(nm))
  BY <1>1, CopyPlan, ReleasePlan, HoldersArePlaces
<1>4. Plan(Part(L, "read"))
  BY LevelPlans
<1> HIDE DEF nm, file, ref, fval, brName, brFile, brRes
<1>5. \A b \in BrGetChildAt(L, o) :
        Plan(b \o Acquire(nm, brName) \o Acquire(file, brFile) \o Acquire(ref, brRes)
               \o Part(L, "read") \o Copy(fval, ref) \o Release(ref) \o Release(file)
               \o Release(nm))
  BY <1>2, <1>3, <1>4, BrGetChildAtPlans, Join
<1>6. QED
  BY <1>5 DEF ChildPlans, nm, file, ref, fval, brName, brFile, brRes

(* So are reading a position's file, and a result's text *)
LEMMA FilePlans ==
  ASSUME NEW L \in Levels
  PROVE  /\ \A p \in PosFilePlans(L) : Plan(p)
         /\ \A p \in ReadPlans(L) : Plan(p)
<1>1. Plan(MakeString(L, "br_pos_file")) /\ Plan(Throw(L))
  BY LevelPlans DEF Raws
<1>2. QED
  BY <1>1, Nothing DEF PosFilePlans, ReadPlans

(* Reading a result's position is a plan.                                  *)
LEMMA TextIsPlan == Plan(TextPlan)
<1> DEFINE file == <<1, "pos_file_ref">>
           brFile == <<1, "br_pos_file">>
<1>1. 1 \in Levels
  BY RefCountedAssumption DEF Levels
<1>2. file \in Holders /\ brFile \in Holders
  BY <1>1, Locals DEF Raws, Refs
<1>3. Plan(Acquire(file, brFile)) /\ Plan(Release(file))
  BY <1>2, AcquirePlan, ReleasePlan
<1>4. Plan(Part(1, "pos_file")) /\ Plan(Part(1, "read"))
  BY <1>1, LevelPlans
<1> HIDE DEF file, brFile
<1>5. Plan(Part(1, "pos_file") \o Acquire(file, brFile) \o Part(1, "read") \o Release(file))
  BY <1>3, <1>4, Join
<1>6. QED
  BY <1>5 DEF TextPlan, file, brFile

-----------------------------------------------------------------------------
(* Counting references *)

Pointers == [Holders -> Objects \cup {Null}]
Counts   == [Objects -> Nat]

Hits(p, o)     == {h \in Holders : p[h] = o}
Exact(c, p, l) == \A o \in Objects : c[o] = Cardinality(Hits(p, o)) + l[o]

(* One more of o, unless it is the null pointer *)
More(c, o) == IF o = Null THEN c ELSE [c EXCEPT ![o] = @ + 1]
Less(c, o) == IF o = Null THEN c ELSE [c EXCEPT ![o] = @ - 1]
One(b)     == IF b THEN 1 ELSE 0

(* A program has finitely many places that hold references *)
LEMMA HoldersFinite == IsFiniteSet(Holders)
<1>1. IsFiniteSet({0}) /\ IsFiniteSet(Levels)
  <2>1. 1 \in Int /\ MaxLevel \in Int
    BY RefCountedAssumption
  <2>2. IsFiniteSet(1..MaxLevel)
    BY <2>1, FS_Interval
  <2>3. QED
    BY <2>2, FS_Singleton DEF Levels
<1>2. IsFiniteSet(Raws) /\ IsFiniteSet(Refs) /\ IsFiniteSet(Members)
  <2> DEFINE A == {"fval"} \cup {"res"} \cup {"record"} \cup {"ffptr"} \cup {"pointee_fval"} \cup {"proxy"}
             B == {"str"} \cup {"ch"} \cup {"nm_ref"} \cup {"pos_file_ref"} \cup {"res_ref"}
             C == {"obj"} \cup {"br_name"} \cup {"br_pos_file"} \cup {"br_res"}
             D == {"orig_res"} \cup {"pointee_fval"} \cup {"target"}
  <2>1. \A x : IsFiniteSet({x})
    BY FS_Singleton
  <2>2. \A S, T : IsFiniteSet(S) /\ IsFiniteSet(T) => IsFiniteSet(S \cup T)
    BY FS_Union
  <2>3. IsFiniteSet(A) /\ IsFiniteSet(B) /\ IsFiniteSet(C) /\ IsFiniteSet(D)
    BY <2>1, <2>2
  <2>4. Raws = C /\ Refs = A \cup B /\ Members = D
    BY DEF Raws, Refs, Members
  <2>5. QED
    BY <2>2, <2>3, <2>4
<1>3. \A S, T : IsFiniteSet(S) /\ IsFiniteSet(T) => IsFiniteSet(S \X T)
  BY FS_Product
<1>4. \A S, T : IsFiniteSet(S) /\ IsFiniteSet(T) => IsFiniteSet(S \cup T)
  BY FS_Union
<1>5. IsFiniteSet({0} \X Slots) /\ IsFiniteSet(RawLocals) /\ IsFiniteSet(RefLocals)
  BY <1>1, <1>2, <1>3, RefCountedAssumption DEF RawLocals, RefLocals
<1>6. IsFiniteSet(Objects \X Members)
  BY <1>2, <1>3, RefCountedAssumption
<1>7. QED
  BY <1>4, <1>5, <1>6 DEF Holders, Roots

(* Finitely many holders point to an object.                               *)
LEMMA HitsFinite ==
  ASSUME NEW p, NEW o
  PROVE  IsFiniteSet(Hits(p, o)) /\ Cardinality(Hits(p, o)) \in Nat
<1>1. Hits(p, o) \subseteq Holders
  BY DEF Hits
<1>2. QED
  BY <1>1, HoldersFinite, FS_Subset, FS_CardinalityType

(* Changing what one place points to *)
LEMMA Redirect ==
  ASSUME NEW p \in Pointers, NEW h \in Holders, NEW x \in Objects \cup {Null},
         NEW o \in Objects
  PROVE  Cardinality(Hits([p EXCEPT ![h] = x], o)) + One(p[h] = o)
           = Cardinality(Hits(p, o)) + One(x = o)
<1> DEFINE q == [p EXCEPT ![h] = x]
           P == Hits(p, o)
           Q == Hits(q, o)
<1>1. q \in Pointers /\ q[h] = x /\ \A g \in Holders \ {h} : q[g] = p[g]
  BY DEF Pointers
<1>2. IsFiniteSet(P) /\ Cardinality(P) \in Nat /\ IsFiniteSet(Q) /\ Cardinality(Q) \in Nat
  BY HitsFinite
<1>3. (h \in P <=> p[h] = o) /\ (h \in Q <=> x = o) /\ P \ {h} = Q \ {h}
  BY <1>1 DEF Hits
<1> HIDE DEF q, P, Q
<1>4. Cardinality(P \ {h}) = IF h \in P THEN Cardinality(P) - 1 ELSE Cardinality(P)
  BY <1>2, FS_RemoveElement
<1>5. Cardinality(Q \ {h}) = IF h \in Q THEN Cardinality(Q) - 1 ELSE Cardinality(Q)
  BY <1>2, FS_RemoveElement
<1>6. Cardinality(Q) + One(p[h] = o) = Cardinality(P) + One(x = o)
  BY <1>2, <1>3, <1>4, <1>5 DEF One
<1>7. QED
  BY <1>6 DEF q, P, Q

(* A count goes up and down by one and stays a natural number when it was positive. *)
LEMMA CountSteps ==
  ASSUME NEW c \in Counts, NEW x \in Objects \cup {Null}
  PROVE  /\ More(c, x) \in Counts
         /\ \A o \in Objects : More(c, x)[o] = c[o] + One(x = o)
         /\ \A o \in Objects : Less(c, x)[o] = c[o] - One(x = o)
         /\ (x = Null \/ c[x] > 0) => Less(c, x) \in Counts
BY RefCountedAssumption DEF Counts, More, Less, One

(* Writing a reference into a place: what the place pointed to is lost *)
LEMMA WriteKeepsExact ==
  ASSUME NEW c \in Counts, NEW l \in Counts, NEW p \in Pointers, Exact(c, p, l),
         NEW h \in Holders, NEW x \in Objects \cup {Null}
  PROVE  Exact(More(c, x), [p EXCEPT ![h] = x], More(l, p[h]))
<1> SUFFICES ASSUME NEW o \in Objects
             PROVE  More(c, x)[o] = Cardinality(Hits([p EXCEPT ![h] = x], o)) + More(l, p[h])[o]
  BY DEF Exact
<1>1. p[h] \in Objects \cup {Null}
  BY DEF Pointers
<1>2. More(c, x)[o] = c[o] + One(x = o) /\ More(l, p[h])[o] = l[o] + One(p[h] = o)
  <2>1. More(c, x)[o] = c[o] + One(x = o)
    BY CountSteps
  <2>2. ASSUME NEW y \in Objects \cup {Null}
        PROVE  More(l, y)[o] = l[o] + One(y = o)
    BY CountSteps
  <2>3. QED
    BY <1>1, <2>1, <2>2
<1>3. Cardinality(Hits([p EXCEPT ![h] = x], o)) + One(p[h] = o)
        = Cardinality(Hits(p, o)) + One(x = o)
  BY Redirect
<1>4. c[o] = Cardinality(Hits(p, o)) + l[o]
  BY DEF Exact
<1>5. /\ Cardinality(Hits(p, o)) \in Nat
      /\ Cardinality(Hits([p EXCEPT ![h] = x], o)) \in Nat
      /\ l[o] \in Nat /\ c[o] \in Nat
  BY HitsFinite DEF Counts
<1>6. One(x = o) \in Nat /\ One(p[h] = o) \in Nat
  BY DEF One
<1>7. QED
  BY <1>2, <1>3, <1>4, <1>5, <1>6

(* Releasing the reference in a place *)
LEMMA ReleaseKeepsExact ==
  ASSUME NEW c \in Counts, NEW l \in Counts, NEW p \in Pointers, Exact(c, p, l),
         NEW h \in Holders
  PROVE  /\ Exact(Less(c, p[h]), [p EXCEPT ![h] = Null], l)
         /\ p[h] # Null => c[p[h]] > 0
         /\ Less(c, p[h]) \in Counts
<1>1. p[h] \in Objects \cup {Null}
  BY DEF Pointers
<1>2. ASSUME NEW o \in Objects
      PROVE  /\ Less(c, p[h])[o] = Cardinality(Hits([p EXCEPT ![h] = Null], o)) + l[o]
             /\ p[h] = o => c[o] > 0
  <2>1. Less(c, p[h])[o] = c[o] - One(p[h] = o)
    BY <1>1, CountSteps
  <2>2. Cardinality(Hits([p EXCEPT ![h] = Null], o)) + One(p[h] = o)
          = Cardinality(Hits(p, o)) + One(Null = o)
    BY Redirect
  <2>3. One(Null = o) = 0
    BY RefCountedAssumption DEF One
  <2>4. c[o] = Cardinality(Hits(p, o)) + l[o]
    BY DEF Exact
  <2>5. /\ Cardinality(Hits(p, o)) \in Nat
        /\ Cardinality(Hits([p EXCEPT ![h] = Null], o)) \in Nat
        /\ l[o] \in Nat /\ c[o] \in Nat
    BY HitsFinite DEF Counts
  <2>6. One(p[h] = o) \in Nat /\ (p[h] = o => One(p[h] = o) = 1)
    BY DEF One
  <2>7. QED
    BY <2>1, <2>2, <2>3, <2>4, <2>5, <2>6
<1>3. p[h] # Null => c[p[h]] > 0
  BY <1>1, <1>2
<1>4. Less(c, p[h]) \in Counts
  BY <1>1, <1>3, CountSteps
<1>5. QED
  BY <1>2, <1>3, <1>4 DEF Exact

(* Exchanging what two places point to *)
LEMMA SwapKeepsExact ==
  ASSUME NEW c \in Counts, NEW l \in Counts, NEW p \in Pointers, Exact(c, p, l),
         NEW g \in Holders, NEW h \in Holders
  PROVE  Exact(c, [p EXCEPT ![g] = p[h], ![h] = p[g]], l)
<1> DEFINE q == [p EXCEPT ![g] = p[h]]
           r == [q EXCEPT ![h] = p[g]]
<1>1. p[g] \in Objects \cup {Null} /\ p[h] \in Objects \cup {Null}
  BY DEF Pointers
<1>2. q \in Pointers /\ q[h] = p[h]
  BY <1>1 DEF Pointers
<1>3. r = [p EXCEPT ![g] = p[h], ![h] = p[g]]
  OBVIOUS
<1>4. ASSUME NEW o \in Objects
      PROVE  Cardinality(Hits(r, o)) = Cardinality(Hits(p, o))
  <2>1. Cardinality(Hits(q, o)) + One(p[g] = o) = Cardinality(Hits(p, o)) + One(p[h] = o)
    BY <1>1, Redirect
  <2>2. ASSUME NEW f \in Pointers
        PROVE  Cardinality(Hits([f EXCEPT ![h] = p[g]], o)) + One(f[h] = o)
                 = Cardinality(Hits(f, o)) + One(p[g] = o)
    BY <1>1, Redirect
  <2>3. /\ Cardinality(Hits(p, o)) \in Nat /\ Cardinality(Hits(q, o)) \in Nat
        /\ Cardinality(Hits(r, o)) \in Nat
    BY HitsFinite
  <2>4. One(p[g] = o) \in Nat /\ One(p[h] = o) \in Nat /\ One(q[h] = o) = One(p[h] = o)
    BY <1>2 DEF One
  <2>5. Cardinality(Hits(r, o)) + One(q[h] = o) = Cardinality(Hits(q, o)) + One(p[g] = o)
    BY <1>2, <2>2, Zenon
  <2> HIDE DEF q, r
  <2>6. QED
    BY <2>1, <2>3, <2>4, <2>5
<1> HIDE DEF q, r
<1>5. QED
  BY <1>3, <1>4 DEF Exact

(* Nothing points to an object whose count is zero, and it was not lost *)
LEMMA ZeroMeansUnreferenced ==
  ASSUME NEW c \in Counts, NEW l \in Counts, NEW p \in Pointers, Exact(c, p, l),
         NEW o \in Objects, c[o] = 0
  PROVE  l[o] = 0 /\ \A h \in Holders : p[h] # o
<1>1. c[o] = Cardinality(Hits(p, o)) + l[o] /\ l[o] \in Nat
  BY DEF Exact, Counts
<1>2. IsFiniteSet(Hits(p, o)) /\ Cardinality(Hits(p, o)) \in Nat
  BY HitsFinite
<1>3. Cardinality(Hits(p, o)) = 0 /\ l[o] = 0
  BY <1>1, <1>2
<1>4. Hits(p, o) = {}
  BY <1>2, <1>3, FS_EmptySet
<1>5. QED
  BY <1>3, <1>4 DEF Hits

-----------------------------------------------------------------------------
(* Steps *)

(* The part of the invariant that does not speak of calls *)
Sane ==
    /\ alive \subseteq Objects
    /\ count \in Counts /\ lost \in Counts /\ ptr \in Pointers
    /\ fresh \in Objects \cup {Null}
    /\ Exact(count, ptr, lost)
    /\ NoDangling /\ FreshUncounted /\ DeadUncounted

(* The invariant is its part about references, the plan, and the exception flag. *)
LEMMA InvariantParts == IInv <=> Sane /\ Plan(todo) /\ unwinding \in BOOLEAN
BY DEF IInv, TypeOK, Sane, CountsExact, Exact, Hits, Counts, Pointers, Plan

(* The same of the invariant after a step.                                 *)
LEMMA InvariantPartsNext == IInv' <=> (Sane /\ Plan(todo) /\ unwinding \in BOOLEAN)'
BY DEF IInv, TypeOK, Sane, CountsExact, Exact, Hits, Counts, Pointers, Plan

(* What operations act on *)
LEMMA OpPlaces ==
  ASSUME NEW x \in Op
  PROVE  /\ x.from \in Holders /\ x.to \in Places
         /\ x.op # "copy" => x.to \in Holders
         /\ x.op \in {"format", "wrap", "child", "pos_file", "read", "guard"} => x.to[1] \in Levels
<1>1. CASE x \in Copies
  BY <1>1 DEF Copies
<1>2. CASE x \in Basics
  BY <1>2, HoldersArePlaces DEF Basics
<1>3. CASE x \in Parts
  <2>1. x.to \in Levels \X {"fval"} /\ x.from \in Holders
    BY <1>3 DEF Parts
  <2>2. PICK L \in Levels : x.to = <<L, "fval">>
    BY <2>1
  <2>3. x.to \in Holders
    BY <2>2, Locals DEF Refs
  <2>4. x.to[1] = L
    BY <2>2
  <2>5. QED
    BY <2>1, <2>3, <2>4, HoldersArePlaces
<1>4. QED
  BY <1>1, <1>2, <1>3 DEF Op

(* The operation about to be executed is one, and what follows it is a plan. *)
LEMMA NextOp ==
  ASSUME Plan(todo), NEW op, Running(op)
  PROVE  Head(todo) \in Op /\ Plan(Tail(todo)) /\ Head(todo).op = op
BY HeadTailProperties DEF Plan, Running

(* Destroying an object's members is a plan.                               *)
LEMMA DestructorPlan ==
  ASSUME NEW o \in Objects
  PROVE  Plan(Destructor(o))
<1>1. \A m \in Members : Plan(Release(<<o, m>>))
  BY MemberHolders, ReleasePlan
<1>2. Plan(Release(<<o, "orig_res">>)) /\ Plan(Release(<<o, "pointee_fval">>))
      /\ Plan(Release(<<o, "target">>))
  BY <1>1 DEF Members
<1>3. QED
  BY <1>2, Join DEF Destructor

(* Objects that are not counted are not referred to *)
LEMMA Uncounted ==
  ASSUME Sane, NEW o \in Objects, count[o] = 0
  PROVE  lost[o] = 0 /\ \A h \in Holders : ptr[h] # o
BY ZeroMeansUnreferenced DEF Sane

(* A reference is written into a place: to an object that is counted, or   *)
(* the first one to the object under construction                          *)
LEMMA WriteStep ==
  ASSUME Sane, NEW h \in Holders, NEW x \in alive \cup {Null},
         ptr' = [ptr EXCEPT ![h] = x], lost' = Lose(h), count' = AddRef(x),
         alive' = alive,
         fresh' = Null \/ (fresh' = fresh /\ x # fresh)
                       \/ (fresh' = fresh /\ fresh = Null)
  PROVE  Sane'
<1>1. x \in Objects \cup {Null} /\ ptr[h] \in Objects \cup {Null}
  BY DEF Sane, Pointers
<1>2. lost' = More(lost, ptr[h]) /\ count' = More(count, x)
  BY DEF Lose, AddRef, More
<1>3. Exact(count', ptr', lost')
  BY <1>1, <1>2, WriteKeepsExact DEF Sane
<1>4. count' \in Counts /\ lost' \in Counts
  BY <1>1, <1>2, CountSteps DEF Sane
<1>5. ptr' \in Pointers
  BY <1>1 DEF Sane, Pointers
<1>6. fresh' \in Objects \cup {Null}
  BY DEF Sane
<1>7. NoDangling'
  BY DEF Sane, NoDangling, Pointers
<1>8. \A o \in Objects : o # x => count'[o] = count[o]
  BY <1>1, <1>2 DEF More, Sane, Counts
<1>9. DeadUncounted'
  BY <1>1, <1>8, RefCountedAssumption DEF Sane, DeadUncounted
<1>10. FreshUncounted'
  BY <1>1, <1>8, RefCountedAssumption DEF Sane, FreshUncounted
<1>11. QED
  BY <1>3, <1>4, <1>5, <1>6, <1>7, <1>9, <1>10 DEF Sane

(* A reference is released, and with the last one the object goes *)
LEMMA ReleaseStep ==
  ASSUME Sane, NEW h \in Holders, NEW rest, Plan(rest), ReleaseAt(h, rest)
  PROVE  Sane' /\ Plan(todo')
<1> DEFINE o == ptr[h]
           dies == o # Null /\ count'[o] = 0
<1>1. o \in Objects \cup {Null} /\ ptr' = [ptr EXCEPT ![h] = Null]
      /\ lost' = lost /\ fresh' = fresh
  BY DEF Sane, Pointers, ReleaseAt
<1>2. count' = Less(count, o)
  BY DEF ReleaseAt, Less
<1>3. Exact(count', ptr', lost') /\ count' \in Counts /\ (o # Null => count[o] > 0)
  BY <1>1, <1>2, ReleaseKeepsExact DEF Sane
<1>4. alive' = IF dies THEN alive \ {o} ELSE alive
  BY DEF ReleaseAt
<1>5. Plan(todo')
  <2>1. CASE dies
    BY <1>1, <2>1, DestructorPlan, Join DEF ReleaseAt
  <2>2. CASE ~dies
    BY <2>2 DEF ReleaseAt
  <2>3. QED
    BY <2>1, <2>2
<1>6. ptr' \in Pointers
  BY <1>1 DEF Sane, Pointers
<1>7. dies => \A g \in Holders : ptr'[g] # o
  <2>1. lost' \in Counts
    BY <1>1 DEF Sane
  <2>2. \A a \in Objects : count'[a] = 0 => \A g \in Holders : ptr'[g] # a
    BY <1>3, <1>6, <2>1, ZeroMeansUnreferenced
  <2>3. QED
    BY <1>1, <2>2
<1>8. \A a \in Objects : a # o => count'[a] = count[a]
  BY <1>1, <1>2 DEF Less, Sane, Counts
<1> HIDE DEF o, dies
<1>9. NoDangling'
  BY <1>1, <1>4, <1>6, <1>7 DEF Sane, NoDangling, Pointers
<1>10. DeadUncounted'
  <2> SUFFICES ASSUME NEW a \in Objects, a \notin alive'
               PROVE  count'[a] = 0
    BY DEF DeadUncounted
  <2>1. CASE a \in alive
    BY <1>4, <2>1 DEF dies
  <2>2. CASE a \notin alive
    <3>1. count[a] = 0
      BY <2>2 DEF Sane, DeadUncounted
    <3>2. a # o
      BY <1>1, <1>3, <3>1, RefCountedAssumption
    <3>3. QED
      BY <1>8, <3>1, <3>2
  <2>3. QED
    BY <2>1, <2>2
<1>11. FreshUncounted'
  BY <1>1, <1>3, <1>4, <1>8, RefCountedAssumption DEF Sane, FreshUncounted, dies
<1>12. alive' \subseteq Objects /\ fresh' \in Objects \cup {Null} /\ lost' \in Counts
  BY <1>1, <1>4 DEF Sane
<1>13. QED
  BY <1>3, <1>5, <1>6, <1>9, <1>10, <1>11, <1>12 DEF Sane

(* No reference changes *)
LEMMA QuietStep ==
  ASSUME Sane, UNCHANGED <<alive, count, ptr, fresh, lost>>
  PROVE  Sane'
BY DEF Sane, NoDangling, FreshUncounted, DeadUncounted, Exact, Hits

-----------------------------------------------------------------------------
(* The actions *)

(* Initially there is nothing *)
LEMMA InitSane == Init => Sane
<1> SUFFICES ASSUME Init PROVE Sane
  OBVIOUS
<1>1. count \in Counts /\ lost \in Counts /\ ptr \in Pointers
  BY DEF Init, Counts, Pointers
<1>2. ASSUME NEW o \in Objects
      PROVE  count[o] = Cardinality(Hits(ptr, o)) + lost[o]
  <2>1. Hits(ptr, o) = {}
    BY RefCountedAssumption DEF Init, Hits
  <2>2. Cardinality(Hits(ptr, o)) = 0
    BY <2>1, FS_EmptySet
  <2>3. QED
    BY <2>2 DEF Init
<1>3. NoDangling /\ FreshUncounted /\ DeadUncounted
  BY DEF Init, NoDangling, FreshUncounted, DeadUncounted
<1>4. QED
  BY <1>1, <1>2, <1>3 DEF Init, Sane, Exact

(* Memory for a new object: nothing refers to it *)
LEMMA AllocateStep ==
  ASSUME Sane, Allocate
  PROVE  Sane' /\ \E o \in Objects \ alive : fresh' = o /\ alive' = alive \cup {o}
<1>1. PICK o \in Objects \ alive : fresh' = o /\ alive' = alive \cup {o}
  BY DEF Allocate, Free
<1>2. count[o] = 0
  BY DEF Sane, DeadUncounted
<1>3. count' = count /\ ptr' = ptr /\ lost' = lost
  BY DEF Allocate
<1>4. NoDangling' /\ FreshUncounted' /\ DeadUncounted'
  BY <1>1, <1>2, <1>3 DEF Sane, NoDangling, FreshUncounted, DeadUncounted
<1>5. QED
  BY <1>1, <1>3, <1>4 DEF Sane, Exact, Hits

(* Giving an object its first reference keeps the invariant.               *)
LEMMA OwnObjectStep ==
  ASSUME Sane, Plan(todo), OwnObject
  PROVE  Sane'
<1>1. Head(todo).to \in Holders
  BY NextOp, OpPlaces DEF OwnObject
<1>2. fresh \in alive
  BY DEF Sane, FreshUncounted, OwnObject
<1>3. QED
  BY <1>1, <1>2, WriteStep DEF OwnObject

(* Copying a reference keeps the invariant.                                *)
LEMMA CopyRefStep ==
  ASSUME Sane, Plan(todo), CopyRef
  PROVE  Sane'
<1> DEFINE to == At(Head(todo).to)
           o == ptr[Head(todo).from]
<1>1. Head(todo).from \in Holders
  BY NextOp, OpPlaces DEF CopyRef
<1>2. o \in alive \cup {Null}
  BY <1>1 DEF Sane, NoDangling
<1>3. fresh = Null \/ o # fresh
  BY <1>1, Uncounted DEF Sane, FreshUncounted
<1>4. /\ to \in Holders /\ ptr' = [ptr EXCEPT ![to] = o] /\ lost' = Lose(to)
      /\ count' = AddRef(o) /\ alive' = alive /\ fresh' = fresh
  BY DEF CopyRef
<1> HIDE DEF to, o
<1>5. QED
  BY <1>2, <1>3, <1>4, WriteStep

(* Swapping two references keeps the invariant.                            *)
LEMMA SwapRefsStep ==
  ASSUME Sane, Plan(todo), SwapRefs
  PROVE  Sane'
<1> DEFINE to == Head(todo).to
           from == Head(todo).from
<1>1. to \in Holders /\ from \in Holders
  BY NextOp, OpPlaces DEF SwapRefs
<1>2. /\ ptr' = [ptr EXCEPT ![to] = ptr[from], ![from] = ptr[to]]
      /\ count' = count /\ lost' = lost /\ alive' = alive /\ fresh' = fresh
  BY DEF SwapRefs
<1> HIDE DEF to, from
<1>3. Exact(count', ptr', lost')
  BY <1>1, <1>2, SwapKeepsExact DEF Sane
<1>4. ptr' \in Pointers
  BY <1>1, <1>2 DEF Sane, Pointers
<1>5. NoDangling'
  BY <1>1, <1>2 DEF Sane, NoDangling, Pointers
<1>6. QED
  BY <1>2, <1>3, <1>4, <1>5 DEF Sane, FreshUncounted, DeadUncounted

(* The parts of a call *)
LEMMA ProceedStep ==
  ASSUME Sane, Plan(todo), Proceed
  PROVE  Plan(todo') /\ UNCHANGED <<alive, count, ptr, fresh, lost, unwinding>>
<1> DEFINE L == Head(todo).to[1]
           o == ptr[Head(todo).from]
           Calls == {"format", "wrap", "child", "pos_file", "read", "guard"}
<1>1. ASSUME NEW op \in Calls, NEW plans, Expand(op, plans), \A p \in plans : Plan(p)
      PROVE  Plan(todo') /\ UNCHANGED <<alive, count, ptr, fresh, lost, unwinding>>
  <2>1. Plan(Tail(todo))
    BY <1>1, NextOp DEF Expand
  <2>2. PICK p \in plans : todo' = p \o Tail(todo)
    BY <1>1 DEF Expand
  <2>3. QED
    BY <1>1, <2>1, <2>2, Join DEF Expand
<1>2. ASSUME NEW op \in Calls, Running(op)
      PROVE  L \in Levels /\ Head(todo).from \in Holders
  BY <1>2, NextOp, OpPlaces
<1> HIDE DEF L
<1>3. CASE Expand("format", FormatPlans(L))
  BY <1>1, <1>2, <1>3, FormatIsPlan DEF Expand
<1>4. CASE Expand("wrap", {<<>>, Wrap(L)})
  <2>1. L \in Levels
    BY <1>2, <1>4 DEF Expand
  <2>2. \A p \in {<<>>, Wrap(L)} : Plan(p)
    BY <2>1, WrapIsPlan, Nothing
  <2>3. QED
    BY <1>1, <1>4, <2>2
<1>5. CASE Running("child") /\ o # Null /\ Expand("child", ChildPlans(L, o))
  <2>1. o \in Objects
    BY <1>2, <1>5 DEF Sane, Pointers
  <2> HIDE DEF o
  <2>2. QED
    BY <1>1, <1>2, <1>5, <2>1, ChildIsPlan DEF Expand
<1>6. CASE Expand("pos_file", PosFilePlans(L))
  BY <1>1, <1>2, <1>6, FilePlans DEF Expand
<1>7. CASE Expand("read", ReadPlans(L))
  BY <1>1, <1>2, <1>7, FilePlans DEF Expand
<1>8. CASE Expand("guard", {<<>>})
  <2>1. \A p \in {<<>>} : Plan(p)
    BY Nothing
  <2>2. QED
    BY <1>1, <1>8, <2>1
<1>9. QED
  BY <1>3, <1>4, <1>5, <1>6, <1>7, <1>8 DEF Proceed, L

(* The debugger's calls *)
LEMMA ClientStep ==
  ASSUME Sane, Plan(todo), Client
  PROVE  Plan(todo') /\ UNCHANGED <<alive, count, ptr, fresh, lost, unwinding>>
<1> DEFINE fval == <<1, "fval">>
<1>1. 1 \in Levels
  BY RefCountedAssumption DEF Levels
<1>2. fval \in Holders
  BY <1>1, Locals DEF Refs
<1>3. \A s \in Slots : <<0, s>> \in Holders
  BY DEF Holders, Roots
<1>4. ASSUME NEW s \in Slots PROVE Plan(Assign(s))
  <2>1. Plan(Swap(<<0, s>>, fval)) /\ Plan(Release(fval))
    BY <1>2, <1>3, SwapPlan, ReleasePlan
  <2> HIDE DEF fval
  <2>2. QED
    BY <2>1, Join DEF Assign, fval
<1>5. ASSUME NEW plan, Plan(plan), Call(plan)
      PROVE  Plan(todo') /\ UNCHANGED <<alive, count, ptr, fresh, lost, unwinding>>
  BY <1>5 DEF Call
<1>6. ASSUME NEW s \in Slots, ClientFormat(s)
      PROVE  Plan(todo') /\ UNCHANGED <<alive, count, ptr, fresh, lost, unwinding>>
  <2>1. Plan(Do("format", fval, fval))
    BY <1>1, <1>2, PartPlan
  <2> HIDE DEF fval
  <2>2. Plan(Do("format", fval, fval) \o Assign(s))
    BY <1>4, <2>1, Join
  <2>3. QED
    BY <1>5, <1>6, <2>2 DEF ClientFormat, fval
<1>7. ASSUME NEW s \in Slots, NEW c \in Slots, ClientCopy(s, c)
      PROVE  Plan(todo') /\ UNCHANGED <<alive, count, ptr, fresh, lost, unwinding>>
  <2>1. Plan(Copy(fval, <<0, c>>))
    BY <1>2, <1>3, CopyPlan, HoldersArePlaces
  <2> HIDE DEF fval
  <2>2. Plan(Copy(fval, <<0, c>>) \o Assign(s))
    BY <1>4, <2>1, Join
  <2>3. QED
    BY <1>5, <1>7, <2>2 DEF ClientCopy, fval
<1>8. ASSUME NEW s \in Slots, NEW c \in Slots, ClientChild(s, c)
      PROVE  Plan(todo') /\ UNCHANGED <<alive, count, ptr, fresh, lost, unwinding>>
  <2>1. Plan(Do("child", fval, <<0, c>>))
    BY <1>1, <1>3, PartPlan
  <2> HIDE DEF fval
  <2>2. Plan(Do("child", fval, <<0, c>>) \o Assign(s))
    BY <1>4, <2>1, Join
  <2>3. QED
    BY <1>5, <1>8, <2>2 DEF ClientChild, fval
<1>9. ASSUME NEW s \in Slots, ClientReset(s)
      PROVE  Plan(todo') /\ UNCHANGED <<alive, count, ptr, fresh, lost, unwinding>>
  BY <1>3, <1>5, <1>9, ReleasePlan DEF ClientReset
<1>10. ASSUME NEW s \in Slots, ClientRead(s)
       PROVE  Plan(todo') /\ UNCHANGED <<alive, count, ptr, fresh, lost, unwinding>>
  BY <1>5, <1>10, TextIsPlan DEF ClientRead
<1>11. QED
  BY <1>6, <1>7, <1>8, <1>9, <1>10 DEF Client

(* What is left for the handler of an exception is a call                  *)
LEMMA HandlerPlan ==
  ASSUME Plan(todo), ToHandler
  PROVE  Plan(todo')
<1>1. CASE todo' = <<>>
  BY <1>1, Nothing
<1>2. ASSUME NEW i \in Handlers, todo' = SubSeq(todo, i, Len(todo))
      PROVE  Plan(todo')
  <2>1. Len(todo) \in Nat /\ i \in 1..Len(todo)
    BY LenProperties DEF Plan, Handlers
  <2>2. \A j \in i..Len(todo) : todo[j] \in Op
    BY <2>1, ElementOfSeq DEF Plan
  <2>3. SubSeq(todo, i, Len(todo)) \in Seq(Op)
    BY <2>1, <2>2, SubSeqProperties
  <2>4. QED
    BY <1>2, <2>3 DEF Plan
<1>3. QED
  BY <1>1, <1>2 DEF ToHandler

(* The object under construction is destroyed with its unique_ptr *)
LEMMA DestroyFreshStep ==
  ASSUME Sane, Plan(todo), DestroyFresh
  PROVE  Sane' /\ Plan(todo')
<1>1. fresh \in alive /\ fresh \in Objects /\ count[fresh] = 0
  BY DEF Sane, FreshUncounted, DestroyFresh
<1>2. \A h \in Holders : ptr[h] # fresh
  BY <1>1, Uncounted
<1>3. /\ alive' = alive \ {fresh} /\ fresh' = Null /\ todo' = Destructor(fresh) \o todo
      /\ count' = count /\ ptr' = ptr /\ lost' = lost
  BY DEF DestroyFresh
<1>4. NoDangling' /\ FreshUncounted' /\ DeadUncounted'
  BY <1>1, <1>2, <1>3 DEF Sane, NoDangling, FreshUncounted, DeadUncounted
<1>5. Plan(todo')
  BY <1>1, <1>3, DestructorPlan, Join
<1>6. QED
  BY <1>3, <1>4, <1>5 DEF Sane, Exact, Hits

(* Losing the reference a raw pointer carries keeps the invariant.         *)
LEMMA DestroyRawStep ==
  ASSUME Sane, NEW h \in RawLocals, DestroyRaw(h)
  PROVE  Sane'
<1>1. h \in Holders /\ Null \in alive \cup {Null}
  BY DEF Holders, Roots
<1>2. /\ ptr' = [ptr EXCEPT ![h] = Null] /\ lost' = Lose(h) /\ count' = AddRef(Null)
      /\ alive' = alive /\ fresh' = fresh
  BY DEF DestroyRaw, AddRef
<1>3. fresh = Null \/ Null # fresh
  OBVIOUS
<1>4. QED
  BY <1>1, <1>2, <1>3, WriteStep

(* Exceptions on their way out *)
LEMMA UnwindStep ==
  ASSUME Sane, Plan(todo), unwinding \in BOOLEAN, Unwind
  PROVE  Sane' /\ Plan(todo') /\ unwinding' \in BOOLEAN
<1>1. CASE DestroyFresh
  BY <1>1, DestroyFreshStep DEF DestroyFresh
<1>2. CASE DestroyMember
  <2>1. Head(todo) \in Op /\ Plan(Tail(todo)) /\ Head(todo).op = "release"
    BY <1>2, HeadTailProperties DEF DestroyMember, Plan
  <2>2. Head(todo).to \in Holders
    BY <2>1, OpPlaces
  <2>3. QED
    BY <1>2, <2>1, <2>2, ReleaseStep DEF DestroyMember, ReleaseAt
<1>3. CASE EndUnwinding
  <2>1. Sane' /\ unwinding' \in BOOLEAN
    BY <1>3, QuietStep DEF EndUnwinding
  <2>2. CASE todo = <<>>
    BY <1>3, <2>1, <2>2, Nothing DEF EndUnwinding
  <2>3. CASE todo # <<>>
    <3> DEFINE L == Head(todo).to[1]
    <3>1. Head(todo) \in Op /\ Plan(Tail(todo)) /\ Head(todo).op = "guard"
      BY <1>3, <2>3, HeadTailProperties DEF EndUnwinding, Leaving, Plan
    <3>2. L \in Levels
      BY <3>1, OpPlaces
    <3> HIDE DEF L
    <3>3. Plan(MakeRef(L, "ch") \o Tail(todo))
      BY <3>1, <3>2, LevelPlans, Join DEF Refs
    <3>4. QED
      BY <1>3, <2>1, <2>3, <3>3 DEF EndUnwinding, L
  <2>4. QED
    BY <2>2, <2>3
<1>4. ASSUME NEW h \in RawLocals, DestroyRaw(h)
      PROVE  Sane' /\ Plan(todo') /\ unwinding' \in BOOLEAN
  BY <1>4, DestroyRawStep DEF DestroyRaw
<1>5. ASSUME NEW h \in RefLocals, DestroyRef(h)
      PROVE  Sane' /\ Plan(todo') /\ unwinding' \in BOOLEAN
  <2>1. h \in Holders
    BY DEF Holders, Roots
  <2>2. QED
    BY <1>5, <2>1, ReleaseStep DEF DestroyRef, ReleaseAt
<1>6. QED
  BY <1>1, <1>2, <1>3, <1>4, <1>5 DEF Unwind

(* Every step keeps the invariant *)
LEMMA Inductive == IInv /\ [Next]_vars => IInv'
<1> SUFFICES ASSUME Sane, Plan(todo), unwinding \in BOOLEAN, [Next]_vars
             PROVE  Sane' /\ Plan(todo') /\ unwinding' \in BOOLEAN
  BY InvariantParts, InvariantPartsNext
<1>1. CASE Allocate
  BY <1>1, AllocateStep, NextOp DEF Allocate
<1>2. CASE OwnObject
  BY <1>2, OwnObjectStep, NextOp DEF OwnObject
<1>3. CASE CopyRef
  BY <1>3, CopyRefStep, NextOp DEF CopyRef
<1>4. CASE SwapRefs
  BY <1>4, SwapRefsStep, NextOp DEF SwapRefs
<1>5. CASE ReleaseRef
  <2>1. Head(todo).to \in Holders /\ Plan(Tail(todo))
    BY <1>5, NextOp, OpPlaces DEF ReleaseRef
  <2>2. QED
    BY <1>5, <2>1, ReleaseStep DEF ReleaseRef, ReleaseAt
<1>6. CASE Proceed
  BY <1>6, ProceedStep, QuietStep
<1>7. CASE ThrowException
  BY <1>7, QuietStep, HandlerPlan DEF ThrowException
<1>8. CASE Unwind
  BY <1>8, UnwindStep
<1>9. CASE Client
  BY <1>9, ClientStep, QuietStep
<1>10. CASE UNCHANGED vars
  BY <1>10, QuietStep DEF vars
<1>11. QED
  BY <1>1, <1>2, <1>3, <1>4, <1>5, <1>6, <1>7, <1>8, <1>9, <1>10 DEF Next

(* The invariant holds before the first call.                              *)
LEMMA InitInvariant == Init => IInv
<1>1. Init => Plan(todo) /\ unwinding \in BOOLEAN
  BY Nothing DEF Init
<1>2. QED
  BY <1>1, InitSane, InvariantParts

(* The inductive invariant *)
THEOREM InvariantHolds == Spec => []IInv
BY InitInvariant, Inductive, PTL DEF Spec

(* References, counts and calls in progress have their types, whatever the *)
(* sequence of calls                                                       *)
THEOREM TypeCorrect == Spec => []TypeOK
<1>1. IInv => TypeOK
  BY DEF IInv
<1>2. QED
  BY <1>1, InvariantHolds, PTL

(* ref_count_ is exact: add_ref, release, do_return, acquire and unwinding *)
(* keep it equal to the number of references there are                     *)
THEOREM RefCountsAreExact == Spec => []CountsExact
<1>1. IInv => CountsExact
  BY DEF IInv
<1>2. QED
  BY <1>1, InvariantHolds, PTL

(* No reference and no raw pointer in flight points to a deleted object    *)
THEOREM NothingDangles == Spec => []NoDangling
<1>1. IInv => NoDangling
  BY DEF IInv
<1>2. QED
  BY <1>1, InvariantHolds, PTL

-----------------------------------------------------------------------------
(* Refinement *)

Referred == {ptr[h] : h \in Holders}

(* The places are the same in both views *)
LEMMA SameHolders == Own!Holders = Holders
BY DEF Own!Holders, Holders

(* What exists covers everything referred to *)
LEMMA SoundInvariant == Sane => Own!Sound
<1> SUFFICES ASSUME Sane PROVE Own!Sound
  OBVIOUS
<1>1. Own!Targets \subseteq alive
  BY SameHolders DEF Sane, NoDangling, Own!Targets
<1>2. \A o \in Objects : lost[o] > 0 => o \in alive
  <2> SUFFICES ASSUME NEW o \in Objects, o \notin alive
               PROVE  lost[o] = 0
    BY DEF Sane, Counts
  <2>1. count[o] = 0
    BY DEF Sane, DeadUncounted
  <2>2. QED
    BY <2>1, Uncounted
<1>3. Kept \subseteq alive
  BY <1>2 DEF Kept, Sane, FreshUncounted
<1>4. QED
  BY <1>1, <1>3 DEF Own!Sound

(* After a step, too, whatever is referred to exists.                      *)
LEMMA SoundInvariantNext == Sane' => Own!Sound'
BY SoundInvariant, PTL

(* A step that only moves references about *)
LEMMA UseStep ==
  ASSUME Sane, Sane', alive' \subseteq alive,
         \A h \in Holders : ptr'[h] \in Referred \cup {fresh, Null},
         fresh' \in {fresh, Null},
         \A o \in Objects : lost'[o] > 0 => lost[o] > 0 \/ o \in Referred
  PROVE  Own!Use
<1>1. DOMAIN ptr' = Own!Holders
  BY SameHolders DEF Sane, Pointers
<1>2. Own!Targets = Referred \ {Null}
  BY SameHolders DEF Own!Targets, Referred
<1>3. Own!Targets' \subseteq Own!Targets \cup ({fresh} \ {Null})
  <2>1. Own!Targets' = {ptr'[h] : h \in Own!Holders'} \ {Null}
    BY DEF Own!Targets
  <2>2. Own!Holders' = Holders
    BY DEF Own!Holders, Holders
  <2>3. QED
    BY <1>2, <2>1, <2>2
<1>4. Kept' \subseteq Kept \cup Own!Targets
  BY <1>2, RefCountedAssumption DEF Kept
<1>5. Own!Sound'
  BY SoundInvariantNext
<1>6. QED
  BY <1>1, <1>3, <1>4, <1>5 DEF Own!Use, Kept

(* Writing a reference into a holder is a use of references.               *)
LEMMA WriteUse ==
  ASSUME Sane, Sane', NEW h \in Holders, NEW x \in Referred \cup {fresh, Null},
         ptr' = [ptr EXCEPT ![h] = x], lost' = Lose(h), alive' \subseteq alive,
         fresh' \in {fresh, Null}
  PROVE  Own!Use
<1>1. \A g \in Holders : ptr'[g] \in Referred \cup {fresh, Null}
  BY DEF Sane, Pointers, Referred
<1>2. ptr[h] \in Referred /\ ptr[h] \in Objects \cup {Null}
  BY DEF Referred, Sane, Pointers
<1>3. \A o \in Objects : o # ptr[h] => lost'[o] = lost[o]
  BY <1>2 DEF Lose, Sane, Counts
<1>4. \A o \in Objects : lost'[o] > 0 => lost[o] > 0 \/ o \in Referred
  BY <1>2, <1>3
<1>5. QED
  BY <1>1, <1>4, UseStep

(* Releasing a reference is a use of references.                           *)
LEMMA ReleaseUse ==
  ASSUME Sane, Sane', NEW h \in Holders, NEW rest, ReleaseAt(h, rest)
  PROVE  Own!Use
<1>1. /\ ptr' = [ptr EXCEPT ![h] = Null] /\ lost' = lost /\ fresh' = fresh
      /\ alive' \subseteq alive
  BY DEF ReleaseAt
<1>2. \A g \in Holders : ptr'[g] \in Referred \cup {fresh, Null}
  BY <1>1 DEF Sane, Pointers, Referred
<1>3. QED
  BY <1>1, <1>2, UseStep

(* A step that leaves the references alone is a stutter.                   *)
LEMMA QuietUse ==
  ASSUME UNCHANGED <<alive, count, ptr, fresh, lost>>
  PROVE  UNCHANGED Own!ownVars
BY DEF Own!ownVars, Kept

(* Every step of the counts is a step of the program whose memory is       *)
(* collected, or none                                                      *)
LEMMA StepRefines ==
  ASSUME Sane, Sane', Plan(todo), [Next]_vars
  PROVE  [Own!Next]_(Own!ownVars)
<1>1. CASE Allocate
  <2>1. PICK o \in Objects \ alive : fresh' = o /\ alive' = alive \cup {o}
    BY <1>1, AllocateStep
  <2>2. fresh = Null /\ lost' = lost /\ ptr' = ptr
    BY <1>1 DEF Allocate
  <2>3. Kept' = Kept \cup {o}
    BY <2>1, <2>2, RefCountedAssumption DEF Kept
  <2>4. Own!Create(o)
    BY <2>1, <2>2, <2>3 DEF Own!Create
  <2>5. QED
    BY <2>4 DEF Own!Next
<1>2. CASE OwnObject
  <2>1. Head(todo).to \in Holders
    BY <1>2, NextOp, OpPlaces DEF OwnObject
  <2>2. QED
    BY <1>2, <2>1, WriteUse DEF OwnObject, Own!Next
<1>3. CASE CopyRef
  <2> DEFINE to == At(Head(todo).to)
             x == ptr[Head(todo).from]
  <2>1. x \in Referred
    BY <1>3, NextOp, OpPlaces DEF CopyRef, Referred
  <2>2. /\ to \in Holders /\ ptr' = [ptr EXCEPT ![to] = x] /\ lost' = Lose(to)
        /\ alive' = alive /\ fresh' = fresh
    BY <1>3 DEF CopyRef
  <2> HIDE DEF to, x
  <2>3. Own!Use
    BY <2>1, <2>2, WriteUse
  <2>4. QED
    BY <2>3 DEF Own!Next
<1>4. CASE SwapRefs
  <2> DEFINE to == Head(todo).to
             from == Head(todo).from
  <2>1. to \in Holders /\ from \in Holders
    BY <1>4, NextOp, OpPlaces DEF SwapRefs
  <2>2. /\ ptr' = [ptr EXCEPT ![to] = ptr[from], ![from] = ptr[to]]
        /\ lost' = lost /\ alive' = alive /\ fresh' = fresh
    BY <1>4 DEF SwapRefs
  <2> HIDE DEF to, from
  <2>3. \A h \in Holders : ptr'[h] \in Referred \cup {fresh, Null}
    BY <2>1, <2>2 DEF Sane, Pointers, Referred
  <2>4. Own!Use
    BY <2>2, <2>3, UseStep
  <2>5. QED
    BY <2>4 DEF Own!Next
<1>5. CASE ReleaseRef
  <2>1. Head(todo).to \in Holders
    BY <1>5, NextOp, OpPlaces DEF ReleaseRef
  <2>2. QED
    BY <1>5, <2>1, ReleaseUse DEF ReleaseRef, Own!Next
<1>6. CASE Proceed
  BY <1>6, ProceedStep, QuietUse
<1>7. CASE ThrowException
  BY <1>7, QuietUse DEF ThrowException
<1>8. CASE Unwind
  <2>1. CASE DestroyFresh
    <3>1. /\ alive' \subseteq alive /\ fresh' = Null /\ lost' = lost /\ ptr' = ptr
      BY <2>1 DEF DestroyFresh
    <3>2. \A h \in Holders : ptr'[h] \in Referred \cup {fresh, Null}
      BY <3>1 DEF Referred
    <3>3. Own!Use
      BY <3>1, <3>2, UseStep
    <3>4. QED
      BY <3>3 DEF Own!Next
  <2>2. CASE DestroyMember
    <3>1. Head(todo) \in Op /\ Head(todo).op = "release"
      BY <2>2, HeadTailProperties DEF DestroyMember, Plan
    <3>2. Head(todo).to \in Holders
      BY <3>1, OpPlaces
    <3>3. QED
      BY <2>2, <3>2, ReleaseUse DEF DestroyMember, Own!Next
  <2>3. CASE EndUnwinding
    BY <2>3, QuietUse DEF EndUnwinding
  <2>4. ASSUME NEW h \in RawLocals, DestroyRaw(h)
        PROVE  Own!Next
    <3>1. h \in Holders
      BY DEF Holders, Roots
    <3>2. QED
      BY <2>4, <3>1, WriteUse DEF DestroyRaw, Own!Next
  <2>5. ASSUME NEW h \in RefLocals, DestroyRef(h)
        PROVE  Own!Next
    <3>1. h \in Holders
      BY DEF Holders, Roots
    <3>2. QED
      BY <2>5, <3>1, ReleaseUse DEF DestroyRef, Own!Next
  <2>6. QED
    BY <1>8, <2>1, <2>2, <2>3, <2>4, <2>5 DEF Unwind
<1>9. CASE Client
  BY <1>9, ClientStep, QuietUse
<1>10. CASE UNCHANGED vars
  BY <1>10, QuietUse DEF vars
<1>11. QED
  BY <1>1, <1>2, <1>3, <1>4, <1>5, <1>6, <1>7, <1>8, <1>9, <1>10 DEF Next

(* The initial states of RefCounted are initial states of Ownership.       *)
LEMMA InitRefines == Init => Own!Init
<1> SUFFICES ASSUME Init PROVE Own!Init
  OBVIOUS
<1>1. Kept = {}
  BY DEF Init, Kept
<1>2. QED
  BY <1>1, SameHolders DEF Init, Own!Init

(* Reference counting implements collected memory: what is deleted was out *)
(* of everybody's reach, and no reference comes from nowhere               *)
THEOREM CountingRefinesOwnership == Spec => Implements
<1>1. IInv /\ IInv' /\ [Next]_vars => [Own!Next]_(Own!ownVars)
  BY StepRefines, InvariantParts, InvariantPartsNext
<1>2. QED
  BY <1>1, InitRefines, InvariantHolds, PTL DEF Spec, Implements, Own!Spec

-----------------------------------------------------------------------------
(***************************************************************************)
(* What the calls do with their references: a call that ends leaves no     *)
(* local variable behind and loses nothing, an answer to br_get_child_at   *)
(* is complete, and no cycle of references can be made, so that what is    *)
(* left can be reached.                                                    *)
(*                                                                         *)
(* A call in progress is a sequence of operations.  The invariant says     *)
(* there is a trace for it: what is known about the places between any two *)
(* of its operations, such that each operation is allowed where it stands  *)
(* and turns what is known before it into what is known after it.          *)
(***************************************************************************)
LocalPlaces == RawLocals \cup RefLocals
NewMembers  == {Fresh} \X Members

(* What is known about the places: which local variables, and which        *)
(* members of the object under construction, may hold a reference, which   *)
(* places certainly do, and whether there is an object under construction. *)
Knowledge == [may : SUBSET (LocalPlaces \cup NewMembers), must : SUBSET Holders,
              new : BOOLEAN]

Matches(a) ==
    /\ \A h \in LocalPlaces : ptr[h] # Null => h \in a.may
    /\ \A h \in a.must : ptr[h] # Null
    /\ fresh # Null =>
         /\ a.new
         /\ \A m \in Members : ptr[<<fresh, m>>] # Null => <<Fresh, m>> \in a.may

(* b knows no more than a *)
Weaker(a, b) == a.may \subseteq b.may /\ b.must \subseteq a.must /\ (a.new => b.new)

(* Only variables of the calls down to level L hold references *)
UpTo(a, L) == \A h \in a.may : h \in LocalPlaces /\ h[1] <= L

(* Of the variables above level L, only those in B do *)
LowIn(a, L, B) == \A h \in a.may : h \in LocalPlaces /\ h[1] < L => h \in B

CallParts == {"format", "wrap", "child", "pos_file", "read", "guard"}
Throws(x) == x.op \in {"make_unique", "throw", "copy"} \cup CallParts

-----------------------------------------------------------------------------
(* What an operation needs to know and what is known after it *)

MakeEffect(a, b) ==
    b.new /\ (a.may \ NewMembers) \subseteq b.may /\ b.must \subseteq a.must

OwnEffect(a, x, b) ==
    /\ x.to \in LocalPlaces \ a.may
    /\ (a.may \ NewMembers) \cup {x.to} \subseteq b.may
    /\ b.must \subseteq a.must \cup {x.to}

CopyEffect(a, x, b) ==
    /\ x.to \in (LocalPlaces \cup NewMembers) \ a.may
    /\ a.may \cup {x.to} \subseteq b.may
    /\ b.must \subseteq a.must \cup (IF x.from \in a.must THEN {x.to} \cap LocalPlaces ELSE {})
    /\ a.new => b.new
    /\ x.from \in LocalPlaces /\ x.from[2] \in {"br_name", "br_res"} => x.from \in a.must

SwapEffect(a, x, b) ==
    /\ x.to \in Roots /\ x.from \in LocalPlaces /\ x.to # x.from
    /\ a.may \ {x.to, x.from} \subseteq b.may
    /\ x.from \in a.may /\ x.to \in LocalPlaces => x.to \in b.may
    /\ x.to \in a.may \/ x.to \notin LocalPlaces => x.from \in b.may
    /\ b.must \subseteq (a.must \ {x.to, x.from})
                          \cup (IF x.from \in a.must THEN {x.to} ELSE {})
    /\ a.new => b.new

ReleaseEffect(a, x, b) ==
    /\ a.may \ {x.to} \subseteq b.may
    /\ b.must \subseteq (a.must \cap LocalPlaces) \ {x.to}
    /\ a.new => b.new

(* format and child return into <<L, "fval">> *)
CallEffect(a, x, b) ==
    /\ UpTo(a, x.to[1] - 1) /\ ~a.new
    /\ a.may \cup {x.to} \subseteq b.may
    /\ b.must \subseteq {x.to}

WrapEffect(a, x, b) ==
    /\ UpTo(a, x.to[1]) /\ ~a.new
    /\ \A h \in a.may : h[1] = x.to[1] => h = x.to
    /\ x.to \in a.must
    /\ a.may \cup {x.to} \subseteq b.may /\ b.must \subseteq {x.to}

PosFileEffect(a, x, b) ==
    /\ UpTo(a, x.to[1]) /\ ~a.new
    /\ \A v \in {"br_pos_file", "str", "obj"} : <<x.to[1], v>> \notin a.may
    /\ a.may \cup {<<x.to[1], "br_pos_file">>} \subseteq b.may
    /\ b.must \subseteq {h \in a.must \cap a.may : h[1] = x.to[1]}

ReadEffect(a, b) == Weaker(a, b)

(* guard: the result it makes when it catches goes to <<L, "ch">> *)
GuardEffect(a, x, b) ==
    /\ UpTo(a, x.to[1]) /\ ~a.new
    /\ \A h \in a.may : h[1] = x.to[1] => h[2] = "ch"
    /\ a.may \cup {<<x.to[1], "ch">>} \subseteq b.may
    /\ b.must \subseteq {<<x.to[1], "ch">>} \cap a.must

Effect(a, x, b) ==
    /\ x.op = "make_unique" => MakeEffect(a, b)
    /\ x.op = "own" => OwnEffect(a, x, b)
    /\ x.op = "copy" => CopyEffect(a, x, b)
    /\ x.op = "swap" => SwapEffect(a, x, b)
    /\ x.op = "release" => ReleaseEffect(a, x, b)
    /\ x.op \in {"format", "child"} => CallEffect(a, x, b)
    /\ x.op = "wrap" => WrapEffect(a, x, b)
    /\ x.op = "pos_file" => PosFileEffect(a, x, b)
    /\ x.op = "read" => ReadEffect(a, b)
    /\ x.op = "guard" => GuardEffect(a, x, b)

(* w is a trace of p *)
Traces(p, w) ==
    /\ w \in [1 .. Len(p) + 1 -> Knowledge]
    /\ \A k \in 1 .. Len(p) : Effect(w[k], p[k], w[k + 1])

(* What may throw before a handler runs below the handler's level, and     *)
(* with the variables the handler finds, but the one it is to assign.      *)
Catches(p, w) ==
    \A i \in 1 .. Len(p), j \in 1 .. Len(p) :
        j < i /\ p[i].op = "guard" /\ Throws(p[j]) =>
            /\ LowIn(w[j], p[i].to[1] + 1, w[i].may \ {<<p[i].to[1], "ch">>})
            /\ p[j].op \in CallParts => p[j].to[1] > p[i].to[1]

(* Where p may throw it is on level L or below, and above there only B     *)
(* holds references                                                        *)
Stays(L, B, p, w) ==
    \A k \in 1 .. Len(p) :
        Throws(p[k]) => LowIn(w[k], L, B) /\ (p[k].op \in CallParts => p[k].to[1] >= L)

(* On level L, p leads from a to b *)
Runs(L, B, p, a, b) ==
    /\ Plan(p)
    /\ \E w : /\ Traces(p, w) /\ Catches(p, w) /\ Stays(L, B, p, w)
              /\ Weaker(a, w[1]) /\ Weaker(w[Len(p) + 1], b)

Unguarded(p) == \A i \in 1 .. Len(p) : p[i].op # "guard"

(* The same, with no handler in p *)
Leads(L, B, p, a, b) == Runs(L, B, p, a, b) /\ Unguarded(p)

-----------------------------------------------------------------------------
(* Traces of calls put together *)

(* Knowing no more is transitive *)
LEMMA WeakerTransitive ==
  \A a, b, c : Weaker(a, b) /\ Weaker(b, c) => Weaker(a, c)
BY DEF Weaker

(* An operation after which more is known also lets one know less *)
LEMMA EffectWeaker ==
  ASSUME NEW a, NEW b, NEW c, NEW x, Effect(a, x, b), Weaker(b, c)
  PROVE  Effect(a, x, c)
<1>1. x.op = "make_unique" => MakeEffect(a, c)
  BY DEF Weaker, Effect, MakeEffect
<1>2. x.op = "own" => OwnEffect(a, x, c)
  BY DEF Weaker, Effect, OwnEffect
<1>3. x.op = "copy" => CopyEffect(a, x, c)
  BY DEF Weaker, Effect, CopyEffect
<1>4. x.op = "swap" => SwapEffect(a, x, c)
  BY DEF Weaker, Effect, SwapEffect
<1>5. x.op = "release" => ReleaseEffect(a, x, c)
  BY DEF Weaker, Effect, ReleaseEffect
<1>6. x.op \in {"format", "child"} => CallEffect(a, x, c)
  BY DEF Weaker, Effect, CallEffect
<1>7. x.op = "wrap" => WrapEffect(a, x, c)
  BY DEF Weaker, Effect, WrapEffect
<1>8. x.op = "pos_file" => PosFileEffect(a, x, c)
  BY DEF Weaker, Effect, PosFileEffect
<1>9. x.op = "read" => ReadEffect(a, c)
  BY DEF Weaker, Effect, ReadEffect
<1>10. x.op = "guard" => GuardEffect(a, x, c)
  BY DEF Weaker, Effect, GuardEffect
<1>11. QED
  BY <1>1, <1>2, <1>3, <1>4, <1>5, <1>6, <1>7, <1>8, <1>9, <1>10 DEF Effect

(* The trace of two calls, one after the other *)
Joined(p, u, q, v) ==
    [k \in 1 .. Len(p) + Len(q) + 1 |-> IF k <= Len(p) THEN u[k] ELSE v[k - Len(p)]]

(* A handler after p finds what p left when it threw *)
HandlersFind(p, u, q, v) ==
    \A i \in 1 .. Len(q), j \in 1 .. Len(p) :
        q[i].op = "guard" /\ Throws(p[j]) =>
            /\ LowIn(u[j], q[i].to[1] + 1, v[i].may \ {<<q[i].to[1], "ch">>})
            /\ p[j].op \in CallParts => p[j].to[1] > q[i].to[1]

(* Where the operations of two calls are *)
LEMMA JoinedPlaces ==
  ASSUME NEW p, NEW q, Plan(p), Plan(q)
  PROVE  /\ Plan(p \o q) /\ Len(p) \in Nat /\ Len(q) \in Nat
         /\ Len(p \o q) = Len(p) + Len(q)
         /\ \A k \in 1 .. Len(p) : (p \o q)[k] = p[k]
         /\ \A k \in 1 .. Len(q) : (p \o q)[Len(p) + k] = q[k]
<1>1. p \in Seq(Op) /\ q \in Seq(Op)
  BY DEF Plan
<1>2. Len(p) \in Nat /\ Len(q) \in Nat
  BY <1>1, LenProperties
<1>3. /\ p \o q \in Seq(Op) /\ Len(p \o q) = Len(p) + Len(q)
      /\ \A i \in 1 .. Len(p) + Len(q) : (p \o q)[i] = IF i <= Len(p) THEN p[i] ELSE q[i - Len(p)]
  BY <1>1, ConcatProperties
<1>4. \A k \in 1 .. Len(p) : (p \o q)[k] = p[k]
  BY <1>2, <1>3
<1>5. ASSUME NEW k \in 1 .. Len(q) PROVE (p \o q)[Len(p) + k] = q[k]
  <2>1. Len(p) + k \in 1 .. Len(p) + Len(q) /\ ~(Len(p) + k <= Len(p)) /\ Len(p) + k - Len(p) = k
    BY <1>2
  <2>2. QED
    BY <1>3, <2>1
<1>6. QED
  BY <1>2, <1>3, <1>4, <1>5 DEF Plan

(* The traces of two calls, one after the other, make a trace of both *)
LEMMA JoinTraces ==
  ASSUME NEW p, NEW q, NEW u, NEW v, Plan(p), Plan(q),
         Traces(p, u), Traces(q, v), Catches(p, u), Catches(q, v),
         Weaker(u[Len(p) + 1], v[1]), HandlersFind(p, u, q, v)
  PROVE  /\ Traces(p \o q, Joined(p, u, q, v)) /\ Catches(p \o q, Joined(p, u, q, v))
         /\ \A k \in 1 .. Len(p) : Joined(p, u, q, v)[k] = u[k]
         /\ \A k \in 1 .. Len(q) + 1 : Joined(p, u, q, v)[Len(p) + k] = v[k]
         /\ Weaker(u[1], Joined(p, u, q, v)[1])
<1> DEFINE w == Joined(p, u, q, v)
           m == Len(p)
           n == Len(q)
           r == p \o q
<1>1. /\ m \in Nat /\ n \in Nat /\ Len(r) = m + n
      /\ \A k \in 1 .. m : r[k] = p[k]
      /\ \A k \in 1 .. n : r[m + k] = q[k]
  BY JoinedPlaces
<1>2. \A k \in 1 .. m : w[k] = u[k]
  BY <1>1 DEF Joined
<1>3. ASSUME NEW k \in 1 .. n + 1 PROVE w[m + k] = v[k]
  <2>1. m + k \in 1 .. m + n + 1 /\ ~(m + k <= m) /\ m + k - m = k
    BY <1>1
  <2>2. QED
    BY <2>1 DEF Joined
<1>4. u \in [1 .. m + 1 -> Knowledge] /\ v \in [1 .. n + 1 -> Knowledge]
  BY DEF Traces
<1>5. w \in [1 .. m + n + 1 -> Knowledge]
  <2>1. w = [k \in 1 .. m + n + 1 |-> IF k <= m THEN u[k] ELSE v[k - m]]
    BY DEF Joined
  <2>2. \A k \in 1 .. m + n + 1 : (IF k <= m THEN u[k] ELSE v[k - m]) \in Knowledge
    BY SMTT(30), <1>1, <1>4
  <2> HIDE DEF w
  <2>3. QED
    BY <2>1, <2>2
<1>6. \A k \in 1 .. m : Effect(u[k], p[k], u[k + 1])
  BY DEF Traces
<1>7. \A k \in 1 .. n : Effect(v[k], q[k], v[k + 1])
  BY DEF Traces
<1>8. Weaker(u[m + 1], v[1])
  OBVIOUS
<1> HIDE DEF w, m, n, r
<1>9. ASSUME NEW k \in 1 .. m + n PROVE Effect(w[k], r[k], w[k + 1])
  <2>1. CASE k < m
    <3>1. k \in 1 .. m /\ k + 1 \in 1 .. m
      BY <1>1, <2>1
    <3>2. w[k] = u[k] /\ w[k + 1] = u[k + 1] /\ r[k] = p[k]
      BY <1>1, <1>2, <3>1
    <3>3. QED
      BY <1>6, <3>1, <3>2
  <2>2. CASE k = m
    <3>1. k \in 1 .. m /\ 1 \in 1 .. n + 1
      BY <1>1, <2>2
    <3>2. w[k] = u[k] /\ w[k + 1] = v[1] /\ r[k] = p[k]
      BY <1>1, <1>2, <1>3, <2>2, <3>1
    <3>3. Effect(u[k], p[k], u[k + 1]) /\ Weaker(u[k + 1], v[1])
      BY <1>6, <1>8, <2>2, <3>1
    <3>4. QED
      BY <3>2, <3>3, EffectWeaker
  <2>3. CASE k > m
    <3> DEFINE l == k - m
    <3>1. l \in 1 .. n /\ l \in 1 .. n + 1 /\ l + 1 \in 1 .. n + 1 /\ k = m + l /\ k + 1 = m + (l + 1)
      BY <1>1, <2>3
    <3> HIDE DEF l
    <3>2. w[k] = v[l] /\ w[k + 1] = v[l + 1] /\ r[k] = q[l]
      BY <1>1, <1>3, <3>1
    <3>3. QED
      BY <1>7, <3>1, <3>2
  <2>4. QED
    BY <1>1, <2>1, <2>2, <2>3
<1>10. ASSUME NEW i \in 1 .. m + n, NEW j \in 1 .. m + n,
              j < i, r[i].op = "guard", Throws(r[j])
       PROVE  /\ LowIn(w[j], r[i].to[1] + 1, w[i].may \ {<<r[i].to[1], "ch">>})
              /\ r[j].op \in CallParts => r[j].to[1] > r[i].to[1]
  <2>1. CASE i <= m
    <3>1. i \in 1 .. m /\ j \in 1 .. m
      BY <1>1, <1>10, <2>1
    <3>2. w[i] = u[i] /\ w[j] = u[j] /\ r[i] = p[i] /\ r[j] = p[j]
      BY <1>1, <1>2, <3>1
    <3>3. QED
      BY <1>10, <3>1, <3>2 DEF Catches, m
  <2>2. CASE i > m
    <3> DEFINE l == i - m
    <3>1. l \in 1 .. n /\ l \in 1 .. n + 1 /\ i = m + l
      BY <1>1, <2>2
    <3> HIDE DEF l
    <3>2. w[i] = v[l] /\ r[i] = q[l]
      BY <1>1, <1>3, <3>1
    <3>3. CASE j <= m
      <4>1. j \in 1 .. m
        BY <1>1, <3>3
      <4>2. w[j] = u[j] /\ r[j] = p[j]
        BY <1>1, <1>2, <4>1
      <4>3. QED
        BY <1>10, <3>1, <3>2, <4>1, <4>2 DEF HandlersFind, m, n
    <3>4. CASE j > m
      <4> DEFINE e == j - m
      <4>1. e \in 1 .. n /\ e \in 1 .. n + 1 /\ j = m + e /\ e < l
        BY <1>1, <1>10, <3>1, <3>4
      <4> HIDE DEF e
      <4>2. w[j] = v[e] /\ r[j] = q[e]
        BY <1>1, <1>3, <4>1
      <4>3. QED
        BY <1>10, <3>1, <3>2, <4>1, <4>2 DEF Catches, n
    <3>5. QED
      BY <1>1, <3>3, <3>4
  <2>3. QED
    BY <1>1, <2>1, <2>2
<1>11. Traces(r, w)
  BY <1>1, <1>5, <1>9 DEF Traces
<1>12. Catches(r, w)
  BY <1>1, <1>10 DEF Catches
<1>13. Weaker(u[1], w[1])
  <2>1. CASE m = 0
    <3>1. 1 \in 1 .. n + 1 /\ m + 1 = 1
      BY <1>1, <2>1
    <3>2. w[1] = v[1]
      BY <1>3, <3>1
    <3>3. QED
      BY <1>8, <3>1, <3>2
  <2>2. CASE m # 0
    <3>1. w[1] = u[1]
      BY <1>1, <1>2, <2>2
    <3>2. QED
      BY <3>1 DEF Weaker
  <2>3. QED
    BY <2>1, <2>2
<1>14. QED
  BY <1>2, <1>3, <1>11, <1>12, <1>13 DEF w, m, n, r

(* One part of a call after another *)
LEMMA Compose ==
  ASSUME NEW L, NEW B, NEW p, NEW q, NEW a, NEW b, NEW c,
         Runs(L, B, p, a, b), Leads(L, B, q, b, c)
  PROVE  Runs(L, B, p \o q, a, c)
<1>1. Plan(p) /\ Plan(q)
  BY DEF Runs, Leads
<1>2. PICK u : /\ Traces(p, u) /\ Catches(p, u) /\ Stays(L, B, p, u)
               /\ Weaker(a, u[1]) /\ Weaker(u[Len(p) + 1], b)
  BY DEF Runs
<1>3. PICK v : /\ Traces(q, v) /\ Catches(q, v) /\ Stays(L, B, q, v)
               /\ Weaker(b, v[1]) /\ Weaker(v[Len(q) + 1], c)
  BY DEF Runs, Leads
<1> DEFINE w == Joined(p, u, q, v)
<1>4. HandlersFind(p, u, q, v)
  BY DEF Leads, Unguarded, HandlersFind
<1>5. Weaker(u[Len(p) + 1], v[1])
  BY <1>2, <1>3, WeakerTransitive
<1>6. /\ Traces(p \o q, w) /\ Catches(p \o q, w) /\ Weaker(u[1], w[1])
      /\ \A k \in 1 .. Len(p) : w[k] = u[k]
      /\ \A k \in 1 .. Len(q) + 1 : w[Len(p) + k] = v[k]
  BY <1>1, <1>2, <1>3, <1>4, <1>5, JoinTraces
<1>7. /\ Plan(p \o q) /\ Len(p) \in Nat /\ Len(q) \in Nat
      /\ Len(p \o q) = Len(p) + Len(q)
      /\ \A k \in 1 .. Len(p) : (p \o q)[k] = p[k]
      /\ \A k \in 1 .. Len(q) : (p \o q)[Len(p) + k] = q[k]
  BY <1>1, JoinedPlaces
<1> HIDE DEF w
<1>8. Stays(L, B, p \o q, w)
  <2> SUFFICES ASSUME NEW k \in 1 .. Len(p) + Len(q), Throws((p \o q)[k])
               PROVE  /\ LowIn(w[k], L, B)
                      /\ (p \o q)[k].op \in CallParts => (p \o q)[k].to[1] >= L
    BY <1>7 DEF Stays
  <2>1. CASE k <= Len(p)
    <3>1. k \in 1 .. Len(p)
      BY <1>7, <2>1
    <3>2. QED
      BY <1>2, <1>6, <1>7, <3>1 DEF Stays
  <2>2. CASE k > Len(p)
    <3> DEFINE l == k - Len(p)
    <3>1. l \in 1 .. Len(q) /\ l \in 1 .. Len(q) + 1 /\ k = Len(p) + l
      BY <1>7, <2>2
    <3> HIDE DEF l
    <3>2. QED
      BY <1>3, <1>6, <1>7, <3>1 DEF Stays
  <2>3. QED
    BY <1>7, <2>1, <2>2
<1>9. Weaker(a, w[1])
  BY <1>2, <1>6, WeakerTransitive
<1>10. Weaker(w[Len(p \o q) + 1], c)
  <2>1. Len(q) + 1 \in 1 .. Len(q) + 1 /\ Len(p \o q) + 1 = Len(p) + (Len(q) + 1)
    BY <1>7
  <2>2. QED
    BY <1>3, <1>6, <2>1
<1>11. QED
  BY <1>6, <1>7, <1>8, <1>9, <1>10 DEF Runs

(* One part without handlers after another *)
LEMMA ComposeLeads ==
  ASSUME NEW L, NEW B, NEW p, NEW q, NEW a, NEW b, NEW c,
         Leads(L, B, p, a, b), Leads(L, B, q, b, c)
  PROVE  Leads(L, B, p \o q, a, c)
<1>1. Plan(p) /\ Plan(q) /\ Unguarded(p) /\ Unguarded(q) /\ Runs(L, B, p, a, b)
  BY DEF Runs, Leads
<1>2. /\ Len(p) \in Nat /\ Len(q) \in Nat
      /\ Len(p \o q) = Len(p) + Len(q)
      /\ \A k \in 1 .. Len(p) : (p \o q)[k] = p[k]
      /\ \A k \in 1 .. Len(q) : (p \o q)[Len(p) + k] = q[k]
  BY <1>1, JoinedPlaces
<1>3. ASSUME NEW k \in 1 .. Len(p) + Len(q)
      PROVE  (p \o q)[k].op # "guard"
  <2>1. CASE k <= Len(p)
    <3>1. k \in 1 .. Len(p)
      BY <1>2, <2>1
    <3>2. QED
      BY <1>1, <1>2, <3>1 DEF Unguarded
  <2>2. CASE k > Len(p)
    <3> DEFINE l == k - Len(p)
    <3>1. l \in 1 .. Len(q) /\ k = Len(p) + l
      BY <1>2, <2>2
    <3> HIDE DEF l
    <3>2. QED
      BY <1>1, <1>2, <3>1 DEF Unguarded
  <2>3. QED
    BY <1>2, <2>1, <2>2
<1>4. Unguarded(p \o q)
  BY <1>2, <1>3 DEF Unguarded
<1>5. QED
  BY <1>1, <1>4, Compose DEF Leads

-----------------------------------------------------------------------------
(* What single operations do with the variables of one level *)

Names == Raws \cup Refs

(* Above level L only the variables in B hold references *)
Base(L, B) ==
    /\ L \in Levels
    /\ B \subseteq LocalPlaces
    /\ \A h \in B : h[1] < L

(* On level L the variables X may, and U do, hold references *)
St(L, B, X, U) ==
    [may |-> B \cup {<<L, v>> : v \in X}, must |-> {<<L, v>> : v \in U}, new |-> FALSE]

(* The same, with an object under construction whose members F may *)
StNew(L, B, X, U, F) ==
    [may |-> B \cup {<<L, v>> : v \in X} \cup {<<Fresh, m>> : m \in F},
     must |-> {<<L, v>> : v \in U}, new |-> TRUE]

(* Variables are pairs of a level and a name *)
LEMMA LocalFacts ==
  /\ \A L \in Levels, v \in Names : <<L, v>> \in LocalPlaces
  /\ \A h \in LocalPlaces : h = <<h[1], h[2]>> /\ h[1] \in Levels /\ h[1] \in Nat /\ h[2] \in Names
  /\ LocalPlaces \subseteq Holders /\ LocalPlaces \subseteq Roots
  /\ \A L \in Levels : L \in Nat /\ L # Fresh
  /\ \A m : <<Fresh, m>> \notin LocalPlaces
<1>1. LocalPlaces = Levels \X Names
  BY DEF LocalPlaces, RawLocals, RefLocals, Names
<1>2. \A L \in Levels : L \in Nat /\ L # Fresh
  BY RefCountedAssumption DEF Levels
<1>3. LocalPlaces \subseteq Holders /\ LocalPlaces \subseteq Roots
  BY DEF LocalPlaces, Holders, Roots
<1>4. QED
  BY <1>1, <1>2, <1>3

(* What is known on a level is knowledge *)
LEMMA StateFacts ==
  ASSUME NEW L, NEW B, Base(L, B), NEW X \in SUBSET Names, NEW U \in SUBSET Names
  PROVE  /\ St(L, B, X, U) \in Knowledge
         /\ \A v : <<L, v>> \in St(L, B, X, U).may <=> v \in X
         /\ \A v : <<L, v>> \in St(L, B, X, U).must <=> v \in U
         /\ LowIn(St(L, B, X, U), L, B)
         /\ UpTo(St(L, B, X, U), L)
         /\ ~St(L, B, X, U).new
<1>1. L \in Levels /\ B \subseteq LocalPlaces /\ \A h \in B : h[1] < L
  BY DEF Base
<1>2. L \in Nat /\ \A h \in B : h # <<L, h[2]>> /\ h[1] \in Nat
  BY <1>1, LocalFacts
<1>3. {<<L, v>> : v \in X} \subseteq LocalPlaces /\ {<<L, v>> : v \in U} \subseteq Holders
  BY <1>1, LocalFacts
<1>4. St(L, B, X, U) \in Knowledge
  BY <1>1, <1>3 DEF St, Knowledge
<1>5. \A v : <<L, v>> \in St(L, B, X, U).may <=> v \in X
  BY <1>2 DEF St
<1>6. \A v : <<L, v>> \in St(L, B, X, U).must <=> v \in U
  BY DEF St
<1>7. LowIn(St(L, B, X, U), L, B)
  BY <1>2 DEF St, LowIn
<1>8. UpTo(St(L, B, X, U), L)
  BY <1>1, <1>2, <1>3 DEF St, UpTo
<1>9. QED
  BY <1>4, <1>5, <1>6, <1>7, <1>8 DEF St

(* The same with an object under construction *)
LEMMA StateNewKnown ==
  ASSUME NEW L, NEW B, Base(L, B), NEW X \in SUBSET Names, NEW U \in SUBSET Names,
         NEW F \in SUBSET Members
  PROVE  StNew(L, B, X, U, F) \in Knowledge /\ LowIn(StNew(L, B, X, U, F), L, B)
<1>1. L \in Levels /\ B \subseteq LocalPlaces /\ \A h \in B : h[1] < L
  BY DEF Base
<1>2. L \in Nat
  BY <1>1, LocalFacts
<1>3. {<<L, v>> : v \in X} \subseteq LocalPlaces /\ {<<L, v>> : v \in U} \subseteq Holders
      /\ {<<Fresh, m>> : m \in F} \subseteq NewMembers
      /\ \A m : <<Fresh, m>> \notin LocalPlaces
  BY <1>1, LocalFacts DEF NewMembers
<1>4. StNew(L, B, X, U, F) \in Knowledge
  BY <1>1, <1>3 DEF StNew, Knowledge
<1>5. LowIn(StNew(L, B, X, U, F), L, B)
  BY <1>2, <1>3 DEF StNew, LowIn
<1>6. QED
  BY <1>4, <1>5

(* Where the object under construction and the variables may refer *)
LEMMA StateNewMay ==
  ASSUME NEW L, NEW B, Base(L, B), NEW X, NEW U, NEW F, NEW v
  PROVE  /\ <<L, v>> \in StNew(L, B, X, U, F).may <=> v \in X
         /\ <<Fresh, v>> \in StNew(L, B, X, U, F).may <=> v \in F
<1>1. L \in Levels /\ B \subseteq LocalPlaces /\ \A h \in B : h[1] < L
  BY DEF Base
<1>2. L \in Nat /\ L # Fresh /\ \A h \in B : h # <<L, v>> /\ h # <<Fresh, v>>
  BY <1>1, LocalFacts
<1>3. <<L, v>> \in StNew(L, B, X, U, F).may <=> v \in X
  BY <1>2 DEF StNew
<1>4. <<Fresh, v>> \in StNew(L, B, X, U, F).may <=> v \in F
  BY <1>2 DEF StNew
<1>5. QED
  BY <1>3, <1>4

(* A call of one operation *)
LEMMA OneLeads ==
  ASSUME NEW L, NEW B, NEW x \in Op, NEW a \in Knowledge, NEW b \in Knowledge,
         Effect(a, x, b), x.op # "guard", LowIn(a, L, B),
         x.op \in CallParts => x.to[1] >= L
  PROVE  Leads(L, B, <<x>>, a, b)
<1> DEFINE p == <<x>>
           w == [k \in 1 .. 2 |-> IF k = 1 THEN a ELSE b]
<1>1. Plan(p)
  BY Single
<1>2. Len(p) = 1 /\ p[1] = x /\ \A k \in 1 .. Len(p) : k = 1
  OBVIOUS
<1>3. w \in [1 .. Len(p) + 1 -> Knowledge] /\ w[1] = a /\ w[1 + 1] = b
  BY <1>2
<1> HIDE DEF p, w
<1>4. Traces(p, w)
  BY <1>2, <1>3 DEF Traces
<1>5. Catches(p, w) /\ Unguarded(p)
  BY <1>2 DEF Catches, Unguarded
<1>6. Stays(L, B, p, w)
  BY <1>2, <1>3 DEF Stays
<1>7. Weaker(a, w[1]) /\ Weaker(w[Len(p) + 1], b)
  BY <1>2, <1>3 DEF Weaker
<1>8. QED
  BY <1>1, <1>4, <1>5, <1>6, <1>7 DEF Leads, Runs, p

(* A call of no operation, which may be said to know less afterwards *)
LEMMA NoneLeads ==
  ASSUME NEW L, NEW B, NEW a \in Knowledge, NEW b, Weaker(a, b)
  PROVE  Leads(L, B, <<>>, a, b)
<1> DEFINE p == <<>>
           w == [k \in 1 .. 1 |-> a]
<1>1. Plan(p)
  BY Nothing
<1>2. Len(p) = 0
  OBVIOUS
<1>3. w \in [1 .. Len(p) + 1 -> Knowledge] /\ w[1] = a /\ w[Len(p) + 1] = a
  BY <1>2
<1> HIDE DEF p, w
<1>4. QED
  BY <1>1, <1>2, <1>3 DEF Leads, Runs, p, Traces, Catches, Unguarded, Stays, Weaker

(* make_unique: an object under construction, with no members yet *)
LEMMA MakeUniqueLeads ==
  ASSUME NEW L, NEW B, Base(L, B), NEW X \in SUBSET Names, NEW U \in SUBSET Names
  PROVE  Leads(L, B, MakeUnique(L), St(L, B, X, U), StNew(L, B, X, U, {}))
<1> DEFINE x == [op |-> "make_unique", to |-> <<L, "obj">>, from |-> <<L, "obj">>]
           a == St(L, B, X, U)
           b == StNew(L, B, X, U, {})
<1>1. <<L, "obj">> \in Holders
  BY LocalFacts DEF Base, Names, Raws
<1>2. x \in Op
  BY <1>1 DEF Op, Basics
<1>3. Effect(a, x, b)
  BY DEF Effect, MakeEffect, St, StNew
<1>4. a \in Knowledge /\ b \in Knowledge /\ LowIn(a, L, B)
  BY StateFacts, StateNewKnown
<1>5. x.op # "guard" /\ x.op \notin CallParts
  BY DEF CallParts
<1> HIDE DEF x, a, b
<1>6. Leads(L, B, <<x>>, a, b)
  BY <1>2, <1>3, <1>4, <1>5, OneLeads
<1>7. QED
  BY <1>6 DEF MakeUnique, Do, x, a, b

(* The object gets its first reference, from the raw pointer obj *)
LEMMA OwnLeads ==
  ASSUME NEW L, NEW B, Base(L, B), NEW X \in SUBSET Names, NEW U \in SUBSET Names,
         NEW F \in SUBSET Members, "obj" \notin X
  PROVE  Leads(L, B, Do("own", <<L, "obj">>, <<L, "obj">>), StNew(L, B, X, U, F),
               St(L, B, X \cup {"obj"}, U \cup {"obj"}))
<1> DEFINE x == [op |-> "own", to |-> <<L, "obj">>, from |-> <<L, "obj">>]
           a == StNew(L, B, X, U, F)
           b == St(L, B, X \cup {"obj"}, U \cup {"obj"})
<1>1. <<L, "obj">> \in Holders /\ <<L, "obj">> \in LocalPlaces
  BY LocalFacts DEF Base, Names, Raws
<1>2. x \in Op
  BY <1>1 DEF Op, Basics
<1>3. X \cup {"obj"} \in SUBSET Names /\ U \cup {"obj"} \in SUBSET Names
  BY DEF Names, Raws
<1>4. a \in Knowledge /\ b \in Knowledge /\ LowIn(a, L, B) /\ <<L, "obj">> \notin a.may
  <2>1. a \in Knowledge /\ LowIn(a, L, B)
    BY StateNewKnown
  <2>2. <<L, "obj">> \notin a.may
    BY ZenonT(30), StateNewMay
  <2>3. b \in Knowledge
    BY <1>3, StateFacts
  <2>4. QED
    BY <2>1, <2>2, <2>3
<1>5. Effect(a, x, b)
  <2>1. (a.may \ NewMembers) \cup {<<L, "obj">>} \subseteq b.may
    BY DEF St, StNew, NewMembers
  <2>2. b.must \subseteq a.must \cup {<<L, "obj">>}
    BY DEF St, StNew
  <2>3. QED
    BY <1>1, <1>4, <2>1, <2>2 DEF Effect, OwnEffect
<1>6. x.op # "guard" /\ x.op \notin CallParts
  BY DEF CallParts
<1> HIDE DEF x, a, b
<1>7. Leads(L, B, <<x>>, a, b)
  BY <1>2, <1>4, <1>5, <1>6, OneLeads
<1>8. QED
  BY <1>7 DEF Do, x, a, b

(* A reference is copied from one variable to another, empty one *)
LEMMA CopyLeads ==
  ASSUME NEW L, NEW B, Base(L, B), NEW X \in SUBSET Names, NEW U \in SUBSET Names,
         NEW v \in Names \ X, NEW w \in Names,
         NEW Y \in SUBSET Names, NEW V \in SUBSET Names,
         X \cup {v} \subseteq Y, V \subseteq U \cup (IF w \in U THEN {v} ELSE {}),
         w \in {"br_name", "br_res"} => w \in U
  PROVE  Leads(L, B, Copy(<<L, v>>, <<L, w>>), St(L, B, X, U), St(L, B, Y, V))
<1> DEFINE x == [op |-> "copy", to |-> <<L, v>>, from |-> <<L, w>>]
           a == St(L, B, X, U)
           b == St(L, B, Y, V)
<1>1. <<L, v>> \in LocalPlaces /\ <<L, w>> \in LocalPlaces /\ LocalPlaces \subseteq Holders
  BY LocalFacts DEF Base
<1>2. x \in Op
  BY <1>1, HoldersArePlaces DEF Op, Copies
<1>3. /\ a \in Knowledge /\ b \in Knowledge /\ LowIn(a, L, B) /\ <<L, v>> \notin a.may
      /\ <<L, w>> \in a.must <=> w \in U
  BY StateFacts
<1>4. Effect(a, x, b)
  <2>1. a.may \cup {<<L, v>>} \subseteq b.may
    BY DEF St
  <2>2. b.must \subseteq a.must \cup (IF <<L, w>> \in a.must THEN {<<L, v>>} \cap LocalPlaces ELSE {})
    BY <1>1, <1>3 DEF St
  <2>3. QED
    BY <1>1, <1>3, <2>1, <2>2 DEF Effect, CopyEffect, St
<1>5. x.op # "guard" /\ x.op \notin CallParts
  BY DEF CallParts
<1> HIDE DEF x, a, b
<1>6. Leads(L, B, <<x>>, a, b)
  BY <1>2, <1>3, <1>4, <1>5, OneLeads
<1>7. QED
  BY <1>6 DEF Copy, Do, x, a, b

(* A reference is copied to a member of the object under construction *)
LEMMA CopyNewLeads ==
  ASSUME NEW L, NEW B, Base(L, B), NEW X \in SUBSET Names, NEW U \in SUBSET Names,
         NEW F \in SUBSET Members, NEW m \in Members \ F, NEW w \in Refs
  PROVE  Leads(L, B, Copy(<<Fresh, m>>, <<L, w>>), StNew(L, B, X, U, F),
               StNew(L, B, X, U, F \cup {m}))
<1> DEFINE x == [op |-> "copy", to |-> <<Fresh, m>>, from |-> <<L, w>>]
           a == StNew(L, B, X, U, F)
           b == StNew(L, B, X, U, F \cup {m})
<1>1. /\ <<L, w>> \in Holders /\ <<L, w>> \in LocalPlaces
      /\ <<Fresh, m>> \in NewMembers /\ <<Fresh, m>> \in Places
      /\ <<Fresh, m>> \notin LocalPlaces
  BY LocalFacts DEF Base, Names, NewMembers, Places
<1>2. x \in Op
  BY <1>1 DEF Op, Copies
<1>3. /\ a \in Knowledge /\ b \in Knowledge /\ LowIn(a, L, B) /\ <<Fresh, m>> \notin a.may
  <2>1. F \cup {m} \in SUBSET Members
    OBVIOUS
  <2>2. b \in Knowledge
    BY <2>1, StateNewKnown
  <2>3. a \in Knowledge /\ LowIn(a, L, B)
    BY StateNewKnown
  <2>4. <<Fresh, m>> \notin a.may
    BY StateNewMay
  <2>5. QED
    BY <2>2, <2>3, <2>4
<1>4. Effect(a, x, b)
  <2>1. a.may \cup {<<Fresh, m>>} \subseteq b.may /\ b.must = a.must /\ b.new
    BY DEF StNew
  <2>2. w \notin {"br_name", "br_res"}
    BY DEF Refs
  <2>3. x.op = "copy" /\ x.to = <<Fresh, m>> /\ x.from[2] = w
    OBVIOUS
  <2> HIDE DEF x, a, b
  <2>4. CopyEffect(a, x, b)
    BY <1>1, <1>3, <2>1, <2>2, <2>3 DEF CopyEffect
  <2>5. QED
    BY <2>3, <2>4 DEF Effect
<1>5. x.op # "guard" /\ x.op \notin CallParts
  BY DEF CallParts
<1> HIDE DEF x, a, b
<1>6. Leads(L, B, <<x>>, a, b)
  BY <1>2, <1>3, <1>4, <1>5, OneLeads
<1>7. QED
  BY <1>6 DEF Copy, Do, x, a, b

(* A variable is released *)
LEMMA ReleaseLeads ==
  ASSUME NEW L, NEW B, Base(L, B), NEW X \in SUBSET Names, NEW U \in SUBSET Names,
         NEW v \in Names, NEW Y \in SUBSET Names, NEW V \in SUBSET Names,
         X \ {v} \subseteq Y, V \subseteq U \ {v}
  PROVE  Leads(L, B, Release(<<L, v>>), St(L, B, X, U), St(L, B, Y, V))
<1> DEFINE x == [op |-> "release", to |-> <<L, v>>, from |-> <<L, v>>]
           a == St(L, B, X, U)
           b == St(L, B, Y, V)
<1>1. <<L, v>> \in Holders
  BY LocalFacts DEF Base
<1>2. x \in Op
  BY <1>1 DEF Op, Basics
<1>3. a \in Knowledge /\ b \in Knowledge /\ LowIn(a, L, B)
  BY StateFacts
<1>4. Effect(a, x, b)
  <2>1. a.must \subseteq LocalPlaces
    BY LocalFacts DEF Base, St
  <2>2. QED
    BY <2>1 DEF Effect, ReleaseEffect, St
<1>5. x.op # "guard" /\ x.op \notin CallParts
  BY DEF CallParts
<1> HIDE DEF x, a, b
<1>6. Leads(L, B, <<x>>, a, b)
  BY <1>2, <1>3, <1>4, <1>5, OneLeads
<1>7. QED
  BY <1>6 DEF Release, Do, x, a, b

(* What is thrown never comes back *)
LEMMA ThrowLeads ==
  ASSUME NEW L, NEW B, Base(L, B), NEW X \in SUBSET Names, NEW U \in SUBSET Names,
         NEW b \in Knowledge
  PROVE  Leads(L, B, Throw(L), St(L, B, X, U), b)
<1> DEFINE x == [op |-> "throw", to |-> <<L, "obj">>, from |-> <<L, "obj">>]
           a == St(L, B, X, U)
<1>1. <<L, "obj">> \in Holders
  BY LocalFacts DEF Base, Names, Raws
<1>2. x \in Op
  BY <1>1 DEF Op, Basics
<1>3. a \in Knowledge /\ LowIn(a, L, B)
  BY StateFacts
<1>4. Effect(a, x, b)
  BY DEF Effect
<1>5. x.op # "guard" /\ x.op \notin CallParts
  BY DEF CallParts
<1> HIDE DEF x, a
<1>6. Leads(L, B, <<x>>, a, b)
  BY <1>2, <1>3, <1>4, <1>5, OneLeads
<1>7. QED
  BY <1>6 DEF Throw, Do, x, a

(* Two references of one level are exchanged *)
LEMMA SwapLeads ==
  ASSUME NEW L, NEW B, Base(L, B), NEW X \in SUBSET Names, NEW U \in SUBSET X,
         NEW v \in U, NEW w \in U, v # w
  PROVE  Leads(L, B, Swap(<<L, v>>, <<L, w>>), St(L, B, X, U), St(L, B, X, U \ {w}))
<1> DEFINE x == [op |-> "swap", to |-> <<L, v>>, from |-> <<L, w>>]
           a == St(L, B, X, U)
           b == St(L, B, X, U \ {w})
<1>1. /\ <<L, v>> \in LocalPlaces /\ <<L, w>> \in LocalPlaces
      /\ LocalPlaces \subseteq Holders /\ LocalPlaces \subseteq Roots
  BY LocalFacts DEF Base
<1>2. x \in Op
  BY <1>1 DEF Op, Basics
<1>3. U \in SUBSET Names /\ U \ {w} \in SUBSET Names
  OBVIOUS
<1>4. /\ a \in Knowledge /\ b \in Knowledge /\ LowIn(a, L, B)
      /\ <<L, v>> \in a.may /\ <<L, w>> \in a.may /\ <<L, w>> \in a.must
  BY <1>3, StateFacts
<1>5. Effect(a, x, b)
  <2>1. a.may = b.may /\ ~a.new
    BY DEF St
  <2>2. b.must \subseteq (a.must \ {<<L, v>>, <<L, w>>}) \cup {<<L, v>>}
    BY DEF St
  <2>3. <<L, v>> # <<L, w>>
    OBVIOUS
  <2>4. x.op = "swap" /\ x.to = <<L, v>> /\ x.from = <<L, w>>
    OBVIOUS
  <2> HIDE DEF x, a, b
  <2>5. SwapEffect(a, x, b)
    BY <1>1, <1>4, <2>1, <2>2, <2>3, <2>4 DEF SwapEffect
  <2>6. QED
    BY <2>4, <2>5 DEF Effect
<1>6. x.op # "guard" /\ x.op \notin CallParts
  BY DEF CallParts
<1> HIDE DEF x, a, b
<1>7. Leads(L, B, <<x>>, a, b)
  BY <1>2, <1>4, <1>5, <1>6, OneLeads
<1>8. QED
  BY <1>7 DEF Swap, Do, x, a, b

-----------------------------------------------------------------------------
(* The steps a call on one level is made of *)

(* A raw pointer's reference is acquired *)
LEMMA AcquireLeads ==
  ASSUME NEW L, NEW B, Base(L, B), NEW X \in SUBSET Names, NEW U \in SUBSET Names,
         NEW v \in Names \ X, NEW raw \in Names \ {v},
         NEW Y \in SUBSET Names, NEW V \in SUBSET Names,
         (X \ {raw}) \cup {v} \subseteq Y,
         V \subseteq (U \ {raw}) \cup (IF raw \in U THEN {v} ELSE {}),
         raw \in {"br_name", "br_res"} => raw \in U
  PROVE  Leads(L, B, Acquire(<<L, v>>, <<L, raw>>), St(L, B, X, U), St(L, B, Y, V))
<1> DEFINE X1 == X \cup {v}
           U1 == U \cup (IF raw \in U THEN {v} ELSE {})
<1>1. X1 \in SUBSET Names /\ U1 \in SUBSET Names
  OBVIOUS
<1>2. Leads(L, B, Copy(<<L, v>>, <<L, raw>>), St(L, B, X, U), St(L, B, X1, U1))
  BY <1>1, CopyLeads
<1>3. X1 \ {raw} \subseteq Y /\ V \subseteq U1 \ {raw}
  OBVIOUS
<1> HIDE DEF X1, U1
<1>4. Leads(L, B, Release(<<L, raw>>), St(L, B, X1, U1), St(L, B, Y, V))
  BY <1>1, <1>3, ReleaseLeads
<1>5. QED
  BY <1>2, <1>4, ComposeLeads DEF Acquire

(* The new object is given to a variable *)
LEMMA AcquireFreshLeads ==
  ASSUME NEW L, NEW B, Base(L, B), NEW X \in SUBSET Names, NEW U \in SUBSET Names,
         NEW F \in SUBSET Members, NEW v \in Refs \ X, "obj" \notin X,
         NEW Y \in SUBSET Names, NEW V \in SUBSET Names,
         X \cup {v} \subseteq Y, V \subseteq (U \ {"obj"}) \cup {v}
  PROVE  Leads(L, B, AcquireFresh(L, v), StNew(L, B, X, U, F), St(L, B, Y, V))
<1> DEFINE X1 == X \cup {"obj"}
           U1 == U \cup {"obj"}
<1>1. X1 \in SUBSET Names /\ U1 \in SUBSET Names /\ v \in Names \ X1 /\ "obj" \in Names \ {v}
  BY DEF Names, Raws, Refs
<1>2. Leads(L, B, Do("own", <<L, "obj">>, <<L, "obj">>), StNew(L, B, X, U, F), St(L, B, X1, U1))
  BY OwnLeads
<1>3. /\ (X1 \ {"obj"}) \cup {v} \subseteq Y /\ V \subseteq (U1 \ {"obj"}) \cup {v}
      /\ "obj" \in U1
  OBVIOUS
<1> HIDE DEF X1, U1
<1>4. Leads(L, B, Acquire(<<L, v>>, <<L, "obj">>), St(L, B, X1, U1), St(L, B, Y, V))
  BY <1>1, <1>3, AcquireLeads
<1>5. QED
  BY <1>2, <1>4, ComposeLeads DEF AcquireFresh

(* make_ref *)
LEMMA MakeRefLeads ==
  ASSUME NEW L, NEW B, Base(L, B), NEW X \in SUBSET Names, NEW U \in SUBSET Names,
         NEW v \in Refs \ X, "obj" \notin X,
         NEW Y \in SUBSET Names, NEW V \in SUBSET Names,
         X \cup {v} \subseteq Y, V \subseteq (U \ {"obj"}) \cup {v}
  PROVE  Leads(L, B, MakeRef(L, v), St(L, B, X, U), St(L, B, Y, V))
<1>1. Leads(L, B, MakeUnique(L), St(L, B, X, U), StNew(L, B, X, U, {}))
  BY MakeUniqueLeads
<1>2. Leads(L, B, AcquireFresh(L, v), StNew(L, B, X, U, {}), St(L, B, Y, V))
  BY AcquireFreshLeads
<1>3. QED
  BY <1>1, <1>2, ComposeLeads DEF MakeRef

(* out = make_string(...).do_return() *)
LEMMA MakeStringLeads ==
  ASSUME NEW L, NEW B, Base(L, B), NEW X \in SUBSET Names, NEW U \in SUBSET Names,
         NEW out \in Raws \ X, out # "obj", "obj" \notin X, "str" \notin X,
         NEW Y \in SUBSET Names, NEW V \in SUBSET Names,
         X \cup {out} \subseteq Y, V \subseteq (U \ {"obj", "str"}) \cup {out}
  PROVE  Leads(L, B, MakeString(L, out), St(L, B, X, U), St(L, B, Y, V))
<1> DEFINE X1 == X \cup {"str"}
           U1 == (U \ {"obj"}) \cup {"str"}
           X2 == X1 \cup {out}
           U2 == U1 \cup {out}
<1>1. /\ X1 \in SUBSET Names /\ U1 \in SUBSET Names
      /\ X2 \in SUBSET Names /\ U2 \in SUBSET Names
      /\ "str" \in Refs \ X /\ "str" \in Names /\ out \in Names \ X1
      /\ "str" \notin {"br_name", "br_res"} /\ out # "str"
  BY DEF Names, Raws, Refs
<1>2. Leads(L, B, MakeRef(L, "str"), St(L, B, X, U), St(L, B, X1, U1))
  BY <1>1, MakeRefLeads
<1>3. /\ X1 \cup {out} \subseteq X2
      /\ U2 \subseteq U1 \cup (IF "str" \in U1 THEN {out} ELSE {})
  OBVIOUS
<1>4. X2 \ {"str"} \subseteq Y /\ V \subseteq U2 \ {"str"}
  BY <1>1
<1> HIDE DEF X1, U1, X2, U2
<1>5. Leads(L, B, DoReturn(<<L, out>>, <<L, "str">>), St(L, B, X1, U1), St(L, B, X2, U2))
  BY <1>1, <1>3, CopyLeads DEF DoReturn
<1>6. Leads(L, B, Release(<<L, "str">>), St(L, B, X2, U2), St(L, B, Y, V))
  BY <1>1, <1>4, ReleaseLeads
<1>7. Leads(L, B, MakeRef(L, "str") \o DoReturn(<<L, out>>, <<L, "str">>),
            St(L, B, X, U), St(L, B, X2, U2))
  BY <1>2, <1>5, ComposeLeads
<1>8. QED
  BY <1>6, <1>7, ComposeLeads DEF MakeString

(* A nested call, whose result goes to a variable of its caller *)
LEMMA NestedLeads ==
  ASSUME NEW L, NEW B, Base(L, B), L # MaxLevel, NEW X \in SUBSET Names, NEW U \in SUBSET Names,
         NEW op \in {"format", "child"}, NEW from \in Holders, NEW v \in Refs \ X,
         NEW Y \in SUBSET Names, NEW V \in SUBSET Names,
         X \cup {v} \subseteq Y, V \subseteq {v}
  PROVE  Leads(L, B, Nested(L, op, from, v), St(L, B, X, U), St(L, B, Y, V))
<1> DEFINE K == L + 1
           fval == <<K, "fval">>
           to == <<L, v>>
           x == [op |-> op, to |-> fval, from |-> from]
           y == [op |-> "swap", to |-> to, from |-> fval]
           a == St(L, B, X, U)
           b == [may |-> a.may \cup {fval}, must |-> {fval}, new |-> FALSE]
           c == St(L, B, Y, V)
<1>1. L \in Nat /\ K \in Levels /\ L < K /\ K - 1 = L /\ ~(K < L)
  BY RefCountedAssumption DEF Base, Levels
<1>2. /\ fval \in LocalPlaces /\ to \in LocalPlaces /\ fval # to
      /\ LocalPlaces \subseteq Holders /\ LocalPlaces \subseteq Roots
  <2>1. "fval" \in Names /\ v \in Names /\ L \in Levels
    BY DEF Names, Refs, Base
  <2>2. QED
    BY <1>1, <2>1, LocalFacts
<1>3. a \in Knowledge /\ c \in Knowledge /\ LowIn(a, L, B) /\ UpTo(a, L) /\ ~a.new /\ to \notin a.may
  BY StateFacts
<1>4. b \in Knowledge
  BY <1>2, <1>3 DEF Knowledge
<1>5. x \in Op /\ y \in Op
  <2>1. fval \in Levels \X {"fval"}
    BY <1>1
  <2>2. x \in Parts
    BY <2>1 DEF Parts
  <2>3. y \in Basics
    BY <1>2 DEF Basics
  <2>4. QED
    BY <2>2, <2>3 DEF Op
<1>6. /\ a.may \cup {to} \subseteq c.may /\ c.must \subseteq {to} /\ ~c.new
  BY DEF St
<1>7. /\ x.op = op /\ x.to = fval /\ x.to[1] = K /\ y.op = "swap" /\ y.to = to /\ y.from = fval
      /\ b.may = a.may \cup {fval} /\ b.must = {fval} /\ ~b.new
  OBVIOUS
<1> HIDE DEF x, y, a, b, c
<1>8. Effect(a, x, b)
  <2>1. CallEffect(a, x, b)
    BY <1>1, <1>3, <1>7 DEF CallEffect
  <2>2. QED
    BY <1>7, <2>1 DEF Effect
<1>9. Effect(b, y, c)
  <2>1. SwapEffect(b, y, c)
    BY <1>2, <1>3, <1>6, <1>7 DEF SwapEffect
  <2>2. QED
    BY <1>7, <2>1 DEF Effect
<1>10. LowIn(b, L, B)
  BY <1>1, <1>3, <1>7 DEF LowIn
<1>11. Leads(L, B, <<x>>, a, b)
  <2>1. x.op # "guard" /\ x.to[1] >= L
    BY <1>1, <1>7
  <2>2. QED
    BY <1>3, <1>4, <1>5, <1>8, <2>1, OneLeads
<1>12. Leads(L, B, <<y>>, b, c)
  <2>1. y.op # "guard" /\ y.op \notin CallParts
    BY <1>7 DEF CallParts
  <2>2. QED
    BY <1>3, <1>4, <1>5, <1>9, <1>10, <2>1, OneLeads
<1>13. Leads(L, B, <<x>> \o <<y>>, a, c)
  BY <1>11, <1>12, ComposeLeads
<1>14. QED
  BY <1>13 DEF Nested, Do, Swap, x, y, a, c

(* The parts that are decided when they are reached *)
LEMMA WrapPartLeads ==
  ASSUME NEW L, NEW B, Base(L, B)
  PROVE  Leads(L, B, Part(L, "wrap"), St(L, B, {"fval"}, {"fval"}), St(L, B, {"fval"}, {"fval"}))
<1> DEFINE fval == <<L, "fval">>
           x == [op |-> "wrap", to |-> fval, from |-> fval]
           a == St(L, B, {"fval"}, {"fval"})
<1>1. {"fval"} \in SUBSET Names
  BY DEF Names, Refs
<1>2. a \in Knowledge /\ LowIn(a, L, B) /\ UpTo(a, L) /\ ~a.new
  BY <1>1, StateFacts
<1>3. a.may = B \cup {fval} /\ a.must = {fval}
  BY DEF St
<1>4. L \in Levels /\ L \in Nat /\ \A h \in B : h[1] # L
  BY LocalFacts DEF Base
<1>5. x \in Op
  <2>1. fval \in Levels \X {"fval"} /\ fval \in Holders
    BY <1>1, <1>4, LocalFacts
  <2>2. QED
    BY <2>1 DEF Op, Parts
<1>6. x.op = "wrap" /\ x.to = fval /\ fval[1] = L
  OBVIOUS
<1> HIDE DEF x, a
<1>7. WrapEffect(a, x, a)
  BY <1>2, <1>3, <1>4, <1>6 DEF WrapEffect
<1>8. Effect(a, x, a)
  BY <1>6, <1>7 DEF Effect
<1>9. Leads(L, B, <<x>>, a, a)
  BY <1>2, <1>4, <1>5, <1>6, <1>8, OneLeads
<1>10. QED
  BY <1>9 DEF Part, Do, x, a

(* The position of a child: br_pos_file may get a string *)
LEMMA PosFilePartLeads ==
  ASSUME NEW L, NEW B, Base(L, B), NEW X \in SUBSET Names, NEW U \in SUBSET Names,
         "br_pos_file" \notin X, "str" \notin X, "obj" \notin X,
         NEW Y \in SUBSET Names, NEW V \in SUBSET (U \cap X),
         X \cup {"br_pos_file"} \subseteq Y
  PROVE  Leads(L, B, Part(L, "pos_file"), St(L, B, X, U), St(L, B, Y, V))
<1> DEFINE fval == <<L, "fval">>
           x == [op |-> "pos_file", to |-> fval, from |-> fval]
           a == St(L, B, X, U)
           b == St(L, B, Y, V)
<1>1. "fval" \in Names /\ V \in SUBSET Names
  BY DEF Names, Refs
<1>2. /\ a \in Knowledge /\ LowIn(a, L, B) /\ UpTo(a, L) /\ ~a.new /\ b \in Knowledge
      /\ \A v : <<L, v>> \in a.may <=> v \in X
  BY <1>1, StateFacts
<1>3. /\ a.may \cup {<<L, "br_pos_file">>} \subseteq b.may
      /\ b.must \subseteq {h \in a.must \cap a.may : h[1] = L}
  BY DEF St
<1>4. L \in Levels /\ L \in Nat
  BY LocalFacts DEF Base
<1>5. x \in Op
  <2>1. fval \in Levels \X {"fval"} /\ fval \in Holders
    BY <1>1, <1>4, LocalFacts
  <2>2. QED
    BY <2>1 DEF Op, Parts
<1>6. x.op = "pos_file" /\ x.to[1] = L
  OBVIOUS
<1> HIDE DEF x, a, b
<1>7. PosFileEffect(a, x, b)
  BY <1>2, <1>3, <1>6 DEF PosFileEffect
<1>8. Effect(a, x, b)
  BY <1>6, <1>7 DEF Effect
<1>9. Leads(L, B, <<x>>, a, b)
  BY <1>2, <1>4, <1>5, <1>6, <1>8, OneLeads
<1>10. QED
  BY <1>9 DEF Part, Do, x, a, b

(* Reading a position changes no reference *)
LEMMA ReadPartLeads ==
  ASSUME NEW L, NEW B, Base(L, B), NEW X \in SUBSET Names, NEW U \in SUBSET Names
  PROVE  Leads(L, B, Part(L, "read"), St(L, B, X, U), St(L, B, X, U))
<1> DEFINE fval == <<L, "fval">>
           x == [op |-> "read", to |-> fval, from |-> fval]
           a == St(L, B, X, U)
<1>1. a \in Knowledge /\ LowIn(a, L, B)
  BY StateFacts
<1>2. L \in Levels /\ L \in Nat /\ "fval" \in Names
  BY LocalFacts DEF Base, Names, Refs
<1>3. x \in Op
  <2>1. fval \in Levels \X {"fval"} /\ fval \in Holders
    BY <1>2, LocalFacts
  <2>2. QED
    BY <2>1 DEF Op, Parts
<1>4. x.op = "read" /\ x.to[1] = L
  OBVIOUS
<1> HIDE DEF x, a
<1>5. Effect(a, x, a)
  BY <1>4 DEF Effect, ReadEffect, Weaker
<1>6. Leads(L, B, <<x>>, a, a)
  BY <1>1, <1>2, <1>3, <1>4, <1>5, OneLeads
<1>7. QED
  BY <1>6 DEF Part, Do, x, a
-----------------------------------------------------------------------------
(* What calls do with the variables of their level *)

(* A variable is released while an object is under construction *)
LEMMA ReleaseNewLeads ==
  ASSUME NEW L, NEW B, Base(L, B), NEW X \in SUBSET Names, NEW U \in SUBSET Names,
         NEW F \in SUBSET Members, NEW v \in Names
  PROVE  Leads(L, B, Release(<<L, v>>), StNew(L, B, X, U, F), StNew(L, B, X \ {v}, U \ {v}, F))
<1> DEFINE x == [op |-> "release", to |-> <<L, v>>, from |-> <<L, v>>]
           a == StNew(L, B, X, U, F)
           b == StNew(L, B, X \ {v}, U \ {v}, F)
<1>1. <<L, v>> \in Holders
  BY LocalFacts DEF Base
<1>2. x \in Op
  BY <1>1 DEF Op, Basics
<1>3. a \in Knowledge /\ b \in Knowledge /\ LowIn(a, L, B)
  BY StateNewKnown
<1>4. Effect(a, x, b)
  <2>1. a.must \subseteq LocalPlaces
    BY LocalFacts DEF Base, StNew
  <2>2. QED
    BY <2>1 DEF Effect, ReleaseEffect, StNew
<1>5. x.op # "guard" /\ x.op \notin CallParts
  BY DEF CallParts
<1> HIDE DEF x, a, b
<1>6. Leads(L, B, <<x>>, a, b)
  BY <1>2, <1>3, <1>4, <1>5, OneLeads
<1>7. QED
  BY <1>6 DEF Release, Do, x, a, b

(* A nested call of try_format *)
LEMMA FormatNestedLeads ==
  ASSUME NEW L, NEW B, Base(L, B), L # MaxLevel, NEW v \in Refs
  PROVE  Leads(L, B, FormatNested(L, v), St(L, B, {}, {}), St(L, B, {v}, {v}))
<1>1. {} \in SUBSET Names /\ {v} \in SUBSET Names /\ v \in Refs \ {} /\ v \in Names
  BY DEF Names
<1>2. <<L, v>> \in Holders
  BY <1>1, LocalFacts DEF Base
<1>3. {} \cup {v} \subseteq {v} /\ {v} \subseteq {v}
  OBVIOUS
<1>4. QED
  BY <1>1, <1>2, <1>3, NestedLeads DEF FormatNested

(* A formatter that shows the children of its argument *)
LEMMA ChildResultLeads ==
  ASSUME NEW L, NEW B, Base(L, B), L # MaxLevel
  PROVE  Leads(L, B, FormatNested(L, "ffptr") \o Nested(L, "child", <<L, "ffptr">>, "ch")
                       \o Release(<<L, "ch">>) \o MakeRef(L, "res") \o Release(<<L, "ffptr">>),
               St(L, B, {}, {}), St(L, B, {"res"}, {"res"}))
<1> DEFINE F == {"ffptr"}
           C == {"ffptr", "ch"}
           R == {"ffptr", "res"}
           E == {"res"}
<1>1. /\ F \in SUBSET Names /\ C \in SUBSET Names /\ R \in SUBSET Names /\ E \in SUBSET Names
      /\ {} \in SUBSET Names /\ "ffptr" \in Names /\ "ch" \in Names /\ "ffptr" \in Refs
      /\ "ch" \in Refs \ F /\ "res" \in Refs \ F /\ "obj" \notin F
  BY DEF Names, Raws, Refs
<1>2. <<L, "ffptr">> \in Holders
  BY <1>1, LocalFacts DEF Base
<1>3. /\ F \cup {"ch"} \subseteq C /\ {} \subseteq {"ch"} /\ C \ {"ch"} \subseteq F
      /\ {} \subseteq {} \ {"ch"} /\ F \cup {"res"} \subseteq R /\ E \subseteq ({} \ {"obj"}) \cup {"res"}
      /\ R \ {"ffptr"} \subseteq E /\ E \subseteq E \ {"ffptr"}
  OBVIOUS
<1>4. Leads(L, B, FormatNested(L, "ffptr"), St(L, B, {}, {}), St(L, B, F, F))
  BY <1>1, FormatNestedLeads
<1> HIDE DEF F, C, R, E
<1>5. Leads(L, B, Nested(L, "child", <<L, "ffptr">>, "ch"), St(L, B, F, F), St(L, B, C, {}))
  BY <1>1, <1>2, <1>3, NestedLeads
<1>6. Leads(L, B, Release(<<L, "ch">>), St(L, B, C, {}), St(L, B, F, {}))
  BY <1>1, <1>3, ReleaseLeads
<1>7. Leads(L, B, MakeRef(L, "res"), St(L, B, F, {}), St(L, B, R, E))
  BY <1>1, <1>3, MakeRefLeads
<1>8. Leads(L, B, Release(<<L, "ffptr">>), St(L, B, R, E), St(L, B, E, E))
  BY <1>1, <1>3, ReleaseLeads
<1>9. QED
  BY <1>4, <1>5, <1>6, <1>7, <1>8, ComposeLeads DEF E

(* One that shows what its argument points to *)
LEMMA PointeeResultLeads ==
  ASSUME NEW L, NEW B, Base(L, B), L # MaxLevel
  PROVE  Leads(L, B, FormatNested(L, "pointee_fval")
                       \o MakeUnique(L) \o Copy(<<Fresh, "pointee_fval">>, <<L, "pointee_fval">>)
                       \o Release(<<L, "pointee_fval">>) \o AcquireFresh(L, "res"),
               St(L, B, {}, {}), St(L, B, {"res"}, {"res"}))
<1> DEFINE P == {"pointee_fval"}
           G == {} \cup {"pointee_fval"}
           E == {"res"}
           N == P \ {"pointee_fval"}
<1>1. /\ P \in SUBSET Names /\ E \in SUBSET Names /\ N \in SUBSET Names /\ G \in SUBSET Members
      /\ {} \in SUBSET Names /\ {} \in SUBSET Members /\ "pointee_fval" \in Members \ {}
      /\ "pointee_fval" \in Refs /\ "pointee_fval" \in Names /\ "res" \in Refs \ N /\ "obj" \notin N
  BY DEF Names, Raws, Refs, Members
<1>2. N \cup {"res"} \subseteq E /\ E \subseteq (N \ {"obj"}) \cup {"res"}
  OBVIOUS
<1>3. Leads(L, B, FormatNested(L, "pointee_fval"), St(L, B, {}, {}), St(L, B, P, P))
  BY <1>1, FormatNestedLeads
<1>4. Leads(L, B, Copy(<<Fresh, "pointee_fval">>, <<L, "pointee_fval">>),
            StNew(L, B, P, P, {}), StNew(L, B, P, P, G))
  BY <1>1, CopyNewLeads
<1>5. Leads(L, B, Release(<<L, "pointee_fval">>), StNew(L, B, P, P, G), StNew(L, B, N, N, G))
  BY <1>1, ReleaseNewLeads
<1> HIDE DEF P, G, E, N
<1>6. Leads(L, B, MakeUnique(L), St(L, B, P, P), StNew(L, B, P, P, {}))
  BY <1>1, MakeUniqueLeads
<1>7. Leads(L, B, AcquireFresh(L, "res"), StNew(L, B, N, N, G), St(L, B, E, E))
  BY <1>1, <1>2, AcquireFreshLeads
<1>8. QED
  BY <1>3, <1>4, <1>5, <1>6, <1>7, ComposeLeads DEF E

(* One that makes a proxy around a record, with its [target] *)
LEMMA RecordResultLeads ==
  ASSUME NEW L, NEW B, Base(L, B), L # MaxLevel
  PROVE  Leads(L, B, FormatNested(L, "ffptr") \o MakeRef(L, "record")
                       \o MakeUnique(L) \o Copy(<<Fresh, "orig_res">>, <<L, "record">>)
                       \o Copy(<<Fresh, "target">>, <<L, "ffptr">>) \o AcquireFresh(L, "res")
                       \o Release(<<L, "record">>) \o Release(<<L, "ffptr">>),
               St(L, B, {}, {}), St(L, B, {"res"}, {"res"}))
<1> DEFINE F == {"ffptr"}
           T == {"ffptr", "record"}
           G == {} \cup {"orig_res"}
           H == G \cup {"target"}
           R == {"ffptr", "record", "res"}
           Q == {"ffptr", "res"}
           E == {"res"}
<1>1. /\ F \in SUBSET Names /\ T \in SUBSET Names /\ R \in SUBSET Names /\ Q \in SUBSET Names
      /\ E \in SUBSET Names /\ G \in SUBSET Members
      /\ {} \in SUBSET Names /\ {} \in SUBSET Members
      /\ "orig_res" \in Members \ {} /\ "target" \in Members \ G
      /\ "ffptr" \in Refs /\ "ffptr" \in Names /\ "record" \in Refs /\ "record" \in Names
      /\ "record" \in Refs \ F /\ "obj" \notin F /\ "res" \in Refs \ T /\ "obj" \notin T
  BY DEF Names, Raws, Refs, Members
<1>2. /\ F \cup {"record"} \subseteq T /\ E \subseteq {"res"}
      /\ {"record"} \subseteq (F \ {"obj"}) \cup {"record"} /\ {"record"} \in SUBSET Names
      /\ T \cup {"res"} \subseteq R /\ E \subseteq ({"record"} \ {"obj"}) \cup {"res"}
      /\ R \ {"record"} \subseteq Q /\ E \subseteq E \ {"record"}
      /\ Q \ {"ffptr"} \subseteq E /\ E \subseteq E \ {"ffptr"}
  BY DEF Names, Refs
<1>3. Leads(L, B, FormatNested(L, "ffptr"), St(L, B, {}, {}), St(L, B, F, F))
  BY <1>1, FormatNestedLeads
<1>4. Leads(L, B, Copy(<<Fresh, "orig_res">>, <<L, "record">>),
            StNew(L, B, T, {"record"}, {}), StNew(L, B, T, {"record"}, G))
  BY <1>1, <1>2, CopyNewLeads
<1>5. Leads(L, B, Copy(<<Fresh, "target">>, <<L, "ffptr">>),
            StNew(L, B, T, {"record"}, G), StNew(L, B, T, {"record"}, H))
  BY <1>1, <1>2, CopyNewLeads
<1>6. H \in SUBSET Members
  BY DEF Members
<1> HIDE DEF F, T, G, H, R, Q, E
<1>7. Leads(L, B, MakeRef(L, "record"), St(L, B, F, F), St(L, B, T, {"record"}))
  BY <1>1, <1>2, MakeRefLeads
<1>8. Leads(L, B, MakeUnique(L), St(L, B, T, {"record"}), StNew(L, B, T, {"record"}, {}))
  BY <1>1, <1>2, MakeUniqueLeads
<1>9. Leads(L, B, AcquireFresh(L, "res"), StNew(L, B, T, {"record"}, H), St(L, B, R, E))
  BY <1>1, <1>2, <1>6, AcquireFreshLeads
<1>10. Leads(L, B, Release(<<L, "record">>), St(L, B, R, E), St(L, B, Q, E))
  BY <1>1, <1>2, ReleaseLeads
<1>11. Leads(L, B, Release(<<L, "ffptr">>), St(L, B, Q, E), St(L, B, E, E))
  BY <1>1, <1>2, ReleaseLeads
<1>12. Leads(L, B, FormatNested(L, "ffptr") \o MakeRef(L, "record") \o MakeUnique(L),
             St(L, B, {}, {}), StNew(L, B, T, {"record"}, {}))
  BY <1>3, <1>7, <1>8, ComposeLeads
<1>13. Leads(L, B, FormatNested(L, "ffptr") \o MakeRef(L, "record") \o MakeUnique(L)
                     \o Copy(<<Fresh, "orig_res">>, <<L, "record">>)
                     \o Copy(<<Fresh, "target">>, <<L, "ffptr">>) \o AcquireFresh(L, "res"),
             St(L, B, {}, {}), St(L, B, R, E))
  BY <1>4, <1>5, <1>9, <1>12, ComposeLeads
<1>14. QED
  BY <1>10, <1>11, <1>13, ComposeLeads DEF E

(* formatter::format leaves its result in res *)
LEMMA ResultLeads ==
  ASSUME NEW L, NEW B, Base(L, B), NEW r \in Results(L)
  PROVE  Leads(L, B, r, St(L, B, {}, {}), St(L, B, {"res"}, {"res"}))
<1>1. /\ {} \in SUBSET Names /\ {"res"} \in SUBSET Names /\ "res" \in Refs /\ "res" \in Refs \ {}
      /\ {} \cup {"res"} \subseteq {"res"} /\ {"res"} \subseteq ({} \ {"obj"}) \cup {"res"}
      /\ "obj" \notin {}
  BY DEF Names, Refs
<1>2. Leads(L, B, MakeRef(L, "res"), St(L, B, {}, {}), St(L, B, {"res"}, {"res"}))
  BY <1>1, MakeRefLeads
<1>3. L # MaxLevel => Leads(L, B, FormatNested(L, "res"), St(L, B, {}, {}), St(L, B, {"res"}, {"res"}))
  BY <1>1, FormatNestedLeads
<1>4. QED
  BY <1>2, <1>3, ChildResultLeads, PointeeResultLeads, RecordResultLeads DEF Results

(* A format_error leaves the formatter with its variables destroyed *)
LEMMA FailureLeads ==
  ASSUME NEW L, NEW B, Base(L, B), NEW f \in Failures(L)
  PROVE  Leads(L, B, f, St(L, B, {}, {}), St(L, B, {}, {}))
<1>1. /\ {} \in SUBSET Names /\ {"ffptr"} \in SUBSET Names /\ "ffptr" \in Refs /\ "ffptr" \in Names
      /\ {"ffptr"} \ {"ffptr"} \subseteq {} /\ {} \subseteq {"ffptr"} \ {"ffptr"}
  BY DEF Names, Refs
<1>2. Leads(L, B, <<>>, St(L, B, {}, {}), St(L, B, {}, {}))
  <2>1. St(L, B, {}, {}) \in Knowledge
    BY <1>1, StateFacts
  <2>2. QED
    BY <2>1, NoneLeads DEF Weaker
<1>3. CASE f = <<>>
  BY <1>2, <1>3
<1>4. CASE L # MaxLevel /\ f = FormatNested(L, "ffptr") \o Release(<<L, "ffptr">>)
  <2>1. Leads(L, B, FormatNested(L, "ffptr"), St(L, B, {}, {}), St(L, B, {"ffptr"}, {"ffptr"}))
    BY <1>1, <1>4, FormatNestedLeads
  <2>2. Leads(L, B, Release(<<L, "ffptr">>), St(L, B, {"ffptr"}, {"ffptr"}), St(L, B, {}, {}))
    BY <1>1, ReleaseLeads
  <2>3. QED
    BY <1>4, <2>1, <2>2, ComposeLeads
<1>5. QED
  BY <1>3, <1>4 DEF Failures

(* A call that throws may be said to lead anywhere *)
LEMMA ThrowAnyLeads ==
  ASSUME NEW L, NEW B, L \in Levels, NEW a \in Knowledge, LowIn(a, L, B), NEW b \in Knowledge
  PROVE  Leads(L, B, Throw(L), a, b)
<1> DEFINE x == [op |-> "throw", to |-> <<L, "obj">>, from |-> <<L, "obj">>]
<1>1. <<L, "obj">> \in Holders
  BY LocalFacts DEF Names, Raws
<1>2. x \in Op
  BY <1>1 DEF Op, Basics
<1>3. Effect(a, x, b)
  BY DEF Effect
<1>4. x.op # "guard" /\ x.op \notin CallParts
  BY DEF CallParts
<1> HIDE DEF x
<1>5. Leads(L, B, <<x>>, a, b)
  BY <1>2, <1>3, <1>4, OneLeads
<1>6. QED
  BY <1>5 DEF Throw, Do, x

(* try_format leaves its result in fval *)
LEMMA FormatLeads ==
  ASSUME NEW L, NEW B, Base(L, B), NEW p \in FormatPlans(L)
  PROVE  Leads(L, B, p, St(L, B, {}, {}), St(L, B, {"fval"}, {"fval"}))
<1> DEFINE E == {"res"}
           O == {"obj", "res"}
           J == {"obj"}
           V == {"fval"}
<1>1. /\ E \in SUBSET Names /\ O \in SUBSET Names /\ J \in SUBSET Names /\ V \in SUBSET Names
      /\ {} \in SUBSET Names /\ "obj" \in Names \ E /\ "res" \in Names /\ "fval" \in Names \ J
      /\ "obj" \in Names \ {"fval"} /\ "fval" \in Refs \ {} /\ "obj" \notin {}
  BY DEF Names, Raws, Refs
<1>2. /\ E \cup {"obj"} \subseteq O /\ O \subseteq E \cup (IF "res" \in E THEN {"obj"} ELSE {})
      /\ O \ {"res"} \subseteq J /\ J \subseteq O \ {"res"}
      /\ (J \ {"obj"}) \cup {"fval"} \subseteq V
      /\ V \subseteq (J \ {"obj"}) \cup (IF "obj" \in J THEN {"fval"} ELSE {})
      /\ {} \cup {"fval"} \subseteq V /\ V \subseteq ({} \ {"obj"}) \cup {"fval"}
      /\ "res" \notin {"br_name", "br_res"} /\ "obj" \notin {"br_name", "br_res"}
  OBVIOUS
<1>3. Leads(L, B, Part(L, "wrap"), St(L, B, V, V), St(L, B, V, V))
  BY WrapPartLeads
<1>4. \A r \in Results(L) : Leads(L, B, r, St(L, B, {}, {}), St(L, B, E, E))
  BY ResultLeads
<1>5. \A f \in Failures(L) : Leads(L, B, f, St(L, B, {}, {}), St(L, B, {}, {}))
  BY FailureLeads
<1> HIDE DEF E, O, J, V
<1>6. Leads(L, B, BrFormat(L), St(L, B, E, E), St(L, B, J, J))
  <2>1. Leads(L, B, DoReturn(<<L, "obj">>, <<L, "res">>), St(L, B, E, E), St(L, B, O, O))
    BY <1>1, <1>2, CopyLeads DEF DoReturn
  <2>2. Leads(L, B, Release(<<L, "res">>), St(L, B, O, O), St(L, B, J, J))
    BY <1>1, <1>2, ReleaseLeads
  <2>3. QED
    BY <2>1, <2>2, ComposeLeads DEF BrFormat
<1>7. Leads(L, B, Acquire(<<L, "fval">>, <<L, "obj">>), St(L, B, J, J), St(L, B, V, V))
  BY <1>1, <1>2, AcquireLeads
<1>8. CASE \E r \in Results(L) :
              p = r \o BrFormat(L) \o Acquire(<<L, "fval">>, <<L, "obj">>) \o Part(L, "wrap")
  <2>1. PICK r \in Results(L) :
              p = r \o BrFormat(L) \o Acquire(<<L, "fval">>, <<L, "obj">>) \o Part(L, "wrap")
    BY <1>8
  <2>2. QED
    BY <1>3, <1>4, <1>6, <1>7, <2>1, ComposeLeads DEF V
<1>9. CASE \E f \in Failures(L) : p = f \o MakeRef(L, "fval") \o Part(L, "wrap")
  <2>1. PICK f \in Failures(L) : p = f \o MakeRef(L, "fval") \o Part(L, "wrap")
    BY <1>9
  <2>2. Leads(L, B, MakeRef(L, "fval"), St(L, B, {}, {}), St(L, B, V, V))
    BY <1>1, <1>2, MakeRefLeads
  <2>3. QED
    BY <1>3, <1>5, <2>1, <2>2, ComposeLeads DEF V
<1>10. CASE \E f \in Failures(L) : p = f \o Throw(L)
  <2>1. PICK f \in Failures(L) : p = f \o Throw(L)
    BY <1>10
  <2>2. St(L, B, V, V) \in Knowledge
    BY <1>1, StateFacts
  <2>3. Leads(L, B, Throw(L), St(L, B, {}, {}), St(L, B, V, V))
    BY <1>1, <2>2, ThrowLeads
  <2>4. QED
    BY <1>5, <2>1, <2>3, ComposeLeads DEF V
<1>11. QED
  BY <1>8, <1>9, <1>10 DEF FormatPlans

(* The [Raw Data] proxy takes the place of the result it wraps *)
LEMMA WrapLeads ==
  ASSUME NEW L, NEW B, Base(L, B), NEW p \in {<<>>, Wrap(L)}
  PROVE  Leads(L, B, p, St(L, B, {"fval"}, {"fval"}), St(L, B, {"fval"}, {"fval"}))
<1> DEFINE V == {"fval"}
           W == {"fval", "proxy"}
           G == {} \cup {"orig_res"}
           U == W \ {"proxy"}
<1>1. /\ V \in SUBSET Names /\ W \in SUBSET Names /\ U \in SUBSET Names /\ G \in SUBSET Members
      /\ {} \in SUBSET Members /\ "orig_res" \in Members \ {} /\ "fval" \in Refs /\ "fval" \in Names
      /\ "proxy" \in Names /\ "proxy" \in Refs \ V /\ "obj" \notin V
  BY DEF Names, Raws, Refs, Members
<1>2. /\ V \cup {"proxy"} \subseteq W /\ W \subseteq (V \ {"obj"}) \cup {"proxy"}
      /\ W \in SUBSET W /\ "fval" \in W /\ "proxy" \in W
      /\ W \ {"proxy"} \subseteq V /\ V \subseteq U \ {"proxy"}
  OBVIOUS
<1>3. Leads(L, B, Copy(<<Fresh, "orig_res">>, <<L, "fval">>),
            StNew(L, B, V, V, {}), StNew(L, B, V, V, G))
  BY <1>1, CopyNewLeads
<1>4. Leads(L, B, Swap(<<L, "fval">>, <<L, "proxy">>), St(L, B, W, W), St(L, B, W, U))
  BY <1>1, <1>2, SwapLeads
<1>5. St(L, B, V, V) \in Knowledge
  BY <1>1, StateFacts
<1> HIDE DEF V, W, G, U
<1>6. Leads(L, B, MakeUnique(L), St(L, B, V, V), StNew(L, B, V, V, {}))
  BY <1>1, MakeUniqueLeads
<1>7. Leads(L, B, AcquireFresh(L, "proxy"), StNew(L, B, V, V, G), St(L, B, W, W))
  BY <1>1, <1>2, AcquireFreshLeads
<1>8. Leads(L, B, Release(<<L, "proxy">>), St(L, B, W, U), St(L, B, V, V))
  BY <1>1, <1>2, ReleaseLeads
<1>9. Leads(L, B, Wrap(L), St(L, B, V, V), St(L, B, V, V))
  BY <1>3, <1>4, <1>6, <1>7, <1>8, ComposeLeads DEF Wrap
<1>10. Leads(L, B, <<>>, St(L, B, V, V), St(L, B, V, V))
  BY <1>5, NoneLeads DEF Weaker
<1>11. QED
  BY <1>9, <1>10 DEF V

(* Where the operations of a call of three are *)
LEMMA ThreePlaces ==
  ASSUME NEW x \in Op, NEW y \in Op, NEW z \in Op
  PROVE  LET p == <<x>> \o <<y>> \o <<z>> IN
         /\ Len(p) = 3 /\ p[1] = x /\ p[2] = y /\ p[3] = z /\ Plan(p)
         /\ \A k \in 1 .. Len(p) : k \in {1, 2, 3}
<1>1. PICK a, b, t : a = <<x>> /\ b = <<y>> /\ t = <<z>>
  OBVIOUS
<1>2. Plan(a) /\ Plan(b) /\ Plan(t)
  BY <1>1, Single
<1>3. /\ Len(a) = 1 /\ Len(b) = 1 /\ Len(t) = 1
      /\ a[1] = x /\ b[1] = y /\ t[1] = z
  BY <1>1
<1>4. PICK q : q = a \o b
  OBVIOUS
<1>5. Plan(q) /\ q[1] = x /\ q[2] = y /\ Len(q) = 2
  <2>1. /\ Plan(a \o b) /\ Len(a \o b) = Len(a) + Len(b)
        /\ \A k \in 1 .. Len(a) : (a \o b)[k] = a[k]
        /\ \A k \in 1 .. Len(b) : (a \o b)[Len(a) + k] = b[k]
    BY <1>2, JoinedPlaces
  <2>2. 1 \in 1 .. Len(a) /\ 1 \in 1 .. Len(b) /\ Len(a) + 1 = 2
    BY <1>3
  <2>3. QED
    BY <1>3, <1>4, <2>1, <2>2
<1>6. PICK p : p = q \o t
  OBVIOUS
<1>7. Plan(q)
  BY <1>5
<1>8. /\ Len(p) = 3 /\ p[1] = x /\ p[2] = y /\ p[3] = z /\ Plan(p)
      /\ \A k \in 1 .. Len(p) : k \in {1, 2, 3}
  <2>1. /\ Plan(q \o t) /\ Len(q \o t) = Len(q) + Len(t)
        /\ \A k \in 1 .. Len(q) : (q \o t)[k] = q[k]
        /\ \A k \in 1 .. Len(t) : (q \o t)[Len(q) + k] = t[k]
    BY <1>2, <1>7, JoinedPlaces
  <2>2. 1 \in 1 .. Len(q) /\ 2 \in 1 .. Len(q) /\ 1 \in 1 .. Len(t) /\ Len(q) + 1 = 3
    BY <1>3, <1>5
  <2>3. QED
    BY <1>3, <1>5, <1>6, <2>1, <2>2
<1>9. QED
  BY <1>1, <1>4, <1>6, <1>8

(* An element of a container, whose handler makes a result that says what  *)
(* was thrown                                                              *)
LEMMA GuardedRuns ==
  ASSUME NEW L, NEW B, Base(L, B), L # MaxLevel
  PROVE  Runs(L, B, Guarded(L), St(L, B, {}, {}), St(L, B, {"ch"}, {"ch"}))
<1> DEFINE K == L + 1
           fval == <<K, "fval">>
           ch == <<L, "ch">>
           x == [op |-> "format", to |-> fval, from |-> ch]
           y == [op |-> "swap", to |-> ch, from |-> fval]
           z == [op |-> "guard", to |-> <<L, "fval">>, from |-> <<L, "fval">>]
           a == St(L, B, {}, {})
           b == [may |-> a.may \cup {fval}, must |-> {fval}, new |-> FALSE]
           c == St(L, B, {"ch"}, {"ch"})
           p == <<x>> \o <<y>> \o <<z>>
           w == [k \in 1 .. 4 |-> IF k = 1 THEN a ELSE IF k = 2 THEN b ELSE c]
<1>1. L \in Nat /\ L \in Levels /\ K \in Levels /\ K \in Nat /\ L < K /\ K - 1 = L /\ ~(K < L)
  BY RefCountedAssumption DEF Base, Levels
<1>2. /\ fval \in LocalPlaces /\ ch \in LocalPlaces /\ <<L, "fval">> \in LocalPlaces /\ fval # ch
      /\ LocalPlaces \subseteq Holders /\ LocalPlaces \subseteq Roots
  <2>1. "fval" \in Names /\ "ch" \in Names
    BY DEF Names, Refs
  <2>2. QED
    BY <1>1, <2>1, LocalFacts
<1>3. /\ a \in Knowledge /\ c \in Knowledge /\ LowIn(a, L, B) /\ UpTo(a, L) /\ ~a.new
      /\ LowIn(c, L, B) /\ UpTo(c, L) /\ ~c.new
      /\ \A v : <<L, v>> \in a.may <=> v \in {}
  <2>1. {} \in SUBSET Names /\ {"ch"} \in SUBSET Names
    BY DEF Names, Refs
  <2>2. QED
    BY <2>1, StateFacts
<1>4. b \in Knowledge
  BY <1>2, <1>3 DEF Knowledge
<1>5. x \in Op /\ y \in Op /\ z \in Op
  <2>1. fval \in Levels \X {"fval"} /\ <<L, "fval">> \in Levels \X {"fval"}
    BY <1>1
  <2>2. x \in Parts /\ z \in Parts
    BY <1>2, <2>1 DEF Parts
  <2>3. y \in Basics
    BY <1>2 DEF Basics
  <2>4. QED
    BY <2>2, <2>3 DEF Op
<1>6. /\ a.may = B /\ a.must = {} /\ c.may = B \cup {ch} /\ c.must = {ch}
  BY DEF St
<1>7. \A h \in B : h \in LocalPlaces /\ h[1] < L /\ h # ch /\ h # fval /\ h[1] # L /\ h[1] \in Nat
  BY <1>1, LocalFacts DEF Base
<1>8. /\ x.op = "format" /\ x.to = fval /\ x.to[1] = K
      /\ y.op = "swap" /\ y.to = ch /\ y.from = fval
      /\ z.op = "guard" /\ z.to[1] = L
      /\ b.may = B \cup {fval} /\ b.must = {fval} /\ ~b.new
  BY <1>6
<1>9. /\ Len(p) = 3 /\ p[1] = x /\ p[2] = y /\ p[3] = z /\ Plan(p)
      /\ \A k \in 1 .. Len(p) : k \in {1, 2, 3}
  BY <1>5, ThreePlaces
<1>10. /\ w \in [1 .. Len(p) + 1 -> Knowledge]
       /\ w[1] = a /\ w[2] = b /\ w[3] = c /\ w[4] = c
  BY <1>3, <1>4, <1>9
<1>11. Guarded(L) = p
  BY DEF Guarded, FormatNested, Nested, Part, Do, Swap
<1> HIDE DEF p, w, x, y, z, a, b, c
<1>12. Effect(a, x, b)
  <2>1. CallEffect(a, x, b)
    BY <1>1, <1>3, <1>6, <1>8 DEF CallEffect
  <2>2. QED
    BY <1>8, <2>1 DEF Effect
<1>13. Effect(b, y, c)
  <2>1. SwapEffect(b, y, c)
    BY <1>2, <1>6, <1>7, <1>8 DEF SwapEffect
  <2>2. QED
    BY <1>8, <2>1 DEF Effect
<1>14. Effect(c, z, c)
  <2>1. \A h \in c.may : h[1] = L => h[2] = "ch"
    BY <1>6, <1>7
  <2>2. GuardEffect(c, z, c)
    BY <1>3, <1>6, <1>8, <2>1 DEF GuardEffect
  <2>3. QED
    BY <1>8, <2>2 DEF Effect
<1>15. Traces(p, w)
  BY <1>9, <1>10, <1>12, <1>13, <1>14 DEF Traces
<1>16. Catches(p, w)
  <2> SUFFICES ASSUME NEW i \in 1 .. Len(p), NEW j \in 1 .. Len(p),
                      j < i, p[i].op = "guard", Throws(p[j])
               PROVE  /\ LowIn(w[j], p[i].to[1] + 1, w[i].may \ {<<p[i].to[1], "ch">>})
                      /\ p[j].op \in CallParts => p[j].to[1] > p[i].to[1]
    BY DEF Catches
  <2>1. i = 3 /\ j = 1
    <3>1. i \in {1, 2, 3} /\ j \in {1, 2, 3}
      BY <1>9
    <3>2. i = 3
      BY <1>8, <1>9, <3>1
    <3>3. j # 2
      BY <1>8, <1>9 DEF Throws, CallParts
    <3>4. QED
      BY <3>1, <3>2, <3>3
  <2>2. B \subseteq c.may \ {ch}
    BY <1>6, <1>7
  <2>3. LowIn(a, K, c.may \ {ch})
    BY <1>6, <2>2 DEF LowIn
  <2>4. QED
    BY <1>1, <1>8, <1>9, <1>10, <2>1, <2>3 DEF ch
<1>17. Stays(L, B, p, w)
  <2> SUFFICES ASSUME NEW k \in 1 .. Len(p), Throws(p[k])
               PROVE  LowIn(w[k], L, B) /\ (p[k].op \in CallParts => p[k].to[1] >= L)
    BY DEF Stays
  <2>1. LowIn(b, L, B)
    BY <1>1, <1>3, <1>6, <1>8 DEF LowIn
  <2>2. k \in {1, 2, 3}
    BY <1>9
  <2>3. LowIn(w[k], L, B)
    BY <1>3, <1>10, <2>1, <2>2
  <2>4. p[k].op \in CallParts => p[k].to[1] >= L
    BY <1>1, <1>8, <1>9, <2>2 DEF CallParts
  <2>5. QED
    BY <2>3, <2>4
<1>18. Weaker(a, w[1]) /\ Weaker(w[Len(p) + 1], c)
  BY <1>9, <1>10 DEF Weaker
<1>19. Runs(L, B, p, a, c)
  BY <1>9, <1>15, <1>16, <1>17, <1>18 DEF Runs
<1>20. QED
  BY <1>11, <1>19 DEF a, c

(* What is known when child_at is called: the members that are references  *)
Begun(B) == [may |-> B, must |-> {h \in Objects \X Members : ptr[h] # Null}, new |-> FALSE]

(* A call that needs to know less can be made where more is known *)
LEMMA RunsKnowing ==
  ASSUME NEW L, NEW B, NEW p, NEW a, NEW b, NEW c, NEW d,
         Runs(L, B, p, b, c), Weaker(a, b), Weaker(c, d)
  PROVE  Runs(L, B, p, a, d)
BY WeakerTransitive DEF Runs

(* No variable of the level needs to be known *)
LEMMA BegunFacts ==
  ASSUME NEW L, NEW B, Base(L, B)
  PROVE  Begun(B) \in Knowledge /\ LowIn(Begun(B), L, B) /\ Weaker(Begun(B), St(L, B, {}, {}))
         /\ (\A v : <<L, v>> \notin Begun(B).may)
<1>1. B \subseteq LocalPlaces /\ L \in Levels /\ L \in Nat /\ \A h \in B : h[1] < L
  BY LocalFacts DEF Base
<1>2. Objects \X Members \subseteq Holders
  BY DEF Holders
<1>3. Begun(B) \in Knowledge
  BY <1>1, <1>2 DEF Begun, Knowledge
<1>4. LowIn(Begun(B), L, B)
  BY DEF Begun, LowIn
<1>5. Weaker(Begun(B), St(L, B, {}, {}))
  BY DEF Begun, St, Weaker
<1>6. \A v : <<L, v>> \notin Begun(B).may
  BY <1>1 DEF Begun
<1>7. QED
  BY <1>3, <1>4, <1>5, <1>6

(* A result that an object holds *)
LEMMA HeldLeads ==
  ASSUME NEW L, NEW B, Base(L, B), NEW o \in Objects, NEW m \in Members, ptr[<<o, m>>] # Null
  PROVE  Leads(L, B, Copy(<<L, "ch">>, <<o, m>>), Begun(B), St(L, B, {"ch"}, {"ch"}))
<1> DEFINE x == [op |-> "copy", to |-> <<L, "ch">>, from |-> <<o, m>>]
           a == Begun(B)
           b == St(L, B, {"ch"}, {"ch"})
<1>1. {"ch"} \in SUBSET Names /\ "ch" \in Names /\ L \in Levels
  BY DEF Names, Refs, Base
<1>2. /\ <<L, "ch">> \in LocalPlaces /\ <<L, "ch">> \in Places
      /\ <<o, m>> \in Holders /\ <<o, m>> \notin LocalPlaces
  <2>1. o \notin Levels
    BY RefCountedAssumption DEF Levels
  <2>2. QED
    BY <1>1, <2>1, LocalFacts, MemberHolders, HoldersArePlaces
<1>3. x \in Op
  BY <1>2 DEF Op, Copies
<1>4. a \in Knowledge /\ b \in Knowledge /\ LowIn(a, L, B) /\ <<L, "ch">> \notin a.may
  BY <1>1, BegunFacts, StateFacts
<1>5. /\ a.may = B /\ <<o, m>> \in a.must /\ ~a.new
      /\ b.may = B \cup {<<L, "ch">>} /\ b.must = {<<L, "ch">>}
  BY DEF Begun, St
<1>6. x.op = "copy" /\ x.to = <<L, "ch">> /\ x.from = <<o, m>>
  OBVIOUS
<1>7. x.op # "guard" /\ x.op \notin CallParts
  BY DEF CallParts
<1> HIDE DEF x, a, b
<1>8. CopyEffect(a, x, b)
  BY <1>2, <1>4, <1>5, <1>6 DEF CopyEffect
<1>9. Effect(a, x, b)
  BY <1>6, <1>8 DEF Effect
<1>10. Leads(L, B, <<x>>, a, b)
  BY <1>3, <1>4, <1>7, <1>9, OneLeads
<1>11. QED
  BY <1>10 DEF Copy, Do, x, a, b

(* child_at leaves the child in ch *)
LEMMA SourceRuns ==
  ASSUME NEW L, NEW B, Base(L, B), NEW o \in Objects, NEW s \in Sources(L, o)
  PROVE  Runs(L, B, s, Begun(B), St(L, B, {"ch"}, {"ch"}))
<1> DEFINE C == {"ch"}
           a == St(L, B, {}, {})
           b == St(L, B, C, C)
<1>1. /\ C \in SUBSET Names /\ {} \in SUBSET Names /\ "ch" \in Refs \ {} /\ "ch" \in Refs
      /\ "obj" \notin {} /\ {} \cup {"ch"} \subseteq C /\ C \subseteq ({} \ {"obj"}) \cup {"ch"}
      /\ C \subseteq {"ch"} /\ "child" \in {"format", "child"}
  BY DEF Names, Refs
<1>2. Weaker(Begun(B), a) /\ Weaker(b, b)
  BY BegunFacts DEF Weaker
<1>3. \A m \in Members : ptr[<<o, m>>] # Null => Leads(L, B, Copy(<<L, "ch">>, <<o, m>>), Begun(B), b)
  BY HeldLeads
<1>4. L # MaxLevel => Runs(L, B, Guarded(L), a, b)
  BY GuardedRuns
<1>5. L # MaxLevel => Leads(L, B, FormatNested(L, "ch"), a, b)
  BY <1>1, FormatNestedLeads
<1> HIDE DEF C
<1>6. Leads(L, B, MakeRef(L, "ch"), a, b)
  BY <1>1, MakeRefLeads
<1>7. \A m \in Members : L # MaxLevel => Leads(L, B, Nested(L, "child", <<o, m>>, "ch"), a, b)
  BY <1>1, MemberHolders, NestedLeads
<1> HIDE DEF a, b
<1>8. \A m \in Held(o, {"pointee_fval", "target"}) : m \in Members /\ ptr[<<o, m>>] # Null
  BY DEF Held, Members
<1>9. \A m \in Held(o, {"pointee_fval", "orig_res"}) : m \in Members
  BY DEF Held, Members
<1>10. CASE \E m \in Held(o, {"pointee_fval", "target"}) : s = Copy(<<L, "ch">>, <<o, m>>)
  BY <1>3, <1>8, <1>10 DEF Leads, b, C
<1>11. CASE L # MaxLevel /\ \E m \in Held(o, {"pointee_fval", "orig_res"}) :
                                 s = Nested(L, "child", <<o, m>>, "ch")
  <2>1. Runs(L, B, s, a, b)
    BY <1>7, <1>9, <1>11 DEF Leads
  <2>2. QED
    BY <1>2, <2>1, RunsKnowing DEF b, C
<1>12. CASE s = MakeRef(L, "ch")
  <2>1. Runs(L, B, s, a, b)
    BY <1>6, <1>12 DEF Leads
  <2>2. QED
    BY <1>2, <2>1, RunsKnowing DEF b, C
<1>13. CASE L # MaxLevel /\ s \in {FormatNested(L, "ch"), Guarded(L)}
  <2>1. Runs(L, B, s, a, b)
    BY <1>4, <1>5, <1>13 DEF Leads
  <2>2. QED
    BY <1>2, <2>1, RunsKnowing DEF b, C
<1>14. QED
  BY <1>10, <1>11, <1>12, <1>13 DEF Sources

(* What br_get_child_at leaves for its caller *)
Answers == {"br_name", "br_pos_file", "br_res"}

(* The answer of br_get_child_at that has a child *)
LEMMA AnsweredRuns ==
  ASSUME NEW L, NEW B, Base(L, B), NEW a, NEW s,
         Runs(L, B, s, a, St(L, B, {"ch"}, {"ch"}))
  PROVE  Runs(L, B, Answered(L, s), a, St(L, B, Answers, {"br_name", "br_res"}))
<1> DEFINE C == {"ch"}
           N == {"ch", "br_name"}
           P == {"ch", "br_name", "br_pos_file"}
           R == {"ch", "br_name", "br_pos_file", "res_ref"}
           Q == {"ch", "br_name", "res_ref"}
           S == {"ch", "br_name", "br_pos_file", "res_ref", "br_res"}
           T == {"ch", "br_name", "res_ref", "br_res"}
           X == {"ch", "br_name", "br_pos_file", "br_res"}
           Y == {"ch", "br_name", "br_res"}
           Z == {"br_name", "br_pos_file", "br_res"}
           W == {"br_name", "br_res"}
<1>1. /\ C \in SUBSET Names /\ N \in SUBSET Names /\ P \in SUBSET Names /\ R \in SUBSET Names
      /\ Q \in SUBSET Names /\ S \in SUBSET Names /\ T \in SUBSET Names /\ X \in SUBSET Names
      /\ Y \in SUBSET Names /\ Z \in SUBSET Names /\ W \in SUBSET Names
  BY DEF Names, Raws, Refs
<1>2. /\ "br_name" \in Raws \ C /\ "br_name" # "obj" /\ "obj" \notin C /\ "str" \notin C
      /\ "br_pos_file" \notin N /\ "str" \notin N /\ "obj" \notin N /\ N \in SUBSET (N \cap N)
      /\ "res_ref" \in Names \ P /\ "ch" \in Names /\ "br_res" \in Names \ R /\ "res_ref" \in Names
  BY DEF Names, Raws, Refs
<1>3. /\ C \cup {"br_name"} \subseteq N /\ N \subseteq (C \ {"obj", "str"}) \cup {"br_name"}
      /\ N \cup {"br_pos_file"} \subseteq P
      /\ P \cup {"res_ref"} \subseteq R /\ Q \subseteq N \cup (IF "ch" \in N THEN {"res_ref"} ELSE {})
      /\ R \cup {"br_res"} \subseteq S /\ T \subseteq Q \cup (IF "res_ref" \in Q THEN {"br_res"} ELSE {})
      /\ S \ {"res_ref"} \subseteq X /\ Y \subseteq T \ {"res_ref"}
      /\ X \ {"ch"} \subseteq Z /\ W \subseteq Y \ {"ch"}
      /\ "ch" \notin {"br_name", "br_res"} /\ "res_ref" \notin {"br_name", "br_res"}
  OBVIOUS
<1>4. Answers = Z /\ W = {"br_name", "br_res"} /\ C = {"ch"}
  BY DEF Answers
<1> HIDE DEF C, N, P, R, Q, S, T, X, Y, Z, W
<1>5. Leads(L, B, MakeString(L, "br_name"), St(L, B, C, C), St(L, B, N, N))
  BY <1>1, <1>2, <1>3, MakeStringLeads
<1>6. Leads(L, B, Part(L, "pos_file"), St(L, B, N, N), St(L, B, P, N))
  BY <1>1, <1>2, <1>3, PosFilePartLeads
<1>7. Leads(L, B, Copy(<<L, "res_ref">>, <<L, "ch">>), St(L, B, P, N), St(L, B, R, Q))
  BY <1>1, <1>2, <1>3, CopyLeads
<1>8. Leads(L, B, DoReturn(<<L, "br_res">>, <<L, "res_ref">>), St(L, B, R, Q), St(L, B, S, T))
  BY <1>1, <1>2, <1>3, CopyLeads DEF DoReturn
<1>9. Leads(L, B, Release(<<L, "res_ref">>), St(L, B, S, T), St(L, B, X, Y))
  BY <1>1, <1>2, <1>3, ReleaseLeads
<1>10. Leads(L, B, Release(<<L, "ch">>), St(L, B, X, Y), St(L, B, Z, W))
  BY <1>1, <1>2, <1>3, ReleaseLeads
<1>11. Runs(L, B, s \o MakeString(L, "br_name") \o Part(L, "pos_file"), a, St(L, B, P, N))
  BY <1>4, <1>5, <1>6, Compose
<1>12. Runs(L, B, s \o MakeString(L, "br_name") \o Part(L, "pos_file")
                    \o Copy(<<L, "res_ref">>, <<L, "ch">>) \o DoReturn(<<L, "br_res">>, <<L, "res_ref">>),
            a, St(L, B, S, T))
  BY <1>7, <1>8, <1>11, Compose
<1>13. Runs(L, B, Answered(L, s), a, St(L, B, Z, W))
  BY <1>9, <1>10, <1>12, Compose DEF Answered
<1>14. QED
  BY <1>4, <1>13

(* The answer of its handler *)
LEMMA CaughtLeads ==
  ASSUME NEW L, NEW B, Base(L, B)
  PROVE  Leads(L, B, Caught(L), St(L, B, {}, {}), St(L, B, Answers, {"br_name", "br_res"}))
<1> DEFINE N == {"br_name"}
           R == {"br_name", "res_ref"}
           S == {"br_name", "res_ref", "br_res"}
           Z == {"br_name", "br_pos_file", "br_res"}
           W == {"br_name", "br_res"}
<1>1. /\ N \in SUBSET Names /\ R \in SUBSET Names /\ S \in SUBSET Names
      /\ Z \in SUBSET Names /\ W \in SUBSET Names /\ {} \in SUBSET Names
  BY DEF Names, Raws, Refs
<1>2. /\ "br_name" \in Raws \ {} /\ "br_name" # "obj" /\ "obj" \notin {} /\ "str" \notin {}
      /\ "res_ref" \in Refs \ N /\ "obj" \notin N /\ "br_res" \in Names \ R /\ "res_ref" \in Names
  BY DEF Names, Raws, Refs
<1>3. /\ {} \cup {"br_name"} \subseteq N /\ N \subseteq ({} \ {"obj", "str"}) \cup {"br_name"}
      /\ N \cup {"res_ref"} \subseteq R /\ R \subseteq (N \ {"obj"}) \cup {"res_ref"}
      /\ R \cup {"br_res"} \subseteq S /\ S \subseteq R \cup (IF "res_ref" \in R THEN {"br_res"} ELSE {})
      /\ S \ {"res_ref"} \subseteq Z /\ W \subseteq S \ {"res_ref"}
      /\ "res_ref" \notin {"br_name", "br_res"}
  OBVIOUS
<1>4. Answers = Z /\ W = {"br_name", "br_res"}
  BY DEF Answers
<1> HIDE DEF N, R, S, Z, W
<1>5. Leads(L, B, MakeString(L, "br_name"), St(L, B, {}, {}), St(L, B, N, N))
  BY <1>1, <1>2, <1>3, MakeStringLeads
<1>6. Leads(L, B, MakeRef(L, "res_ref"), St(L, B, N, N), St(L, B, R, R))
  BY <1>1, <1>2, <1>3, MakeRefLeads
<1>7. Leads(L, B, DoReturn(<<L, "br_res">>, <<L, "res_ref">>), St(L, B, R, R), St(L, B, S, S))
  BY <1>1, <1>2, <1>3, CopyLeads DEF DoReturn
<1>8. Leads(L, B, Release(<<L, "res_ref">>), St(L, B, S, S), St(L, B, Z, W))
  BY <1>1, <1>2, <1>3, ReleaseLeads
<1>9. Leads(L, B, Caught(L), St(L, B, {}, {}), St(L, B, Z, W))
  BY <1>5, <1>6, <1>7, <1>8, ComposeLeads DEF Caught
<1>10. QED
  BY <1>4, <1>9

(* br_get_child_at *)
LEMMA BrGetChildAtRuns ==
  ASSUME NEW L, NEW B, Base(L, B), NEW o \in Objects, NEW p \in BrGetChildAt(L, o)
  PROVE  Runs(L, B, p, Begun(B), St(L, B, Answers, {"br_name", "br_res"}))
<1>1. ASSUME NEW s \in Sources(L, o), p = Answered(L, s)
      PROVE  Runs(L, B, p, Begun(B), St(L, B, Answers, {"br_name", "br_res"}))
  BY <1>1, SourceRuns, AnsweredRuns
<1>2. CASE p = Caught(L)
  <2>1. Runs(L, B, p, St(L, B, {}, {}), St(L, B, Answers, {"br_name", "br_res"}))
    BY <1>2, CaughtLeads DEF Leads
  <2>2. QED
    BY <2>1, BegunFacts, RunsKnowing DEF Weaker
<1>3. QED
  BY <1>1, <1>2 DEF BrGetChildAt

(* fmt_result_ref::child_at leaves the child in fval *)
LEMMA ChildRuns ==
  ASSUME NEW L, NEW B, Base(L, B), NEW o \in Objects, NEW p \in ChildPlans(L, o)
  PROVE  Runs(L, B, p, Begun(B), St(L, B, {"fval"}, {"fval"}))
<1> DEFINE A == {"br_name", "br_pos_file", "br_res"}
           A1 == {"br_name", "br_res"}
           N == {"nm_ref", "br_pos_file", "br_res"}
           N1 == {"nm_ref", "br_res"}
           P == {"nm_ref", "pos_file_ref", "br_res"}
           R == {"nm_ref", "pos_file_ref", "res_ref"}
           R1 == {"nm_ref", "res_ref"}
           S == {"nm_ref", "pos_file_ref", "res_ref", "fval"}
           S1 == {"nm_ref", "res_ref", "fval"}
           T == {"nm_ref", "pos_file_ref", "fval"}
           V == {"nm_ref", "fval"}
           E == {"fval"}
<1>1. /\ A \in SUBSET Names /\ A1 \in SUBSET Names /\ N \in SUBSET Names /\ N1 \in SUBSET Names
      /\ P \in SUBSET Names /\ R \in SUBSET Names /\ R1 \in SUBSET Names /\ S \in SUBSET Names
      /\ S1 \in SUBSET Names /\ T \in SUBSET Names /\ V \in SUBSET Names /\ E \in SUBSET Names
  BY DEF Names, Raws, Refs
<1>2. /\ "nm_ref" \in Names \ A /\ "br_name" \in Names \ {"nm_ref"}
      /\ "pos_file_ref" \in Names \ N /\ "br_pos_file" \in Names \ {"pos_file_ref"}
      /\ "res_ref" \in Names \ P /\ "br_res" \in Names \ {"res_ref"}
      /\ "fval" \in Names \ R /\ "res_ref" \in Names /\ "pos_file_ref" \in Names /\ "nm_ref" \in Names
  BY DEF Names, Raws, Refs
<1>3. /\ (A \ {"br_name"}) \cup {"nm_ref"} \subseteq N
      /\ N1 \subseteq (A1 \ {"br_name"}) \cup (IF "br_name" \in A1 THEN {"nm_ref"} ELSE {})
      /\ "br_name" \in A1
      /\ (N \ {"br_pos_file"}) \cup {"pos_file_ref"} \subseteq P
      /\ N1 \subseteq (N1 \ {"br_pos_file"}) \cup (IF "br_pos_file" \in N1 THEN {"pos_file_ref"} ELSE {})
      /\ "br_pos_file" \notin {"br_name", "br_res"}
      /\ (P \ {"br_res"}) \cup {"res_ref"} \subseteq R
      /\ R1 \subseteq (N1 \ {"br_res"}) \cup (IF "br_res" \in N1 THEN {"res_ref"} ELSE {})
      /\ "br_res" \in N1
  OBVIOUS
<1>4. /\ R \cup {"fval"} \subseteq S /\ S1 \subseteq R1 \cup (IF "res_ref" \in R1 THEN {"fval"} ELSE {})
      /\ "res_ref" \notin {"br_name", "br_res"}
      /\ S \ {"res_ref"} \subseteq T /\ V \subseteq S1 \ {"res_ref"}
      /\ T \ {"pos_file_ref"} \subseteq V /\ V \subseteq V \ {"pos_file_ref"}
      /\ V \ {"nm_ref"} \subseteq E /\ E \subseteq V \ {"nm_ref"}
  OBVIOUS
<1>5. Answers = A /\ A1 = {"br_name", "br_res"} /\ E = {"fval"}
  BY DEF Answers
<1> HIDE DEF A, A1, N, N1, P, R, R1, S, S1, T, V, E
<1>6. Leads(L, B, Acquire(<<L, "nm_ref">>, <<L, "br_name">>), St(L, B, A, A1), St(L, B, N, N1))
  BY <1>1, <1>2, <1>3, AcquireLeads
<1>7. Leads(L, B, Acquire(<<L, "pos_file_ref">>, <<L, "br_pos_file">>), St(L, B, N, N1), St(L, B, P, N1))
  BY <1>1, <1>2, <1>3, AcquireLeads
<1>8. Leads(L, B, Acquire(<<L, "res_ref">>, <<L, "br_res">>), St(L, B, P, N1), St(L, B, R, R1))
  BY <1>1, <1>2, <1>3, AcquireLeads
<1>9. Leads(L, B, Part(L, "read"), St(L, B, R, R1), St(L, B, R, R1))
  BY <1>1, ReadPartLeads
<1>10. Leads(L, B, Copy(<<L, "fval">>, <<L, "res_ref">>), St(L, B, R, R1), St(L, B, S, S1))
  BY <1>1, <1>2, <1>4, CopyLeads
<1>11. Leads(L, B, Release(<<L, "res_ref">>), St(L, B, S, S1), St(L, B, T, V))
  BY <1>1, <1>2, <1>4, ReleaseLeads
<1>12. Leads(L, B, Release(<<L, "pos_file_ref">>), St(L, B, T, V), St(L, B, V, V))
  BY <1>1, <1>2, <1>4, ReleaseLeads
<1>13. Leads(L, B, Release(<<L, "nm_ref">>), St(L, B, V, V), St(L, B, E, E))
  BY <1>1, <1>2, <1>4, ReleaseLeads
<1>14. PICK br \in BrGetChildAt(L, o) :
         p = br \o Acquire(<<L, "nm_ref">>, <<L, "br_name">>)
                \o Acquire(<<L, "pos_file_ref">>, <<L, "br_pos_file">>)
                \o Acquire(<<L, "res_ref">>, <<L, "br_res">>) \o Part(L, "read")
                \o Copy(<<L, "fval">>, <<L, "res_ref">>)
                \o Release(<<L, "res_ref">>) \o Release(<<L, "pos_file_ref">>)
                \o Release(<<L, "nm_ref">>)
  BY DEF ChildPlans
<1>15. Runs(L, B, br, Begun(B), St(L, B, A, A1))
  BY <1>5, BrGetChildAtRuns
<1>16. Runs(L, B, br \o Acquire(<<L, "nm_ref">>, <<L, "br_name">>)
                     \o Acquire(<<L, "pos_file_ref">>, <<L, "br_pos_file">>)
                     \o Acquire(<<L, "res_ref">>, <<L, "br_res">>), Begun(B), St(L, B, R, R1))
  BY <1>6, <1>7, <1>8, <1>15, Compose
<1>17. Runs(L, B, br \o Acquire(<<L, "nm_ref">>, <<L, "br_name">>)
                     \o Acquire(<<L, "pos_file_ref">>, <<L, "br_pos_file">>)
                     \o Acquire(<<L, "res_ref">>, <<L, "br_res">>) \o Part(L, "read")
                     \o Copy(<<L, "fval">>, <<L, "res_ref">>), Begun(B), St(L, B, S, S1))
  BY <1>9, <1>10, <1>16, Compose
<1>18. Runs(L, B, p, Begun(B), St(L, B, E, E))
  BY <1>11, <1>12, <1>13, <1>14, <1>17, Compose
<1>19. QED
  BY <1>5, <1>18

(* The position's file, if there is one *)
LEMMA PosFileLeads ==
  ASSUME NEW L, NEW B, Base(L, B), NEW X \in SUBSET Names, NEW U \in SUBSET Names,
         "br_pos_file" \notin X, "str" \notin X, "obj" \notin X, NEW p \in PosFilePlans(L)
  PROVE  Leads(L, B, p, St(L, B, X, U), St(L, B, X \cup {"br_pos_file"}, U \cap X))
<1> DEFINE Y == X \cup {"br_pos_file"}
           V == U \cap X
           a == St(L, B, X, U)
           b == St(L, B, Y, V)
<1>1. Y \in SUBSET Names /\ V \in SUBSET Names /\ "br_pos_file" \in Raws \ X /\ "br_pos_file" # "obj"
  BY DEF Names, Raws
<1>2. X \cup {"br_pos_file"} \subseteq Y /\ V \subseteq (U \ {"obj", "str"}) \cup {"br_pos_file"}
  OBVIOUS
<1>3. a \in Knowledge /\ b \in Knowledge /\ Weaker(a, b)
  <2>1. a \in Knowledge
    BY StateFacts
  <2>2. b \in Knowledge
    <3> HIDE DEF Y, V
    <3>1. St(L, B, Y, V) \in Knowledge
      BY <1>1, StateFacts
    <3>2. QED
      BY <3>1
  <2>3. Weaker(a, b)
    BY DEF Weaker, St
  <2>4. QED
    BY <2>1, <2>2, <2>3
<1> HIDE DEF Y, V
<1>4. Leads(L, B, MakeString(L, "br_pos_file"), a, b)
  BY <1>1, <1>2, MakeStringLeads
<1>5. Leads(L, B, Throw(L), a, b)
  BY <1>3, ThrowLeads
<1>6. Leads(L, B, <<>>, a, b)
  BY <1>3, NoneLeads
<1>7. QED
  BY <1>4, <1>5, <1>6 DEF PosFilePlans, Y, V

-----------------------------------------------------------------------------
(* What the debugger calls *)

NoLocals == St(1, {}, {}, {})

(* The debugger has no variables of its own on the first level *)
LEMMA TopBase == Base(1, {}) /\ 1 \in Levels /\ NoLocals \in Knowledge
                 /\ \A s \in Slots : <<0, s>> \in Roots /\ <<0, s>> \in Holders /\ <<0, s>> \notin LocalPlaces
<1>1. 1 \in Levels /\ 0 \notin Levels
  BY RefCountedAssumption DEF Levels
<1>2. Base(1, {})
  BY <1>1 DEF Base
<1>3. NoLocals \in Knowledge
  BY <1>2, StateFacts DEF NoLocals
<1>4. \A s \in Slots : <<0, s>> \in Roots /\ <<0, s>> \in Holders /\ <<0, s>> \notin LocalPlaces
  BY <1>1, LocalFacts DEF Roots, Holders
<1>5. QED
  BY <1>1, <1>2, <1>3, <1>4

(* format or child, called by the debugger *)
LEMMA TopCallLeads ==
  ASSUME NEW op \in {"format", "child"}, NEW from \in Holders
  PROVE  Leads(1, {}, Do(op, <<1, "fval">>, from), NoLocals, St(1, {}, {"fval"}, {"fval"}))
<1> DEFINE x == [op |-> op, to |-> <<1, "fval">>, from |-> from]
           b == St(1, {}, {"fval"}, {"fval"})
<1>1. {"fval"} \in SUBSET Names /\ 1 \in Levels /\ 1 \in Nat /\ Base(1, {})
  BY TopBase, LocalFacts DEF Names, Refs
<1>2. b \in Knowledge /\ NoLocals \in Knowledge /\ LowIn(NoLocals, 1, {})
  BY <1>1, StateFacts DEF NoLocals
<1>3. NoLocals.may = {} /\ ~NoLocals.new /\ b.may = {<<1, "fval">>} /\ b.must = {<<1, "fval">>}
  BY DEF NoLocals, St
<1>4. x \in Op
  BY <1>1 DEF Op, Parts
<1>5. x.op = op /\ x.to = <<1, "fval">> /\ x.to[1] = 1
  OBVIOUS
<1> HIDE DEF x, b
<1>6. CallEffect(NoLocals, x, b)
  BY <1>3, <1>5 DEF CallEffect, UpTo
<1>7. Effect(NoLocals, x, b)
  BY <1>5, <1>6 DEF Effect
<1>8. x.op # "guard" /\ x.to[1] >= 1
  BY <1>5
<1>9. Leads(1, {}, <<x>>, NoLocals, b)
  BY <1>2, <1>4, <1>7, <1>8, OneLeads
<1>10. QED
  BY <1>9 DEF Do, x, b

(* The debugger copies a reference *)
LEMMA TopCopyLeads ==
  ASSUME NEW c \in Slots
  PROVE  Leads(1, {}, Copy(<<1, "fval">>, <<0, c>>), NoLocals, St(1, {}, {"fval"}, {}))
<1> DEFINE x == [op |-> "copy", to |-> <<1, "fval">>, from |-> <<0, c>>]
           b == St(1, {}, {"fval"}, {})
<1>1. {"fval"} \in SUBSET Names /\ {} \in SUBSET Names /\ "fval" \in Names
      /\ 1 \in Levels /\ 1 \in Nat /\ Base(1, {})
  BY TopBase, LocalFacts DEF Names, Refs
<1>2. b \in Knowledge /\ NoLocals \in Knowledge /\ LowIn(NoLocals, 1, {})
  BY <1>1, StateFacts DEF NoLocals
<1>3. NoLocals.may = {} /\ ~NoLocals.new /\ b.may = {<<1, "fval">>} /\ b.must = {} /\ ~b.new
  BY DEF NoLocals, St
<1>4. /\ <<1, "fval">> \in LocalPlaces /\ <<1, "fval">> \in Places
      /\ <<0, c>> \in Holders /\ <<0, c>> \notin LocalPlaces
  BY <1>1, TopBase, LocalFacts, HoldersArePlaces
<1>5. x \in Op
  BY <1>4 DEF Op, Copies
<1>6. x.op = "copy" /\ x.to = <<1, "fval">> /\ x.from = <<0, c>>
  OBVIOUS
<1>7. x.op # "guard" /\ x.op \notin CallParts
  BY DEF CallParts
<1> HIDE DEF x, b
<1>8. CopyEffect(NoLocals, x, b)
  BY <1>3, <1>4, <1>6 DEF CopyEffect
<1>9. Effect(NoLocals, x, b)
  BY <1>6, <1>8 DEF Effect
<1>10. Leads(1, {}, <<x>>, NoLocals, b)
  BY <1>2, <1>5, <1>7, <1>9, OneLeads
<1>11. QED
  BY <1>10 DEF Copy, Do, x, b

(* slot = <call> *)
LEMMA AssignLeads ==
  ASSUME NEW s \in Slots, NEW U \in SUBSET {"fval"}
  PROVE  Leads(1, {}, Assign(s), St(1, {}, {"fval"}, U), NoLocals)
<1> DEFINE to == <<0, s>>
           fval == <<1, "fval">>
           x == [op |-> "swap", to |-> to, from |-> fval]
           a == St(1, {}, {"fval"}, U)
           b == St(1, {}, {"fval"}, {})
<1>1. {"fval"} \in SUBSET Names /\ {} \in SUBSET Names /\ U \in SUBSET Names /\ "fval" \in Names
      /\ 1 \in Levels /\ 1 \in Nat /\ Base(1, {})
  BY TopBase, LocalFacts DEF Names, Refs
<1>2. a \in Knowledge /\ b \in Knowledge /\ LowIn(a, 1, {})
  BY <1>1, StateFacts
<1>3. a.may = {fval} /\ ~a.new /\ b.may = {fval} /\ b.must = {} /\ ~b.new
  BY DEF St
<1>4. /\ fval \in LocalPlaces /\ fval \in Holders
      /\ to \in Holders /\ to \notin LocalPlaces /\ to \in Roots /\ to # fval
  BY <1>1, TopBase, LocalFacts
<1>5. x \in Op
  BY <1>4 DEF Op, Basics
<1>6. x.op = "swap" /\ x.to = to /\ x.from = fval
  OBVIOUS
<1>7. x.op # "guard" /\ x.op \notin CallParts
  BY DEF CallParts
<1> HIDE DEF x, a, b
<1>8. SwapEffect(a, x, b)
  BY <1>3, <1>4, <1>6 DEF SwapEffect
<1>9. Effect(a, x, b)
  BY <1>6, <1>8 DEF Effect
<1>10. Leads(1, {}, <<x>>, a, b)
  BY <1>2, <1>5, <1>7, <1>9, OneLeads
<1>11. Leads(1, {}, Release(fval), b, NoLocals)
  <2>1. {"fval"} \ {"fval"} \subseteq {} /\ {} \subseteq {} \ {"fval"}
    OBVIOUS
  <2>2. QED
    BY <1>1, <2>1, ReleaseLeads DEF b, NoLocals
<1>12. Leads(1, {}, <<x>> \o Release(fval), a, NoLocals)
  BY <1>10, <1>11, ComposeLeads
<1>13. QED
  BY <1>12 DEF Assign, Swap, Do, x, a

(* The debugger lets go of a result *)
LEMMA ResetLeads ==
  ASSUME NEW s \in Slots
  PROVE  Leads(1, {}, Release(<<0, s>>), NoLocals, NoLocals)
<1> DEFINE x == [op |-> "release", to |-> <<0, s>>, from |-> <<0, s>>]
<1>1. NoLocals.may = {} /\ NoLocals.must = {}
  BY DEF NoLocals, St
<1>2. x \in Op
  BY TopBase DEF Op, Basics
<1>3. NoLocals \in Knowledge /\ LowIn(NoLocals, 1, {})
  BY <1>1, TopBase DEF LowIn
<1>4. Effect(NoLocals, x, NoLocals)
  BY <1>1 DEF Effect, ReleaseEffect
<1>5. x.op # "guard" /\ x.op \notin CallParts
  BY DEF CallParts
<1> HIDE DEF x
<1>6. Leads(1, {}, <<x>>, NoLocals, NoLocals)
  BY <1>2, <1>3, <1>4, <1>5, OneLeads
<1>7. QED
  BY <1>6 DEF Release, Do, x

(* val_pos and type_pos *)
LEMMA TextLeads == Leads(1, {}, TextPlan, NoLocals, NoLocals)
<1> DEFINE F == {"br_pos_file"}
           R == {"pos_file_ref"}
<1>1. /\ F \in SUBSET Names /\ R \in SUBSET Names /\ {} \in SUBSET Names /\ {} \in SUBSET ({} \cap {})
      /\ "pos_file_ref" \in Names \ F /\ "br_pos_file" \in Names \ {"pos_file_ref"}
      /\ "pos_file_ref" \in Names
  BY DEF Names, Raws, Refs
<1>2. /\ "br_pos_file" \notin {} /\ "str" \notin {} /\ "obj" \notin {} /\ {} \cup {"br_pos_file"} \subseteq F
      /\ (F \ {"br_pos_file"}) \cup {"pos_file_ref"} \subseteq R
      /\ {} \subseteq ({} \ {"br_pos_file"}) \cup (IF "br_pos_file" \in {} THEN {"pos_file_ref"} ELSE {})
      /\ "br_pos_file" \notin {"br_name", "br_res"}
      /\ R \ {"pos_file_ref"} \subseteq {} /\ {} \subseteq {} \ {"pos_file_ref"}
  OBVIOUS
<1>3. Base(1, {})
  BY TopBase
<1> HIDE DEF F, R
<1>4. Leads(1, {}, Part(1, "pos_file"), St(1, {}, {}, {}), St(1, {}, F, {}))
  BY <1>1, <1>2, <1>3, PosFilePartLeads
<1>5. Leads(1, {}, Acquire(<<1, "pos_file_ref">>, <<1, "br_pos_file">>), St(1, {}, F, {}), St(1, {}, R, {}))
  BY <1>1, <1>2, <1>3, AcquireLeads
<1>6. Leads(1, {}, Part(1, "read"), St(1, {}, R, {}), St(1, {}, R, {}))
  BY <1>1, <1>3, ReadPartLeads
<1>7. Leads(1, {}, Release(<<1, "pos_file_ref">>), St(1, {}, R, {}), St(1, {}, {}, {}))
  BY <1>1, <1>2, <1>3, ReleaseLeads
<1>8. QED
  BY <1>4, <1>5, <1>6, <1>7, ComposeLeads DEF TextPlan, NoLocals

-----------------------------------------------------------------------------
(* What is left of a call *)

(* The levels of the parts of calls *)
LEMMA PartLevels ==
  ASSUME NEW p, Plan(p), NEW k \in 1 .. Len(p), p[k].op \in CallParts
  PROVE  p[k].to[1] \in Levels /\ p[k].to[1] \in Nat
<1>1. p[k] \in Op
  BY DEF Plan
<1>2. p[k].op \in {"format", "wrap", "child", "pos_file", "read", "guard"}
  BY DEF CallParts
<1>3. QED
  BY <1>1, <1>2, OpPlaces, LocalFacts

(* The trace of what is left after i operations *)
LEMMA SuffixTrace ==
  ASSUME NEW p, NEW q, NEW w, Plan(p), Plan(q), Traces(p, w), Catches(p, w),
         NEW i \in Nat, Len(p) = Len(q) + i, \A k \in 1 .. Len(q) : q[k] = p[k + i]
  PROVE  LET v == [k \in 1 .. Len(q) + 1 |-> w[k + i]] IN
         /\ Traces(q, v) /\ Catches(q, v)
         /\ \A k \in 1 .. Len(q) + 1 : v[k] = w[k + i]
         /\ v[1] = w[i + 1] /\ v[Len(q) + 1] = w[Len(p) + 1]
<1> DEFINE v == [k \in 1 .. Len(q) + 1 |-> w[k + i]]
           m == Len(q)
<1>1. m \in Nat
  BY LenProperties DEF Plan
<1>2. w \in [1 .. m + i + 1 -> Knowledge] /\ \A k \in 1 .. m + i : Effect(w[k], p[k], w[k + 1])
  BY DEF Traces
<1>3. \A k \in 1 .. m : q[k] = p[k + i]
  OBVIOUS
<1>4. \A k \in 1 .. m + 1 : v[k] = w[k + i]
  OBVIOUS
<1>5. v \in [1 .. m + 1 -> Knowledge]
  <2>1. \A k \in 1 .. m + 1 : w[k + i] \in Knowledge
    <3> SUFFICES ASSUME NEW k \in 1 .. m + 1 PROVE w[k + i] \in Knowledge
      OBVIOUS
    <3>1. k + i \in 1 .. m + i + 1
      BY <1>1
    <3>2. QED
      BY <1>2, <3>1
  <2>2. QED
    BY <2>1
<1>6. Len(p) = m + i
  OBVIOUS
<1> HIDE DEF v, m
<1>7. ASSUME NEW k \in 1 .. m PROVE Effect(v[k], q[k], v[k + 1])
  <2>1. k \in 1 .. m + 1 /\ k + 1 \in 1 .. m + 1 /\ k + i \in 1 .. m + i /\ (k + 1) + i = (k + i) + 1
    BY <1>1
  <2>2. v[k] = w[k + i] /\ v[k + 1] = w[(k + i) + 1] /\ q[k] = p[k + i]
    BY <1>3, <1>4, <2>1
  <2>3. QED
    BY <1>2, <2>1, <2>2
<1>8. Traces(q, v)
  BY <1>5, <1>7 DEF Traces, m
<1>9. Catches(q, v)
  <2> SUFFICES ASSUME NEW k \in 1 .. m, NEW j \in 1 .. m, j < k, q[k].op = "guard", Throws(q[j])
               PROVE  /\ LowIn(v[j], q[k].to[1] + 1, v[k].may \ {<<q[k].to[1], "ch">>})
                      /\ q[j].op \in CallParts => q[j].to[1] > q[k].to[1]
    BY DEF Catches, m
  <2>1. /\ k \in 1 .. m + 1 /\ j \in 1 .. m + 1 /\ k + i \in 1 .. m + i /\ j + i \in 1 .. m + i
        /\ j + i < k + i
    BY <1>1
  <2>2. v[k] = w[k + i] /\ v[j] = w[j + i] /\ q[k] = p[k + i] /\ q[j] = p[j + i]
    BY <1>3, <1>4, <2>1
  <2>3. \A x, y \in 1 .. m + i :
           y < x /\ p[x].op = "guard" /\ Throws(p[y]) =>
             /\ LowIn(w[y], p[x].to[1] + 1, w[x].may \ {<<p[x].to[1], "ch">>})
             /\ p[y].op \in CallParts => p[y].to[1] > p[x].to[1]
    BY <1>6 DEF Catches
  <2>4. QED
    BY <2>1, <2>2, <2>3
<1>10. v[1] = w[i + 1] /\ v[m + 1] = w[Len(p) + 1]
  <2>1. 1 \in 1 .. m + 1 /\ m + 1 \in 1 .. m + 1 /\ 1 + i = i + 1 /\ (m + 1) + i = Len(p) + 1
    BY <1>1, <1>6
  <2>2. QED
    BY <1>4, <2>1
<1>11. QED
  BY <1>4, <1>8, <1>9, <1>10 DEF v, m

(* The first operation and the rest *)
LEMMA HeadAndTail ==
  ASSUME NEW p, Plan(p), p # <<>>
  PROVE  /\ Plan(Tail(p)) /\ Head(p) = p[1] /\ p[1] \in Op
         /\ Len(Tail(p)) \in Nat /\ Len(p) = Len(Tail(p)) + 1
         /\ \A k \in 1 .. Len(Tail(p)) : Tail(p)[k] = p[k + 1]
<1>1. p \in Seq(Op)
  BY DEF Plan
<1>2. Tail(p) \in Seq(Op) /\ Len(Tail(p)) = Len(p) - 1 /\ \A i \in 1 .. Len(Tail(p)) : Tail(p)[i] = p[i + 1]
  BY <1>1, HeadTailProperties
<1>3. Head(p) = p[1]
  BY <1>1
<1>4. Len(p) \in Nat /\ Len(p) >= 1
  BY <1>1, EmptySeq, LenProperties
<1>5. p[1] \in Op
  BY <1>1, <1>4
<1>6. QED
  BY <1>2, <1>3, <1>4, <1>5 DEF Plan

-----------------------------------------------------------------------------
(* The invariant of calls *)

(* A call ends without local variables or an object under construction *)
Follows(p, w) ==
    /\ Traces(p, w) /\ Catches(p, w)
    /\ w[Len(p) + 1].may = {} /\ ~w[Len(p) + 1].new

CallOK == ~unwinding => \E w : Follows(todo, w) /\ Matches(w[1])

Destroying(d) == \A k \in 1 .. Len(d) : d[k].op = "release" /\ d[k].to \in Objects \X Members

(* The handler finds what it expects but for the inner calls *)
Handled(t, w) ==
    t # <<>> =>
      /\ t[1].op = "guard"
      /\ \A h \in LocalPlaces :
           ptr[h] # Null /\ h[1] <= t[1].to[1] => h \in w[1].may \ {<<t[1].to[1], "ch">>}

UnwindOK ==
    unwinding =>
      \E d, t, w : /\ todo = d \o t /\ Plan(d) /\ Plan(t) /\ Destroying(d)
                   /\ Follows(t, w) /\ Handled(t, w)

CallInv == IInv /\ CallOK /\ UnwindOK

(* What holds goes on to hold for one who knows less *)
LEMMA MatchesWeaker ==
  ASSUME NEW a, NEW b, Matches(a), Weaker(a, b)
  PROVE  Matches(b)
<1>1. a.may \subseteq b.may /\ b.must \subseteq a.must /\ (a.new => b.new)
  BY DEF Weaker
<1>2. \A h \in LocalPlaces : ptr[h] # Null => h \in b.may
  BY <1>1 DEF Matches
<1>3. \A h \in b.must : ptr[h] # Null
  BY <1>1 DEF Matches
<1>4. fresh # Null =>
        b.new /\ \A m \in Members : ptr[<<fresh, m>>] # Null => <<Fresh, m>> \in b.may
  BY <1>1 DEF Matches
<1>5. QED
  BY <1>2, <1>3, <1>4 DEF Matches

(* The trace after the first operation *)
LEMMA TailFollows ==
  ASSUME NEW p, Plan(p), p # <<>>, NEW w, Follows(p, w)
  PROVE  /\ Effect(w[1], p[1], w[2]) /\ w[1] \in Knowledge /\ w[2] \in Knowledge
         /\ \E v : Follows(Tail(p), v) /\ v[1] = w[2]
<1> DEFINE t == Tail(p)
           v == [k \in 1 .. Len(t) + 1 |-> w[k + 1]]
<1>1. /\ Plan(t) /\ Len(t) \in Nat /\ Len(p) = Len(t) + 1
      /\ \A k \in 1 .. Len(t) : t[k] = p[k + 1]
  BY HeadAndTail
<1>2. Traces(p, w) /\ Catches(p, w) /\ w[Len(p) + 1].may = {} /\ ~w[Len(p) + 1].new
  BY DEF Follows
<1> HIDE DEF t
<1>3. Traces(t, v) /\ Catches(t, v) /\ v[1] = w[1 + 1] /\ v[Len(t) + 1] = w[Len(p) + 1]
  BY <1>1, <1>2, SuffixTrace
<1> HIDE DEF v
<1>4. Follows(t, v)
  BY <1>2, <1>3 DEF Follows
<1>5. Effect(w[1], p[1], w[2]) /\ w[1] \in Knowledge /\ w[2] \in Knowledge
  BY <1>1, <1>2 DEF Traces
<1>6. QED
  BY <1>3, <1>4, <1>5 DEF t

(* A part of a call is replaced by one of the ways it can go *)
LEMMA Expanded ==
  ASSUME NEW q, Plan(q), q # <<>>, NEW w, Follows(q, w), q[1].op \in CallParts,
         NEW B, \A h \in w[1].may : h \in LocalPlaces /\ h[1] < q[1].to[1] => h \in B,
         B \subseteq w[1].may, NEW p, NEW a, NEW b,
         Runs(q[1].to[1], B, p, a, b), Weaker(b, w[2]), Matches(a)
  PROVE  Plan(p \o Tail(q)) /\ \E y : Follows(p \o Tail(q), y) /\ Matches(y[1])
<1>1. Traces(q, w) /\ Catches(q, w) /\ w[Len(q) + 1].may = {} /\ ~w[Len(q) + 1].new
  BY DEF Follows
<1>2. ASSUME NEW t, Plan(t), Len(q) = Len(t) + 1, \A k \in 1 .. Len(t) : t[k] = q[k + 1]
      PROVE  Plan(p \o t) /\ \E y : Follows(p \o t, y) /\ Matches(y[1])
  <2> DEFINE M == q[1].to[1]
             v == [k \in 1 .. Len(t) + 1 |-> w[k + 1]]
  <2>1. Len(t) \in Nat
    BY <1>2, LenProperties DEF Plan
  <2>2. 1 \in 1 .. Len(q)
    BY <1>2, <2>1
  <2>3. M \in Levels /\ M \in Nat
    BY <2>2, PartLevels
  <2>4. /\ Traces(t, v) /\ Catches(t, v)
        /\ \A k \in 1 .. Len(t) + 1 : v[k] = w[k + 1]
        /\ v[1] = w[2] /\ v[Len(t) + 1] = w[Len(q) + 1]
    BY <1>1, <1>2, <2>1, SuffixTrace
  <2>5. PICK u : /\ Plan(p) /\ Traces(p, u) /\ Catches(p, u) /\ Stays(M, B, p, u)
                 /\ Weaker(a, u[1]) /\ Weaker(u[Len(p) + 1], b)
    BY DEF Runs
  <2> HIDE DEF v
  <2>6. HandlersFind(p, u, t, v)
    <3> SUFFICES ASSUME NEW i \in 1 .. Len(t), NEW j \in 1 .. Len(p), t[i].op = "guard", Throws(p[j])
                 PROVE  /\ LowIn(u[j], t[i].to[1] + 1, v[i].may \ {<<t[i].to[1], "ch">>})
                        /\ p[j].op \in CallParts => p[j].to[1] > t[i].to[1]
      BY DEF HandlersFind
    <3> DEFINE g == t[i].to[1]
    <3>1. g \in Nat
      BY <1>2, PartLevels DEF CallParts
    <3>2. i + 1 \in 1 .. Len(q) /\ i \in 1 .. Len(t) + 1 /\ 1 < i + 1
      BY <1>2, <2>1
    <3>3. q[i + 1] = t[i] /\ v[i] = w[i + 1]
      BY <1>2, <2>4, <3>2
    <3>4. Throws(q[1])
      BY DEF Throws
    <3>5. LowIn(w[1], g + 1, v[i].may \ {<<g, "ch">>}) /\ M > g
      BY <1>1, <2>2, <3>2, <3>3, <3>4 DEF Catches
    <3>6. LowIn(u[j], M, B) /\ (p[j].op \in CallParts => p[j].to[1] >= M)
      BY <2>5 DEF Stays
    <3>7. p[j].op \in CallParts => p[j].to[1] > g
      <4>1. p[j].op \in CallParts => p[j].to[1] \in Nat
        BY <2>5, PartLevels
      <4>2. \A r, e, n \in Nat : r >= n /\ n > e => r > e
        OBVIOUS
      <4>3. QED
        BY <2>3, <3>1, <3>5, <3>6, <4>1, <4>2
    <3>8. ASSUME NEW h \in u[j].may, h \in LocalPlaces, h[1] < g + 1
          PROVE  h \in v[i].may \ {<<g, "ch">>}
      <4>1. h[1] \in Nat
        BY <3>8, LocalFacts
      <4>2. h[1] < M
        <5>1. \A r, e, n \in Nat : r < e + 1 /\ n > e => r < n
          OBVIOUS
        <5>2. QED
          BY <2>3, <3>1, <3>5, <3>8, <4>1, <5>1
      <4>3. h \in w[1].may
        BY <3>6, <3>8, <4>2 DEF LowIn
      <4>4. QED
        BY <3>5, <3>8, <4>3 DEF LowIn
    <3>9. QED
      BY <3>7, <3>8 DEF LowIn
  <2>7. Weaker(u[Len(p) + 1], v[1])
    BY <2>4, <2>5, WeakerTransitive
  <2> DEFINE y == Joined(p, u, t, v)
  <2>8. /\ Traces(p \o t, y) /\ Catches(p \o t, y) /\ Weaker(u[1], y[1])
        /\ \A k \in 1 .. Len(t) + 1 : y[Len(p) + k] = v[k]
    BY <1>2, <2>4, <2>5, <2>6, <2>7, JoinTraces
  <2>9. Plan(p \o t) /\ Len(p \o t) = Len(p) + Len(t) /\ Len(p) \in Nat
    BY <1>2, <2>5, JoinedPlaces
  <2> HIDE DEF y
  <2>10. y[Len(p \o t) + 1] = w[Len(q) + 1]
    <3>1. Len(t) + 1 \in 1 .. Len(t) + 1 /\ Len(p \o t) + 1 = Len(p) + (Len(t) + 1)
      BY <2>1, <2>9
    <3>2. QED
      BY <2>4, <2>8, <3>1
  <2>11. Weaker(a, y[1])
    BY <2>5, <2>8, WeakerTransitive
  <2>12. QED
    <3>1. Follows(p \o t, y)
      BY <1>1, <2>8, <2>10 DEF Follows
    <3>2. Matches(y[1])
      BY <2>11, MatchesWeaker
    <3>3. QED
      BY <2>9, <3>1, <3>2
<1>3. QED
  BY <1>2, HeadAndTail

(* Proceeding with a part of a call *)
LEMMA FormatStep ==
  ASSUME Plan(todo), todo # <<>>, NEW w, Follows(todo, w), Matches(w[1]),
         todo[1].op \in {"format", "child"},
         NEW p, todo[1].op = "format" => p \in FormatPlans(todo[1].to[1]),
         NEW o, todo[1].op = "child" => o \in Objects /\ p \in ChildPlans(todo[1].to[1], o)
  PROVE  Plan(p \o Tail(todo)) /\ \E y : Follows(p \o Tail(todo), y) /\ Matches(y[1])
<1> DEFINE x == todo[1]
           M == x.to[1]
           B == w[1].may
           V == {"fval"}
           b == St(M, B, V, V)
<1>1. Effect(w[1], x, w[2]) /\ w[1] \in Knowledge /\ w[2] \in Knowledge /\ x \in Op
  BY TailFollows, HeadAndTail
<1>2. x.op \in CallParts /\ x.op \in {"format", "wrap", "child", "pos_file", "read", "guard"}
  BY DEF CallParts
<1>3. x.to = <<M, "fval">> /\ M \in Levels
  BY <1>1, <1>2 DEF Op, Copies, Basics, Parts
<1>4. CallEffect(w[1], x, w[2])
  BY <1>1 DEF Effect
<1>5. M \in Nat /\ \A h \in B : h \in LocalPlaces /\ h[1] \in Nat /\ h[1] < M
  BY <1>3, <1>4, LocalFacts DEF CallEffect, UpTo
<1>6. Base(M, B)
  BY <1>3, <1>5 DEF Base
<1>7. b.may = B \cup {x.to} /\ b.must = {x.to} /\ ~b.new
  BY <1>3 DEF St
<1> HIDE DEF b
<1>8. Weaker(b, w[2])
  BY <1>4, <1>7 DEF CallEffect, Weaker
<1>9. fresh = Null /\ \A h \in LocalPlaces : ptr[h] # Null => h \in B
  BY <1>4 DEF Matches, CallEffect
<1>10. Matches(St(M, B, {}, {}))
  BY <1>9 DEF Matches, St
<1>11. Matches(Begun(B))
  BY <1>9 DEF Matches, Begun
<1>12. \A h \in w[1].may : h \in LocalPlaces /\ h[1] < M => h \in B
  OBVIOUS
<1>13. CASE x.op = "format"
  <2>1. Runs(M, B, p, St(M, B, {}, {}), b)
    BY <1>6, <1>13, FormatLeads DEF Leads, b
  <2> HIDE DEF B
  <2>2. QED
    BY <1>2, <1>8, <1>10, <1>12, <2>1, Expanded DEF B
<1>14. CASE x.op = "child"
  <2>1. Runs(M, B, p, Begun(B), b)
    BY <1>6, <1>14, ChildRuns DEF b
  <2>2. QED
    BY <1>2, <1>8, <1>11, <1>12, <2>1, Expanded
<1>15. QED
  BY <1>13, <1>14

(* What the other parts of a call have in common *)
LEMMA PartFacts ==
  ASSUME Plan(todo), todo # <<>>, NEW w, Follows(todo, w), Matches(w[1]), todo[1].op \in CallParts
  PROVE  LET x == todo[1]
             M == x.to[1]
             B == {h \in w[1].may : h \in LocalPlaces /\ h[1] < M}
         IN  /\ Effect(w[1], x, w[2]) /\ w[1] \in Knowledge /\ w[2] \in Knowledge /\ x \in Op
             /\ x.to = <<M, "fval">> /\ M \in Levels /\ M \in Nat
             /\ Base(M, B) /\ B \subseteq w[1].may /\ LowIn(w[1], M, B)
             /\ \A h \in w[1].may : h \in LocalPlaces /\ h[1] < M => h \in B
             /\ UpTo(w[1], M) => \A h \in w[1].may : h \in B \/ (h = <<M, h[2]>> /\ h[2] \in Names)
<1> DEFINE x == todo[1]
           M == x.to[1]
           B == {h \in w[1].may : h \in LocalPlaces /\ h[1] < M}
<1>1. Effect(w[1], x, w[2]) /\ w[1] \in Knowledge /\ w[2] \in Knowledge /\ x \in Op
  BY TailFollows, HeadAndTail
<1>2. x.op \in {"format", "wrap", "child", "pos_file", "read", "guard"}
  BY DEF CallParts
<1>3. x.to = <<M, "fval">> /\ M \in Levels
  BY <1>1, <1>2 DEF Op, Copies, Basics, Parts
<1>4. M \in Nat
  BY <1>3, LocalFacts
<1>5. Base(M, B)
  BY <1>3 DEF Base
<1>6. LowIn(w[1], M, B)
  BY DEF LowIn
<1>7. UpTo(w[1], M) => \A h \in w[1].may : h \in B \/ (h = <<M, h[2]>> /\ h[2] \in Names)
  <2> SUFFICES ASSUME UpTo(w[1], M), NEW h \in w[1].may PROVE h \in B \/ (h = <<M, h[2]>> /\ h[2] \in Names)
    OBVIOUS
  <2>1. h \in LocalPlaces /\ h[1] <= M
    BY DEF UpTo
  <2>2. h = <<h[1], h[2]>> /\ h[1] \in Nat /\ h[2] \in Names
    BY <2>1, LocalFacts
  <2>3. h[1] < M \/ h[1] = M
    BY <1>4, <2>1, <2>2
  <2>4. QED
    BY <2>1, <2>2, <2>3
<1>8. QED
  BY <1>1, <1>3, <1>4, <1>5, <1>6, <1>7

(* The result may get its proxy *)
LEMMA WrapStep ==
  ASSUME Plan(todo), todo # <<>>, NEW w, Follows(todo, w), Matches(w[1]), todo[1].op = "wrap",
         NEW p, p \in {<<>>, Wrap(todo[1].to[1])}
  PROVE  Plan(p \o Tail(todo)) /\ \E y : Follows(p \o Tail(todo), y) /\ Matches(y[1])
<1> DEFINE x == todo[1]
           M == x.to[1]
           B == {h \in w[1].may : h \in LocalPlaces /\ h[1] < M}
           a == St(M, B, {"fval"}, {"fval"})
<1>1. x.op \in CallParts
  BY DEF CallParts
<1>2. /\ Effect(w[1], x, w[2]) /\ x.to = <<M, "fval">> /\ Base(M, B) /\ B \subseteq w[1].may
      /\ \A h \in w[1].may : h \in LocalPlaces /\ h[1] < M => h \in B
      /\ UpTo(w[1], M) => \A h \in w[1].may : h \in B \/ (h = <<M, h[2]>> /\ h[2] \in Names)
  BY <1>1, PartFacts
<1>3. WrapEffect(w[1], x, w[2])
  BY <1>2 DEF Effect
<1>4. \A h \in w[1].may : h \in B \/ h = x.to
  BY <1>2, <1>3 DEF WrapEffect
<1>5. a.may = B \cup {x.to} /\ a.must = {x.to} /\ ~a.new
  <2>1. x.to = <<M, "fval">>
    BY <1>2
  <2> HIDE DEF B
  <2>2. QED
    BY <2>1 DEF St
<1>6. Runs(M, B, p, a, a)
  BY <1>2, WrapLeads DEF Leads
<1> HIDE DEF a, B
<1>7. Weaker(a, w[2])
  BY <1>2, <1>3, <1>5 DEF WrapEffect, Weaker
<1>8. Matches(a)
  BY <1>3, <1>4, <1>5 DEF WrapEffect, Matches
<1>9. QED
  BY <1>1, <1>2, <1>6, <1>7, <1>8, Expanded

(* The position may have a file *)
LEMMA PosFileStep ==
  ASSUME Plan(todo), todo # <<>>, NEW w, Follows(todo, w), Matches(w[1]), todo[1].op = "pos_file",
         NEW p \in PosFilePlans(todo[1].to[1])
  PROVE  Plan(p \o Tail(todo)) /\ \E y : Follows(p \o Tail(todo), y) /\ Matches(y[1])
<1> DEFINE x == todo[1]
           M == x.to[1]
           B == {h \in w[1].may : h \in LocalPlaces /\ h[1] < M}
           X == {v \in Names : <<M, v>> \in w[1].may}
           U == {v \in Names : <<M, v>> \in w[1].must}
           a == St(M, B, X, U)
           b == St(M, B, X \cup {"br_pos_file"}, U \cap X)
<1>1. x.op \in CallParts
  BY DEF CallParts
<1>2. /\ Effect(w[1], x, w[2]) /\ Base(M, B) /\ B \subseteq w[1].may /\ M \in Nat
      /\ \A h \in w[1].may : h \in LocalPlaces /\ h[1] < M => h \in B
      /\ UpTo(w[1], M) => \A h \in w[1].may : h \in B \/ (h = <<M, h[2]>> /\ h[2] \in Names)
  BY <1>1, PartFacts
<1>3. PosFileEffect(w[1], x, w[2])
  BY <1>2 DEF Effect
<1>4. \A h \in w[1].may : h \in B \/ h \in {<<M, v>> : v \in X}
  BY <1>2, <1>3 DEF PosFileEffect
<1>5. "br_pos_file" \notin X /\ "str" \notin X /\ "obj" \notin X
  BY <1>3 DEF PosFileEffect
<1>6. a.may = w[1].may /\ a.must \subseteq w[1].must /\ ~a.new
  <2>1. {<<M, v>> : v \in X} \subseteq w[1].may
    OBVIOUS
  <2>2. QED
    BY <1>2, <1>4, <2>1 DEF St
<1>7. Runs(M, B, p, a, b)
  <2>1. X \in SUBSET Names /\ U \in SUBSET Names
    OBVIOUS
  <2> HIDE DEF X, U, B
  <2>2. QED
    BY <1>2, <1>5, <2>1, PosFileLeads DEF Leads
<1>8. b.may \subseteq w[2].may
  <2>1. b.may = a.may \cup {<<M, "br_pos_file">>}
    BY DEF St
  <2>2. QED
    BY <1>3, <1>6, <2>1 DEF PosFileEffect
<1>9. w[2].must \subseteq b.must
  <2> SUFFICES ASSUME NEW h \in w[2].must PROVE h \in b.must
    OBVIOUS
  <2>1. h \in w[1].must /\ h \in w[1].may /\ h[1] = M
    BY <1>3 DEF PosFileEffect
  <2>2. h \notin B
    <3>1. M \in Nat /\ ~(M < M)
      BY <1>2
    <3>2. QED
      BY <2>1, <3>1
  <2>3. h = <<M, h[2]>> /\ h[2] \in Names
    BY <1>2, <1>3, <2>1, <2>2 DEF PosFileEffect
  <2>4. h[2] \in U \cap X
    BY <2>1, <2>3
  <2>5. QED
    BY <2>3, <2>4 DEF St
<1>10. ~b.new
  BY DEF St
<1> HIDE DEF a, b, B
<1>11. Weaker(b, w[2])
  BY <1>8, <1>9, <1>10 DEF Weaker
<1>12. Matches(a)
  BY <1>3, <1>6 DEF PosFileEffect, Matches
<1>13. QED
  BY <1>1, <1>2, <1>7, <1>11, <1>12, Expanded

(* Reading a position, which may throw *)
LEMMA ReadStep ==
  ASSUME Plan(todo), todo # <<>>, NEW w, Follows(todo, w), Matches(w[1]), todo[1].op = "read",
         NEW p \in ReadPlans(todo[1].to[1])
  PROVE  Plan(p \o Tail(todo)) /\ \E y : Follows(p \o Tail(todo), y) /\ Matches(y[1])
<1> DEFINE x == todo[1]
           M == x.to[1]
           B == {h \in w[1].may : h \in LocalPlaces /\ h[1] < M}
<1>1. x.op \in CallParts
  BY DEF CallParts
<1>2. /\ Effect(w[1], x, w[2]) /\ Base(M, B) /\ B \subseteq w[1].may /\ LowIn(w[1], M, B)
      /\ w[1] \in Knowledge /\ w[2] \in Knowledge /\ M \in Levels
      /\ \A h \in w[1].may : h \in LocalPlaces /\ h[1] < M => h \in B
  BY <1>1, PartFacts
<1>3. Weaker(w[1], w[2])
  BY <1>2 DEF Effect, ReadEffect
<1>4. p \in {<<>>, Throw(M)}
  BY DEF ReadPlans
<1> HIDE DEF B
<1>5. Leads(M, B, <<>>, w[1], w[2])
  BY <1>2, <1>3, NoneLeads
<1>6. Leads(M, B, Throw(M), w[1], w[2])
  BY <1>2, ThrowAnyLeads
<1>7. Runs(M, B, p, w[1], w[2])
  BY <1>4, <1>5, <1>6 DEF Leads
<1>8. Weaker(w[2], w[2])
  BY DEF Weaker
<1>9. QED
  BY <1>1, <1>2, <1>7, <1>8, Expanded

(* A handler that has nothing to catch *)
LEMMA GuardStep ==
  ASSUME Plan(todo), todo # <<>>, NEW w, Follows(todo, w), Matches(w[1]), todo[1].op = "guard"
  PROVE  Plan(<<>> \o Tail(todo)) /\ \E y : Follows(<<>> \o Tail(todo), y) /\ Matches(y[1])
<1> DEFINE x == todo[1]
           M == x.to[1]
           B == {h \in w[1].may : h \in LocalPlaces /\ h[1] < M}
<1>1. x.op \in CallParts
  BY DEF CallParts
<1>2. /\ Effect(w[1], x, w[2]) /\ Base(M, B) /\ B \subseteq w[1].may
      /\ w[1] \in Knowledge /\ w[2] \in Knowledge
      /\ \A h \in w[1].may : h \in LocalPlaces /\ h[1] < M => h \in B
  BY <1>1, PartFacts
<1>3. Weaker(w[1], w[2])
  BY <1>2 DEF Effect, GuardEffect, Weaker
<1> HIDE DEF B
<1>4. Runs(M, B, <<>>, w[1], w[2])
  BY <1>2, <1>3, NoneLeads DEF Leads
<1>5. Weaker(w[2], w[2])
  BY DEF Weaker
<1>6. QED
  BY <1>1, <1>2, <1>4, <1>5, Expanded

-----------------------------------------------------------------------------
(* Operations on references do what the trace says *)

(* The trace of the operation that runs *)
LEMMA RunningTrace ==
  ASSUME IInv, NEW op, Running(op), NEW w, Follows(todo, w)
  PROVE  /\ Plan(todo) /\ todo # <<>> /\ Head(todo) = todo[1] /\ todo[1] \in Op /\ todo[1].op = op
         /\ Effect(w[1], todo[1], w[2]) /\ w[1] \in Knowledge /\ w[2] \in Knowledge
         /\ \E v : Follows(Tail(todo), v) /\ v[1] = w[2]
<1>1. Plan(todo)
  BY InvariantParts
<1>2. todo # <<>> /\ Head(todo).op = op
  BY DEF Running
<1>3. QED
  BY <1>1, <1>2, HeadAndTail, TailFollows

(* make_unique *)
LEMMA AllocateKnown ==
  ASSUME IInv, Allocate, NEW w, Follows(todo, w), Matches(w[1])
  PROVE  \E v : Follows(todo, v)' /\ Matches(v[1])'
<1> DEFINE x == todo[1]
<1>1. /\ x.op = "make_unique" /\ Effect(w[1], x, w[2])
      /\ \E v : Follows(Tail(todo), v) /\ v[1] = w[2]
  BY RunningTrace DEF Allocate
<1>2. MakeEffect(w[1], w[2])
  BY <1>1 DEF Effect
<1>3. /\ fresh' \in Free /\ todo' = Tail(todo) /\ ptr' = ptr
  BY DEF Allocate
<1>4. \A h \in LocalPlaces : h \notin NewMembers
  BY LocalFacts DEF NewMembers
<1>5. Matches(w[2])'
  BY <1>2, <1>3, <1>4 DEF Matches, MakeEffect, Free
<1>6. QED
  BY <1>1, <1>3, <1>5 DEF Follows

(* The first reference *)
LEMMA OwnKnown ==
  ASSUME IInv, OwnObject, NEW w, Follows(todo, w), Matches(w[1])
  PROVE  /\ \E v : Follows(todo, v)' /\ Matches(v[1])'
         /\ lost' = lost
<1> DEFINE x == todo[1]
<1>1. /\ x.op = "own" /\ Effect(w[1], x, w[2]) /\ Head(todo) = x
      /\ \E v : Follows(Tail(todo), v) /\ v[1] = w[2]
  BY RunningTrace DEF OwnObject
<1>2. OwnEffect(w[1], x, w[2])
  BY <1>1 DEF Effect
<1>3. /\ fresh # Null /\ ptr' = [ptr EXCEPT ![x.to] = fresh] /\ lost' = Lose(x.to)
      /\ fresh' = Null /\ todo' = Tail(todo)
  BY <1>1 DEF OwnObject
<1>4. ptr \in [Holders -> Objects \cup {Null}] /\ x.to \in Holders
  BY <1>2, LocalFacts DEF IInv, TypeOK, OwnEffect
<1>5. ptr[x.to] = Null
  BY <1>2 DEF OwnEffect, Matches
<1>6. \A h \in LocalPlaces : h \notin NewMembers
  BY LocalFacts DEF NewMembers
<1>7. /\ ptr'[x.to] = fresh /\ \A h \in Holders \ {x.to} : ptr'[h] = ptr[h]
  BY <1>3, <1>4
<1>8. \A h \in LocalPlaces : ptr'[h] # Null => h \in w[2].may
  BY <1>2, <1>6, <1>7, LocalFacts DEF Matches, OwnEffect
<1>9. \A h \in w[2].must : ptr'[h] # Null
  <2>1. w[2].must \subseteq Holders
    BY RunningTrace DEF OwnObject, Knowledge
  <2>2. QED
    BY <1>2, <1>3, <1>7, <2>1 DEF Matches, OwnEffect
<1>10. Matches(w[2])'
  BY <1>3, <1>8, <1>9 DEF Matches
<1>11. lost' = lost
  BY <1>3, <1>5 DEF Lose
<1>12. QED
  BY <1>1, <1>3, <1>10, <1>11 DEF Follows

(* A copied reference *)
LEMMA CopyKnown ==
  ASSUME IInv, CopyRef, NEW w, Follows(todo, w), Matches(w[1])
  PROVE  /\ \E v : Follows(todo, v)' /\ Matches(v[1])'
         /\ lost' = lost
<1> DEFINE x == todo[1]
           to == At(x.to)
           o == ptr[x.from]
<1>1. /\ x.op = "copy" /\ Effect(w[1], x, w[2]) /\ Head(todo) = x /\ x \in Op
      /\ \E v : Follows(Tail(todo), v) /\ v[1] = w[2]
      /\ w[2].must \subseteq Holders
  <2>1. Running("copy")
    BY DEF CopyRef
  <2>2. QED
    BY <2>1, RunningTrace DEF Knowledge
<1>2. CopyEffect(w[1], x, w[2])
  BY <1>1 DEF Effect
<1>3. /\ to \in Holders /\ ptr' = [ptr EXCEPT ![to] = o] /\ lost' = Lose(to)
      /\ fresh' = fresh /\ todo' = Tail(todo)
  BY <1>1 DEF CopyRef
<1>4. ptr \in [Holders -> Objects \cup {Null}] /\ x.from \in Holders
  BY <1>1, OpPlaces DEF IInv, TypeOK
<1>5. x.to \in LocalPlaces \cup NewMembers /\ x.to \notin w[1].may
  BY <1>2 DEF CopyEffect
<1>6. \A m : <<Null, m>> \notin Holders
  BY RefCountedAssumption DEF Holders, Roots, RawLocals, RefLocals, Levels
<1>7. \/ x.to \in LocalPlaces /\ to = x.to
      \/ \E m \in Members : x.to = <<Fresh, m>> /\ to = <<fresh, m>> /\ fresh # Null
  <2>1. CASE x.to \in LocalPlaces
    BY <2>1, LocalFacts DEF At
  <2>2. CASE x.to \in NewMembers
    <3>1. PICK m \in Members : x.to = <<Fresh, m>>
      BY <2>2 DEF NewMembers
    <3>2. to = <<fresh, m>>
      BY <3>1 DEF At
    <3>3. QED
      BY <1>3, <1>6, <3>1, <3>2
  <2>3. QED
    BY <1>5, <2>1, <2>2
<1> HIDE DEF to
<1>8. ptr[to] = Null
  BY <1>5, <1>7 DEF Matches
<1>9. /\ ptr'[to] = o /\ \A h \in Holders \ {to} : ptr'[h] = ptr[h]
  BY <1>3, <1>4
<1>10. \A h \in LocalPlaces : ptr'[h] # Null => h \in w[2].may
  <2> SUFFICES ASSUME NEW h \in LocalPlaces, ptr'[h] # Null PROVE h \in w[2].may
    OBVIOUS
  <2>1. CASE h # to
    BY <1>2, <1>9, <2>1, LocalFacts DEF Matches, CopyEffect
  <2>2. CASE h = to
    <3>1. \A m : fresh # Null => <<fresh, m>> \notin LocalPlaces
      BY RefCountedAssumption, LocalFacts DEF IInv, TypeOK, Levels
    <3>2. x.to = h
      BY <1>7, <2>2, <3>1
    <3>3. QED
      BY <1>2, <3>2 DEF CopyEffect
  <2>3. QED
    BY <2>1, <2>2
<1>11. \A h \in w[2].must : ptr'[h] # Null
  <2> SUFFICES ASSUME NEW h \in w[2].must PROVE ptr'[h] # Null
    OBVIOUS
  <2>1. h \in w[1].must \/ (x.from \in w[1].must /\ h = x.to /\ h \in LocalPlaces)
    BY <1>2 DEF CopyEffect
  <2>2. CASE h \in w[1].must
    <3>1. ptr[h] # Null /\ h \in Holders
      BY <1>1, <2>2 DEF Matches
    <3>2. QED
      BY <1>8, <1>9, <3>1
  <2>3. CASE x.from \in w[1].must /\ h = x.to /\ h \in LocalPlaces
    <3>1. to = h
      BY <1>7, <2>3, LocalFacts
    <3>2. QED
      BY <1>9, <2>3, <3>1 DEF Matches
  <2>4. QED
    BY <2>1, <2>2, <2>3
<1>12. ASSUME fresh # Null
       PROVE  w[2].new /\ \A m \in Members : ptr'[<<fresh, m>>] # Null => <<Fresh, m>> \in w[2].may
  <2>1. w[2].new
    BY <1>2, <1>12 DEF Matches, CopyEffect
  <2>2. ASSUME NEW m \in Members, ptr'[<<fresh, m>>] # Null PROVE <<Fresh, m>> \in w[2].may
    <3>1. fresh \in Objects /\ <<fresh, m>> \in Holders /\ <<fresh, m>> \notin LocalPlaces
      BY <1>12, MemberHolders, RefCountedAssumption, LocalFacts DEF IInv, TypeOK, Levels
    <3>2. CASE to = <<fresh, m>>
      <4>1. x.to = <<Fresh, m>>
        BY <1>7, <3>1, <3>2
      <4>2. QED
        BY <1>2, <4>1 DEF CopyEffect
    <3>3. CASE to # <<fresh, m>>
      <4>1. ptr[<<fresh, m>>] # Null
        BY <1>9, <2>2, <3>1, <3>3
      <4>2. QED
        BY <1>2, <1>12, <4>1 DEF Matches, CopyEffect
    <3>4. QED
      BY <3>2, <3>3
  <2>3. QED
    BY <2>1, <2>2
<1>13. Matches(w[2])'
  BY <1>3, <1>10, <1>11, <1>12 DEF Matches
<1>14. lost' = lost
  BY <1>3, <1>8 DEF Lose
<1>15. QED
  BY <1>1, <1>3, <1>13, <1>14 DEF Follows

(* Two references are exchanged *)
LEMMA SwapKnown ==
  ASSUME IInv, SwapRefs, NEW w, Follows(todo, w), Matches(w[1])
  PROVE  \E v : Follows(todo, v)' /\ Matches(v[1])'
<1> DEFINE x == todo[1]
           g == x.to
           f == x.from
<1>1. /\ x.op = "swap" /\ Effect(w[1], x, w[2]) /\ Head(todo) = x
      /\ \E v : Follows(Tail(todo), v) /\ v[1] = w[2]
      /\ w[2].must \subseteq Holders
  <2>1. Running("swap")
    BY DEF SwapRefs
  <2>2. QED
    BY <2>1, RunningTrace DEF Knowledge
<1>2. SwapEffect(w[1], x, w[2])
  BY <1>1 DEF Effect
<1>3. /\ ptr' = [ptr EXCEPT ![g] = ptr[f], ![f] = ptr[g]]
      /\ fresh' = fresh /\ todo' = Tail(todo)
  BY <1>1 DEF SwapRefs
<1>4. /\ ptr \in [Holders -> Objects \cup {Null}] /\ g \in Holders /\ f \in Holders
      /\ f \in LocalPlaces /\ g \in Roots /\ g # f
  BY <1>2, LocalFacts DEF IInv, TypeOK, SwapEffect, Holders
<1> HIDE DEF g, f
<1>5. /\ ptr'[g] = ptr[f] /\ ptr'[f] = ptr[g] /\ \A h \in Holders \ {f, g} : ptr'[h] = ptr[h]
  BY <1>3, <1>4
<1>6. \A h \in LocalPlaces : ptr'[h] # Null => h \in w[2].may
  BY <1>2, <1>4, <1>5, LocalFacts DEF Matches, SwapEffect, g, f
<1>7. \A h \in w[2].must : ptr'[h] # Null
  BY <1>1, <1>2, <1>4, <1>5 DEF Matches, SwapEffect, g, f
<1>8. ASSUME fresh # Null, NEW m \in Members
      PROVE  ptr'[<<fresh, m>>] = ptr[<<fresh, m>>] /\ <<Fresh, m>> \notin {f, g}
  <2>1. fresh \in Objects /\ <<fresh, m>> \in Holders /\ <<fresh, m>> \notin Roots /\ <<Fresh, m>> \notin Roots
    BY <1>8, MemberHolders, RefCountedAssumption DEF IInv, TypeOK, Levels, Roots, RawLocals, RefLocals
  <2>2. f \in Roots
    BY <1>4, LocalFacts
  <2>3. QED
    BY <1>4, <1>5, <2>1, <2>2
<1>9. ASSUME fresh # Null
      PROVE  w[2].new /\ \A m \in Members : ptr'[<<fresh, m>>] # Null => <<Fresh, m>> \in w[2].may
  BY <1>2, <1>8, <1>9 DEF Matches, SwapEffect, g, f
<1>10. Matches(w[2])'
  BY <1>3, <1>6, <1>7, <1>9 DEF Matches
<1>11. QED
  BY <1>1, <1>3, <1>10 DEF Follows

(* The members of an object are destroyed *)
LEMMA DestructorShape ==
  ASSUME NEW o \in Objects
  PROVE  Plan(Destructor(o)) /\ Destroying(Destructor(o))
<1> DEFINE r(m) == [op |-> "release", to |-> <<o, m>>, from |-> <<o, m>>]
           x == r("orig_res")
           y == r("pointee_fval")
           z == r("target")
           p == <<x>> \o <<y>> \o <<z>>
<1>1. "orig_res" \in Members /\ "pointee_fval" \in Members /\ "target" \in Members
  BY DEF Members
<1>2. \A m \in Members : r(m) \in Op /\ r(m).op = "release" /\ r(m).to \in Objects \X Members
  BY MemberHolders DEF Op, Basics
<1>3. /\ x \in Op /\ y \in Op /\ z \in Op
      /\ x.op = "release" /\ y.op = "release" /\ z.op = "release"
      /\ x.to \in Objects \X Members /\ y.to \in Objects \X Members /\ z.to \in Objects \X Members
  BY <1>1, <1>2
<1>4. Destructor(o) = p
  BY DEF Destructor, Release, Do
<1> HIDE DEF x, y, z
<1>5. /\ Len(p) = 3 /\ p[1] = x /\ p[2] = y /\ p[3] = z /\ Plan(p)
      /\ \A k \in 1 .. Len(p) : k \in {1, 2, 3}
  BY <1>3, ThreePlaces
<1> HIDE DEF p
<1>6. Destroying(p)
  BY <1>3, <1>5 DEF Destroying
<1>7. QED
  BY <1>4, <1>5, <1>6

(* Destroying members changes nothing that is known *)
LEMMA DestroyingFollows ==
  ASSUME NEW d, Plan(d), Destroying(d), NEW t, Plan(t), NEW v, Follows(t, v),
         v[1].must \subseteq LocalPlaces
  PROVE  Plan(d \o t) /\ \E y : Follows(d \o t, y) /\ Weaker(v[1], y[1])
<1> DEFINE c == v[1]
           u == [k \in 1 .. Len(d) + 1 |-> c]
<1>1. /\ Len(d) \in Nat /\ Len(t) \in Nat /\ Plan(d \o t) /\ Len(d \o t) = Len(d) + Len(t)
  BY JoinedPlaces
<1>2. Traces(t, v) /\ Catches(t, v) /\ v[Len(t) + 1].may = {} /\ ~v[Len(t) + 1].new
  BY DEF Follows
<1>3. c \in Knowledge
  <2>1. 1 \in 1 .. Len(t) + 1
    BY <1>1
  <2>2. QED
    BY <1>2, <2>1 DEF Traces
<1>4. \A g \in Objects \X Members : g \notin LocalPlaces
  BY LocalFacts, RefCountedAssumption DEF Levels
<1>5. \A k \in 1 .. Len(d) : Effect(c, d[k], c)
  <2> SUFFICES ASSUME NEW k \in 1 .. Len(d) PROVE Effect(c, d[k], c)
    OBVIOUS
  <2>1. d[k].op = "release" /\ d[k].to \notin LocalPlaces
    BY <1>4 DEF Destroying
  <2>2. ReleaseEffect(c, d[k], c)
    BY <2>1 DEF ReleaseEffect
  <2>3. QED
    BY <2>1, <2>2 DEF Effect
<1>6. \A k \in 1 .. Len(d) : d[k].op # "guard" /\ ~Throws(d[k])
  BY DEF Destroying, Throws, CallParts
<1>7. \A k \in 1 .. Len(d) + 1 : u[k] = c
  OBVIOUS
<1>8. u \in [1 .. Len(d) + 1 -> Knowledge]
  BY <1>3
<1>9. 1 \in 1 .. Len(d) + 1 /\ Len(d) + 1 \in 1 .. Len(d) + 1
  BY <1>1
<1> HIDE DEF u, c
<1>10. Traces(d, u)
  <2>1. \A k \in 1 .. Len(d) : k \in 1 .. Len(d) + 1 /\ k + 1 \in 1 .. Len(d) + 1
    BY <1>1
  <2>2. \A k \in 1 .. Len(d) : u[k] = c /\ u[k + 1] = c
    BY <1>7, <2>1
  <2>3. QED
    BY <1>5, <1>8, <2>2 DEF Traces
<1>11. Catches(d, u) /\ HandlersFind(d, u, t, v)
  BY <1>6 DEF Catches, HandlersFind
<1>12. u[1] = c /\ u[Len(d) + 1] = c /\ Weaker(u[Len(d) + 1], v[1])
  BY <1>7, <1>9 DEF c, Weaker
<1> DEFINE y == Joined(d, u, t, v)
<1>13. /\ Traces(d \o t, y) /\ Catches(d \o t, y) /\ Weaker(u[1], y[1])
       /\ \A k \in 1 .. Len(t) + 1 : y[Len(d) + k] = v[k]
  BY <1>2, <1>10, <1>11, <1>12, JoinTraces
<1> HIDE DEF y
<1>14. y[Len(d \o t) + 1] = v[Len(t) + 1]
  <2>1. Len(t) + 1 \in 1 .. Len(t) + 1 /\ Len(d \o t) + 1 = Len(d) + (Len(t) + 1)
    BY <1>1
  <2>2. QED
    BY <1>13, <2>1
<1>15. Follows(d \o t, y) /\ Weaker(v[1], y[1])
  BY <1>2, <1>12, <1>13, <1>14 DEF Follows, c
<1>16. QED
  BY <1>1, <1>15

(* Releasing a reference only empties its place *)
LEMMA ReleaseOnlyEmpties ==
  ASSUME IInv, NEW h \in Holders, NEW rest, ReleaseAt(h, rest)
  PROVE  /\ ptr'[h] = Null /\ \A g \in Holders \ {h} : ptr'[g] = ptr[g]
         /\ fresh' = fresh /\ lost' = lost /\ unwinding' = unwinding
         /\ \/ todo' = rest
            \/ \E o \in Objects : todo' = Destructor(o) \o rest
<1>1. ptr \in [Holders -> Objects \cup {Null}]
  BY DEF IInv, TypeOK
<1>2. ptr' = [ptr EXCEPT ![h] = Null]
  BY DEF ReleaseAt
<1>3. \/ todo' = rest
      \/ \E o \in Objects : todo' = Destructor(o) \o rest
  BY <1>1 DEF ReleaseAt
<1>4. QED
  BY <1>1, <1>2, <1>3 DEF ReleaseAt

(* A reference is released *)
LEMMA ReleaseKnown ==
  ASSUME IInv, ReleaseRef, NEW w, Follows(todo, w), Matches(w[1])
  PROVE  /\ \E v : Follows(todo, v)' /\ Matches(v[1])'
         /\ lost' = lost
<1> DEFINE x == todo[1]
           h == x.to
           t == Tail(todo)
<1>1. /\ x.op = "release" /\ Effect(w[1], x, w[2]) /\ Head(todo) = x /\ x \in Op /\ Plan(t)
      /\ \E v : Follows(t, v) /\ v[1] = w[2]
      /\ w[2].must \subseteq Holders
  <2>1. Running("release")
    BY DEF ReleaseRef
  <2>2. QED
    BY <2>1, RunningTrace, HeadAndTail DEF Knowledge
<1>2. ReleaseEffect(w[1], x, w[2])
  BY <1>1 DEF Effect
<1>3. h \in Holders
  BY <1>1, OpPlaces
<1>4. ReleaseAt(h, t)
  BY <1>1 DEF ReleaseRef
<1> HIDE DEF h, t
<1>5. /\ ptr'[h] = Null /\ \A g \in Holders \ {h} : ptr'[g] = ptr[g]
      /\ fresh' = fresh /\ lost' = lost
      /\ todo' = t \/ \E o \in Objects : todo' = Destructor(o) \o t
  BY <1>3, <1>4, ReleaseOnlyEmpties
<1>6. Matches(w[2])'
  <2>1. \A g \in LocalPlaces : ptr'[g] # Null => g \in w[2].may
    BY <1>2, <1>5, LocalFacts DEF Matches, ReleaseEffect, h
  <2>2. \A g \in w[2].must : ptr'[g] # Null
    BY <1>1, <1>2, <1>5 DEF Matches, ReleaseEffect, h
  <2>3. ASSUME fresh # Null
        PROVE  w[2].new /\ \A m \in Members : ptr'[<<fresh, m>>] # Null => <<Fresh, m>> \in w[2].may
    <3>1. fresh \in Objects
      BY <2>3 DEF IInv, TypeOK
    <3>2. w[2].new
      BY <1>2, <2>3 DEF Matches, ReleaseEffect
    <3>3. ASSUME NEW m \in Members, ptr'[<<fresh, m>>] # Null PROVE <<Fresh, m>> \in w[2].may
      <4>1. <<fresh, m>> \in Holders \ {h} /\ ptr[<<fresh, m>>] # Null
        BY <1>5, <3>1, <3>3, MemberHolders
      <4>2. <<Fresh, m>> \in w[1].may
        BY <2>3, <4>1 DEF Matches
      <4>3. <<Fresh, m>> \notin Holders
        BY RefCountedAssumption DEF Holders, Roots, RawLocals, RefLocals, Levels
      <4>4. QED
        BY <1>2, <1>3, <4>2, <4>3 DEF ReleaseEffect, h
    <3>4. QED
      BY <3>2, <3>3
  <2>4. QED
    BY <1>5, <2>1, <2>2, <2>3 DEF Matches
<1>7. PICK v : Follows(t, v) /\ v[1] = w[2]
  BY <1>1
<1>8. CASE todo' = t
  BY <1>5, <1>6, <1>7, <1>8 DEF Follows
<1>9. CASE \E o \in Objects : todo' = Destructor(o) \o t
  <2>1. PICK o \in Objects : todo' = Destructor(o) \o t
    BY <1>9
  <2>2. v[1].must \subseteq LocalPlaces
    BY <1>2, <1>7 DEF ReleaseEffect
  <2>3. PICK y : Follows(Destructor(o) \o t, y) /\ Weaker(v[1], y[1])
    BY <1>1, <1>7, <2>2, DestructorShape, DestroyingFollows
  <2>4. Matches(y[1])'
    BY <1>6, <1>7, <2>3 DEF Matches, Weaker
  <2>5. Follows(todo', y)
    BY <2>1, <2>3
  <2>6. QED
    BY <1>5, <2>4, <2>5 DEF Follows
<1>10. QED
  BY <1>5, <1>8, <1>9

(* A part of the call proceeds *)
LEMMA ProceedKnown ==
  ASSUME IInv, Proceed, NEW w, Follows(todo, w), Matches(w[1])
  PROVE  /\ \E v : Follows(todo, v)' /\ Matches(v[1])'
         /\ lost' = lost
<1> DEFINE L == Head(todo).to[1]
<1>1. /\ Plan(todo)
      /\ \A op : Running(op) => todo # <<>> /\ Head(todo) = todo[1] /\ todo[1].op = op /\ todo[1] \in Op
  <2>1. Plan(todo)
    BY InvariantParts
  <2>2. ASSUME NEW op, Running(op)
        PROVE  todo # <<>> /\ Head(todo) = todo[1] /\ todo[1].op = op /\ todo[1] \in Op
    BY <2>2, RunningTrace
  <2>3. QED
    BY <2>1, <2>2
<1>2. ASSUME NEW op, NEW plans, Expand(op, plans),
             \A p \in plans : \E y : Follows(p \o Tail(todo), y) /\ Matches(y[1])
      PROVE  /\ \E v : Follows(todo, v)' /\ Matches(v[1])'
             /\ lost' = lost
  <2>1. PICK p \in plans : todo' = p \o Tail(todo)
    BY <1>2 DEF Expand
  <2>2. PICK y : Follows(p \o Tail(todo), y) /\ Matches(y[1])
    BY <1>2
  <2>3. ptr' = ptr /\ fresh' = fresh /\ lost' = lost
    BY <1>2 DEF Expand
  <2>4. Follows(todo, y)' /\ Matches(y[1])'
    BY <2>1, <2>2, <2>3 DEF Follows, Matches
  <2>5. QED
    BY <2>3, <2>4
<1>3. CASE Expand("format", FormatPlans(L))
  <2>1. todo # <<>> /\ Head(todo) = todo[1] /\ todo[1].op = "format"
    BY <1>1, <1>3 DEF Expand
  <2>2. L = todo[1].to[1]
    BY <2>1
  <2> HIDE DEF L
  <2>3. ASSUME NEW p \in FormatPlans(L)
        PROVE  \E y : Follows(p \o Tail(todo), y) /\ Matches(y[1])
    BY <1>1, <2>1, <2>2, <2>3, FormatStep
  <2>4. QED
    BY <1>2, <1>3, <2>3
<1>4. CASE Expand("wrap", {<<>>, Wrap(L)})
  <2>1. todo # <<>> /\ Head(todo) = todo[1] /\ todo[1].op = "wrap"
    BY <1>1, <1>4 DEF Expand
  <2>2. \A p \in {<<>>, Wrap(L)} : \E y : Follows(p \o Tail(todo), y) /\ Matches(y[1])
    BY <1>1, <2>1, WrapStep
  <2>3. QED
    BY <1>2, <1>4, <2>2
<1>5. CASE /\ Running("child") /\ ptr[Head(todo).from] # Null
           /\ Expand("child", ChildPlans(L, ptr[Head(todo).from]))
  <2> DEFINE o == ptr[Head(todo).from]
  <2>1. todo # <<>> /\ Head(todo) = todo[1] /\ todo[1].op = "child" /\ todo[1] \in Op
    BY <1>1, <1>5
  <2>2. o \in Objects
    BY <1>5, <2>1, OpPlaces DEF IInv, TypeOK
  <2>3. L = todo[1].to[1]
    BY <2>1
  <2> HIDE DEF L, o
  <2>4. \A p \in ChildPlans(L, o) : \E y : Follows(p \o Tail(todo), y) /\ Matches(y[1])
    BY <1>1, <2>1, <2>2, <2>3, FormatStep
  <2>5. QED
    BY <1>2, <1>5, <2>4 DEF o
<1>6. CASE Expand("pos_file", PosFilePlans(L))
  <2>1. todo # <<>> /\ Head(todo) = todo[1] /\ todo[1].op = "pos_file"
    BY <1>1, <1>6 DEF Expand
  <2>2. L = todo[1].to[1]
    BY <2>1
  <2> HIDE DEF L
  <2>3. \A p \in PosFilePlans(L) : \E y : Follows(p \o Tail(todo), y) /\ Matches(y[1])
    BY <1>1, <2>1, <2>2, PosFileStep
  <2>4. QED
    BY <1>2, <1>6, <2>3
<1>7. CASE Expand("read", ReadPlans(L))
  <2>1. todo # <<>> /\ Head(todo) = todo[1] /\ todo[1].op = "read"
    BY <1>1, <1>7 DEF Expand
  <2>2. L = todo[1].to[1]
    BY <2>1
  <2> HIDE DEF L
  <2>3. \A p \in ReadPlans(L) : \E y : Follows(p \o Tail(todo), y) /\ Matches(y[1])
    BY <1>1, <2>1, <2>2, ReadStep
  <2>4. QED
    BY <1>2, <1>7, <2>3
<1>8. CASE Expand("guard", {<<>>})
  <2>1. todo # <<>> /\ todo[1].op = "guard"
    BY <1>1, <1>8 DEF Expand
  <2>2. \A p \in {<<>>} : \E y : Follows(p \o Tail(todo), y) /\ Matches(y[1])
    BY <1>1, <2>1, GuardStep
  <2>3. QED
    BY <1>2, <1>8, <2>2
<1>9. QED
  BY <1>3, <1>4, <1>5, <1>6, <1>7, <1>8 DEF Proceed

(* The debugger calls *)
LEMMA ClientKnown ==
  ASSUME IInv, Client, NEW w, Follows(todo, w), Matches(w[1])
  PROVE  /\ \E v : Follows(todo, v)' /\ Matches(v[1])'
         /\ lost' = lost
<1>1. todo = <<>> /\ ptr' = ptr /\ fresh' = fresh /\ lost' = lost
  BY DEF Client, ClientFormat, ClientCopy, ClientReset, ClientChild, ClientRead, Call
<1>2. Matches(NoLocals)
  <2>1. w[1].may = {} /\ ~w[1].new
    BY <1>1 DEF Follows
  <2>2. fresh = Null /\ \A h \in LocalPlaces : ptr[h] = Null
    BY <2>1 DEF Matches
  <2>3. QED
    BY <2>2 DEF Matches, NoLocals, St
<1>3. ASSUME NEW p, Leads(1, {}, p, NoLocals, NoLocals), todo' = p
      PROVE  /\ \E v : Follows(todo, v)' /\ Matches(v[1])'
             /\ lost' = lost
  <2>1. PICK v : /\ Traces(p, v) /\ Catches(p, v)
                 /\ Weaker(NoLocals, v[1]) /\ Weaker(v[Len(p) + 1], NoLocals)
    BY <1>3 DEF Leads, Runs
  <2>2. NoLocals.may = {} /\ ~NoLocals.new
    BY DEF NoLocals, St
  <2>3. Follows(p, v)
    BY <2>1, <2>2 DEF Follows, Weaker
  <2>4. Matches(v[1])
    BY <1>2, <2>1, MatchesWeaker
  <2>5. Follows(todo, v)' /\ Matches(v[1])'
    BY <1>1, <1>3, <2>3, <2>4 DEF Follows, Matches
  <2>6. QED
    BY <1>1, <2>5
<1>4. {"fval"} \in SUBSET {"fval"} /\ {} \in SUBSET {"fval"}
  OBVIOUS
<1>5. \A s \in Slots : <<0, s>> \in Holders
  BY DEF Holders, Roots
<1>6. <<1, "fval">> \in Holders
  BY TopBase, LocalFacts DEF Names, Refs
<1>7. ASSUME NEW s \in Slots, ClientFormat(s)
      PROVE  Leads(1, {}, todo', NoLocals, NoLocals)
  <2>1. Leads(1, {}, Do("format", <<1, "fval">>, <<1, "fval">>), NoLocals, St(1, {}, {"fval"}, {"fval"}))
    BY <1>6, TopCallLeads
  <2>2. Leads(1, {}, Assign(s), St(1, {}, {"fval"}, {"fval"}), NoLocals)
    BY <1>4, AssignLeads
  <2>3. QED
    BY <1>7, <2>1, <2>2, ComposeLeads DEF ClientFormat, Call
<1>8. ASSUME NEW s \in Slots, NEW c \in Slots, ClientCopy(s, c)
      PROVE  Leads(1, {}, todo', NoLocals, NoLocals)
  <2>1. Leads(1, {}, Copy(<<1, "fval">>, <<0, c>>), NoLocals, St(1, {}, {"fval"}, {}))
    BY TopCopyLeads
  <2>2. Leads(1, {}, Assign(s), St(1, {}, {"fval"}, {}), NoLocals)
    BY <1>4, AssignLeads
  <2>3. QED
    BY <1>8, <2>1, <2>2, ComposeLeads DEF ClientCopy, Call
<1>9. ASSUME NEW s \in Slots, ClientReset(s)
      PROVE  Leads(1, {}, todo', NoLocals, NoLocals)
  BY <1>9, ResetLeads DEF ClientReset, Call
<1>10. ASSUME NEW s \in Slots, NEW c \in Slots, ClientChild(s, c)
       PROVE  Leads(1, {}, todo', NoLocals, NoLocals)
  <2>1. Leads(1, {}, Do("child", <<1, "fval">>, <<0, c>>), NoLocals, St(1, {}, {"fval"}, {"fval"}))
    BY <1>5, TopCallLeads
  <2>2. Leads(1, {}, Assign(s), St(1, {}, {"fval"}, {"fval"}), NoLocals)
    BY <1>4, AssignLeads
  <2>3. QED
    BY <1>10, <2>1, <2>2, ComposeLeads DEF ClientChild, Call
<1>11. ASSUME NEW s \in Slots, ClientRead(s)
       PROVE  Leads(1, {}, todo', NoLocals, NoLocals)
  BY <1>11, TextLeads DEF ClientRead, Call
<1>12. Leads(1, {}, todo', NoLocals, NoLocals)
  BY <1>7, <1>8, <1>9, <1>10, <1>11 DEF Client
<1>13. QED
  BY <1>3, <1>12

-----------------------------------------------------------------------------
(* Exceptions *)

(* What is left for the handler, or nothing, has a trace *)
LEMMA HandlerFollows ==
  ASSUME Plan(todo), NEW w, Follows(todo, w), NEW i \in 1 .. Len(todo)
  PROVE  LET t == SubSeq(todo, i, Len(todo)) IN
         Plan(t) /\ t # <<>> /\ t[1] = todo[i] /\ \E v : Follows(t, v) /\ v[1] = w[i]
<1> DEFINE n == Len(todo)
           t == SubSeq(todo, i, n)
<1>1. n \in Nat /\ todo \in Seq(Op)
  BY LenProperties DEF Plan
<1>2. \A j \in i .. n : todo[j] \in Op
  BY <1>1, ElementOfSeq
<1>3. /\ t \in Seq(Op) /\ Len(t) = n - i + 1
      /\ \A k \in 1 .. n - i + 1 : t[k] = todo[i + k - 1]
  BY <1>1, <1>2, SubSeqProperties
<1>4. Traces(todo, w) /\ Catches(todo, w) /\ w[n + 1].may = {} /\ ~w[n + 1].new
  BY DEF Follows
<1> DEFINE e == i - 1
<1>5. e \in Nat /\ n = Len(t) + e /\ e + 1 = i /\ Len(t) \in Nat /\ Len(t) >= 1
  BY <1>1, <1>3
<1>6. ASSUME NEW k \in 1 .. Len(t) PROVE t[k] = todo[k + e]
  <2>1. k \in 1 .. n - i + 1 /\ i + k - 1 = k + e
    BY <1>1, <1>3
  <2>2. QED
    BY <1>3, <2>1
<1>7. Plan(t)
  BY <1>3 DEF Plan
<1>8. t # <<>> /\ t[1] = todo[i]
  <2>1. 1 \in 1 .. Len(t) /\ 1 + e = i
    BY <1>1, <1>5
  <2> HIDE DEF t
  <2>2. Len(<<>>) = 0
    OBVIOUS
  <2>3. t # <<>>
    BY <1>5, <2>2
  <2>4. QED
    BY <1>6, <2>1, <2>3
<1> HIDE DEF t, e
<1> DEFINE v == [k \in 1 .. Len(t) + 1 |-> w[k + e]]
<1>9. Traces(t, v) /\ Catches(t, v) /\ v[1] = w[e + 1] /\ v[Len(t) + 1] = w[n + 1]
  BY <1>4, <1>5, <1>6, <1>7, SuffixTrace
<1> HIDE DEF v
<1>10. Follows(t, v)
  BY <1>4, <1>9 DEF Follows
<1>11. QED
  BY <1>5, <1>7, <1>8, <1>9, <1>10 DEF t

(* Nothing is left to do *)
LEMMA NothingFollows ==
  ASSUME Plan(todo), NEW w, Follows(todo, w)
  PROVE  \E v : Follows(<<>>, v)
<1> DEFINE n == Len(todo)
           t == <<>>
           v == [k \in 1 .. Len(t) + 1 |-> w[k + n]]
<1>1. n \in Nat /\ Plan(t) /\ Len(t) = 0
  BY LenProperties, Nothing DEF Plan
<1>2. Len(todo) = Len(t) + n /\ \A k \in 1 .. Len(t) : t[k] = todo[k + n]
  BY <1>1
<1>3. Traces(todo, w) /\ Catches(todo, w) /\ w[n + 1].may = {} /\ ~w[n + 1].new
  BY DEF Follows
<1> HIDE DEF t, n
<1>4. Plan(t) /\ n \in Nat
  BY <1>1
<1>5. Traces(t, v) /\ Catches(t, v) /\ v[Len(t) + 1] = w[Len(todo) + 1]
  BY <1>2, <1>3, <1>4, SuffixTrace
<1> HIDE DEF v
<1>6. Follows(t, v)
  BY <1>3, <1>5 DEF Follows, n
<1>7. QED
  BY <1>6 DEF t

(* An exception is thrown *)
LEMMA ThrowKnown ==
  ASSUME IInv, ThrowException, NEW w, Follows(todo, w), Matches(w[1])
  PROVE  UnwindOK' /\ lost' = lost
<1> DEFINE x == todo[1]
<1>1. PICK op \in {"throw", "make_unique", "copy"} : Running(op)
  BY DEF ThrowException, Allocating
<1>2. Plan(todo) /\ x.op = op /\ x \in Op /\ todo # <<>>
  BY <1>1, RunningTrace
<1>3. Throws(x) /\ x.op # "guard"
  BY <1>2 DEF Throws
<1>4. ptr' = ptr /\ lost' = lost /\ ToHandler
  BY DEF ThrowException
<1>5. ASSUME NEW t, todo' = t, Plan(t), NEW v, Follows(t, v), Handled(t, v)
      PROVE  UnwindOK'
  <2> DEFINE d == <<>>
  <2>1. t = d \o t
    <3>1. t \in Seq(Op)
      BY <1>5 DEF Plan
    <3>2. QED
      BY <3>1, ConcatEmptySeq
  <2>2. Plan(d) /\ Destroying(d)
    BY Nothing DEF Destroying
  <2>3. todo' = d \o t
    BY <1>5, <2>1
  <2>4. Plan(d)' /\ Plan(t)' /\ Destroying(d)' /\ Follows(t, v)' /\ Handled(t, v)'
    BY <1>4, <1>5, <2>2 DEF Plan, Destroying, Follows, Handled
  <2> HIDE DEF d
  <2>5. QED
    BY <2>3, <2>4 DEF UnwindOK
<1>6. CASE todo' = <<>>
  <2>1. PICK v : Follows(<<>>, v)
    BY <1>2, NothingFollows
  <2>2. Handled(<<>>, v) /\ Plan(<<>>)
    BY Nothing DEF Handled
  <2>3. QED
    BY <1>4, <1>5, <1>6, <2>1, <2>2
<1>7. ASSUME NEW i \in Handlers, todo' = SubSeq(todo, i, Len(todo))
      PROVE  UnwindOK'
  <2> DEFINE t == SubSeq(todo, i, Len(todo))
             M == todo[i].to[1]
  <2>1. i \in 1 .. Len(todo) /\ todo[i].op = "guard"
    BY DEF Handlers
  <2>2. Plan(t) /\ t # <<>> /\ t[1] = todo[i] /\ \E v : Follows(t, v) /\ v[1] = w[i]
    BY <1>2, <2>1, HandlerFollows
  <2>3. PICK v : Follows(t, v) /\ v[1] = w[i]
    BY <2>2
  <2>4. 1 \in 1 .. Len(todo) /\ 1 < i
    <3>1. i # 1
      BY <1>3, <2>1
    <3>2. Len(todo) \in Nat
      BY <1>2, LenProperties DEF Plan
    <3>3. QED
      BY <2>1, <3>1, <3>2
  <2>5. LowIn(w[1], M + 1, w[i].may \ {<<M, "ch">>})
    <3>1. Catches(todo, w)
      BY DEF Follows
    <3>2. QED
      BY <1>3, <2>1, <2>4, <3>1 DEF Catches
  <2>6. M \in Nat
    BY <1>2, <2>1, PartLevels DEF CallParts
  <2> HIDE DEF t, M
  <2>7. ASSUME NEW h \in LocalPlaces, ptr[h] # Null, h[1] <= M
        PROVE  h \in v[1].may \ {<<M, "ch">>}
    <3>1. h \in w[1].may /\ h[1] \in Nat
      BY <2>7, LocalFacts DEF Matches
    <3>2. h[1] < M + 1
      BY <2>6, <2>7, <3>1
    <3>3. QED
      BY <2>3, <2>5, <2>7, <3>1, <3>2 DEF LowIn
  <2>8. Handled(t, v)
    BY <2>1, <2>2, <2>7 DEF Handled, M
  <2>9. todo' = t
    BY <1>7 DEF t
  <2>10. QED
    BY <1>5, <2>2, <2>3, <2>8, <2>9
<1>8. UnwindOK'
  BY <1>4, <1>6, <1>7 DEF ToHandler
<1>9. QED
  BY <1>4, <1>8

(* Every set of natural numbers has a least element: the strict subsets of *)
(* finite sets are well-founded *)
LEMMA Least ==
  ASSUME NEW T \in SUBSET Nat, T # {}
  PROVE  \E n \in T : \A m \in T : n <= m
<1> DEFINE R == StrictSubsetOrdering(Nat)
           S == FiniteSubsetsOf(Nat)
           F == {0 .. n : n \in T}
<1>1. IsWellFoundedOn(R, S)
  BY FS_StrictSubsetOrderingWellFounded
<1>2. \A n \in Nat : 0 .. n \in S
  BY FS_Interval DEF FiniteSubsetsOf
<1>3. F \subseteq S /\ F # {}
  BY <1>2
<1>4. \A m, n \in Nat : m < n => <<0 .. m, 0 .. n>> \in R
  <2> SUFFICES ASSUME NEW m \in Nat, NEW n \in Nat, m < n PROVE <<0 .. m, 0 .. n>> \in R
    OBVIOUS
  <2>1. 0 .. m \in SUBSET Nat /\ 0 .. n \in SUBSET Nat /\ 0 .. m \subseteq 0 .. n
    OBVIOUS
  <2>2. n \in 0 .. n /\ n \notin 0 .. m
    OBVIOUS
  <2>3. QED
    BY <2>1, <2>2 DEF StrictSubsetOrdering
<1> HIDE DEF R, S
<1>5. PICK X \in F : \A Y \in F : ~ (<<Y, X>> \in R)
  <2> HIDE DEF F
  <2>1. QED
    BY <1>1, <1>3, WFMin
<1>6. PICK n \in T : X = 0 .. n
  OBVIOUS
<1>7. \A m \in T : ~(m < n)
  BY <1>4, <1>5, <1>6
<1>8. QED
  BY <1>7

(* ... and a bounded one a greatest *)
LEMMA Greatest ==
  ASSUME NEW T \in SUBSET Nat, T # {}, NEW k \in Nat, \A m \in T : m <= k
  PROVE  \E n \in T : \A m \in T : m <= n
<1> DEFINE D == {k - m : m \in T}
<1>1. D \in SUBSET Nat /\ D # {}
  <2>1. \A m \in T : m \in Nat /\ m <= k
    OBVIOUS
  <2>2. \A m \in T : k - m \in Nat
    BY <2>1
  <2>3. \A c \in D : c \in Nat
    BY <2>2
  <2>4. D # {}
    OBVIOUS
  <2> HIDE DEF D
  <2>5. QED
    BY <2>3, <2>4
<1>2. PICK e \in D : \A c \in D : e <= c
  <2> HIDE DEF D
  <2>1. QED
    BY <1>1, Least
<1>3. PICK n \in T : e = k - n
  OBVIOUS
<1>4. \A m \in T : k - n <= k - m
  BY <1>2, <1>3
<1>5. QED
  BY <1>4

(* Once nothing is left to destroy, the variables of the calls that were   *)
(* left are gone *)
LEMMA LeftNothing ==
  ASSUME Plan(todo), todo # <<>>, Head(todo).op = "guard", Left(LocalPlaces) = {}
  PROVE  \A h \in LocalPlaces : ptr[h] # Null => h[1] <= todo[1].to[1]
<1> DEFINE M == todo[1].to[1]
           S == {h \in LocalPlaces : ptr[h] # Null /\ h[1] > M}
           T == {h[1] : h \in S}
<1>1. Head(todo) = todo[1] /\ M \in Nat
  <2>1. 1 \in 1 .. Len(todo) /\ Head(todo) = todo[1]
    BY HeadAndTail
  <2>2. QED
    BY <2>1, PartLevels DEF CallParts
<1>2. \A h \in LocalPlaces : h[1] \in Nat /\ h[1] <= MaxLevel
  BY LocalFacts, RefCountedAssumption DEF Levels
<1>3. ASSUME S # {} PROVE FALSE
  <2>1. T \in SUBSET Nat /\ T # {} /\ \A m \in T : m <= MaxLevel
    BY <1>2, <1>3
  <2>2. PICK n \in T : \A m \in T : m <= n
    <3> HIDE DEF T
    <3>1. MaxLevel \in Nat
      BY RefCountedAssumption
    <3>2. QED
      BY <2>1, <3>1, Greatest
  <2>3. PICK h \in S : h[1] = n
    OBVIOUS
  <2>4. \A g \in LocalPlaces : g[1] > h[1] => ptr[g] = Null
    <3> SUFFICES ASSUME NEW g \in LocalPlaces, g[1] > h[1], ptr[g] # Null PROVE FALSE
      OBVIOUS
    <3>1. g[1] \in Nat /\ h[1] \in Nat
      BY <1>2
    <3>2. \A a, b, c \in Nat : a > b /\ b > c => a > c
      OBVIOUS
    <3>3. g[1] > M
      BY <1>1, <3>1, <3>2
    <3>4. g[1] \in T
      BY <3>3
    <3>5. g[1] <= h[1]
      BY <2>2, <2>3, <3>4
    <3>6. QED
      BY <3>1, <3>5
  <2>5. h \in Left(LocalPlaces)
    BY <1>1, <2>4 DEF Left, LocalPlaces
  <2>6. QED
    BY <2>5
<1>4. ASSUME NEW h \in LocalPlaces, ptr[h] # Null PROVE h[1] <= M
  BY <1>1, <1>2, <1>3, <1>4
<1>5. QED
  BY <1>4

(* ... and all of them if there is no handler *)
LEMMA LeftNone ==
  ASSUME todo = <<>>, Left(LocalPlaces) = {}
  PROVE  \A h \in LocalPlaces : ptr[h] = Null
<1> DEFINE S == {h \in LocalPlaces : ptr[h] # Null}
           T == {h[1] : h \in S}
<1>1. \A h \in LocalPlaces : h[1] \in Nat /\ h[1] <= MaxLevel
  BY LocalFacts, RefCountedAssumption DEF Levels
<1>2. ASSUME S # {} PROVE FALSE
  <2>1. T \in SUBSET Nat /\ T # {} /\ \A m \in T : m <= MaxLevel
    BY <1>1, <1>2
  <2>2. PICK n \in T : \A m \in T : m <= n
    <3> HIDE DEF T
    <3>1. MaxLevel \in Nat
      BY RefCountedAssumption
    <3>2. QED
      BY <2>1, <3>1, Greatest
  <2>3. PICK h \in S : h[1] = n
    OBVIOUS
  <2>4. \A g \in LocalPlaces : g[1] > h[1] => ptr[g] = Null
    <3> SUFFICES ASSUME NEW g \in LocalPlaces, g[1] > h[1], ptr[g] # Null PROVE FALSE
      OBVIOUS
    <3>1. g[1] \in Nat /\ h[1] \in Nat
      BY <1>1
    <3>2. g[1] \in T
      OBVIOUS
    <3>3. g[1] <= h[1]
      BY <2>2, <2>3, <3>2
    <3>4. QED
      BY <3>1, <3>3
  <2>5. h \in Left(LocalPlaces)
    BY <2>4 DEF Left, LocalPlaces
  <2>6. QED
    BY <2>5
<1>3. QED
  BY <1>2

(* The destructors of members go on to what is left *)
LEMMA DestroyingHead ==
  ASSUME NEW d, Plan(d), Destroying(d), NEW t, Plan(t), d # <<>>
  PROVE  /\ Head(d \o t) = d[1] /\ Tail(d \o t) = Tail(d) \o t
         /\ Plan(Tail(d)) /\ Destroying(Tail(d))
         /\ d[1].op = "release" /\ d[1].to \in Objects \X Members
<1> DEFINE p == d \o t
           e == Tail(d)
           q == e \o t
           s == Tail(p)
<1>1. /\ Plan(p) /\ Len(d) \in Nat /\ Len(t) \in Nat /\ Len(p) = Len(d) + Len(t)
      /\ \A k \in 1 .. Len(d) : p[k] = d[k]
      /\ \A k \in 1 .. Len(t) : p[Len(d) + k] = t[k]
  BY JoinedPlaces
<1>2. /\ Plan(e) /\ Len(e) \in Nat /\ Len(d) = Len(e) + 1
      /\ \A k \in 1 .. Len(e) : e[k] = d[k + 1]
  BY HeadAndTail
<1> HIDE DEF e
<1>3. /\ Plan(q) /\ Len(q) = Len(e) + Len(t)
      /\ \A k \in 1 .. Len(e) : q[k] = e[k]
      /\ \A k \in 1 .. Len(t) : q[Len(e) + k] = t[k]
  BY <1>2, JoinedPlaces
<1> HIDE DEF p, q
<1>4. p # <<>>
  <2>1. Len(p) >= 1 /\ Len(<<>>) = 0
    BY <1>1, <1>2
  <2>2. QED
    BY <2>1
<1>5. /\ Head(p) = p[1] /\ Plan(s) /\ Len(s) \in Nat /\ Len(p) = Len(s) + 1
      /\ \A k \in 1 .. Len(s) : s[k] = p[k + 1]
  BY <1>1, <1>4, HeadAndTail
<1> HIDE DEF s
<1>6. Len(s) = Len(q)
  BY <1>1, <1>2, <1>3, <1>5
<1>7. ASSUME NEW k \in 1 .. Len(s) PROVE s[k] = q[k]
  <2>1. k \in Nat
    BY <1>5
  <2>2. CASE k <= Len(e)
    <3>1. k \in 1 .. Len(e) /\ k + 1 \in 1 .. Len(d)
      BY <1>2, <1>5, <2>2
    <3>2. QED
      BY <1>1, <1>2, <1>3, <1>5, <3>1
  <2>3. CASE k > Len(e)
    <3> DEFINE l == k - Len(e)
    <3>1. l \in 1 .. Len(t) /\ k = Len(e) + l /\ k + 1 = Len(d) + l
      BY <1>2, <1>1, <1>5, <2>1, <2>3
    <3> HIDE DEF l
    <3>2. s[k] = p[Len(d) + l] /\ q[k] = t[l] /\ p[Len(d) + l] = t[l]
      BY <1>1, <1>3, <1>5, <3>1
    <3>3. QED
      BY <3>2
  <2>4. QED
    BY <1>2, <2>1, <2>2, <2>3
<1>8. s = q
  <2>1. s \in Seq(Op) /\ q \in Seq(Op)
    BY <1>3, <1>5 DEF Plan
  <2>2. QED
    BY <1>6, <1>7, <2>1, SeqEqual
<1>9. p[1] = d[1] /\ d[1].op = "release" /\ d[1].to \in Objects \X Members
  <2>1. 1 \in 1 .. Len(d)
    BY <1>2
  <2>2. QED
    BY <1>1, <2>1 DEF Destroying
<1>10. Destroying(e)
  <2>1. \A k \in 1 .. Len(e) : k + 1 \in 1 .. Len(d)
    BY <1>2
  <2>2. QED
    BY <1>2, <2>1 DEF Destroying
<1>11. QED
  BY <1>2, <1>5, <1>8, <1>9, <1>10 DEF e, p, q, s

(* Destructors one after the other *)
LEMMA DestroyingJoin ==
  ASSUME NEW c, Plan(c), Destroying(c), NEW d, Plan(d), Destroying(d)
  PROVE  Plan(c \o d) /\ Destroying(c \o d)
<1>1. /\ Plan(c \o d) /\ Len(c) \in Nat /\ Len(d) \in Nat
      /\ Len(c \o d) = Len(c) + Len(d)
      /\ \A k \in 1 .. Len(c) : (c \o d)[k] = c[k]
      /\ \A k \in 1 .. Len(d) : (c \o d)[Len(c) + k] = d[k]
  BY JoinedPlaces
<1>2. ASSUME NEW k \in 1 .. Len(c) + Len(d)
      PROVE  (c \o d)[k].op = "release" /\ (c \o d)[k].to \in Objects \X Members
  <2>1. CASE k <= Len(c)
    <3>1. k \in 1 .. Len(c)
      BY <1>1, <2>1
    <3>2. QED
      BY <1>1, <3>1 DEF Destroying
  <2>2. CASE k > Len(c)
    <3> DEFINE l == k - Len(c)
    <3>1. l \in 1 .. Len(d) /\ k = Len(c) + l
      BY <1>1, <2>2
    <3> HIDE DEF l
    <3>2. QED
      BY <1>1, <3>1 DEF Destroying
  <2>3. QED
    BY <1>1, <2>1, <2>2
<1>3. QED
  BY <1>1, <1>2 DEF Destroying

(* The exception stays on its way while places are emptied *)
LEMMA StillUnwinding ==
  ASSUME NEW d, Plan(d), Destroying(d), NEW t, Plan(t), NEW w, Follows(t, w), Handled(t, w),
         \A h \in LocalPlaces : ptr'[h] # Null => ptr[h] # Null,
         todo' = d \o t
  PROVE  UnwindOK'
<1>1. Handled(t, w)'
  BY DEF Handled
<1>2. Plan(d)' /\ Plan(t)' /\ Destroying(d)' /\ Follows(t, w)'
  BY DEF Plan, Destroying, Follows
<1>3. QED
  BY <1>1, <1>2 DEF UnwindOK

(* A reference is released while the exception is on its way *)
LEMMA ReleaseUnwinding ==
  ASSUME IInv, NEW d, Plan(d), Destroying(d), NEW t, Plan(t), NEW w, Follows(t, w), Handled(t, w),
         NEW h \in Holders, ReleaseAt(h, d \o t)
  PROVE  UnwindOK' /\ lost' = lost
<1>1. /\ ptr'[h] = Null /\ \A g \in Holders \ {h} : ptr'[g] = ptr[g]
      /\ lost' = lost
      /\ todo' = d \o t \/ \E o \in Objects : todo' = Destructor(o) \o (d \o t)
  BY ReleaseOnlyEmpties
<1>2. \A g \in LocalPlaces : ptr'[g] # Null => ptr[g] # Null
  BY <1>1, LocalFacts
<1>3. ASSUME NEW o \in Objects, todo' = Destructor(o) \o (d \o t)
      PROVE  UnwindOK'
  <2> DEFINE c == Destructor(o)
  <2>1. Plan(c) /\ Destroying(c)
    BY DestructorShape
  <2> HIDE DEF c
  <2>2. Plan(c \o d) /\ Destroying(c \o d)
    BY <2>1, DestroyingJoin
  <2>3. c \o (d \o t) = (c \o d) \o t
    <3>1. c \in Seq(Op) /\ d \in Seq(Op) /\ t \in Seq(Op)
      BY <2>1 DEF Plan
    <3>2. QED
      BY SMTT(30), <3>1, ConcatAssociative
  <2>4. todo' = (c \o d) \o t
    BY <1>3, <2>3 DEF c
  <2>5. QED
    BY <1>2, <2>2, <2>4, StillUnwinding
<1>4. QED
  BY <1>1, <1>2, <1>3, StillUnwinding

(* No destructor is at work when the locals of a call are destroyed *)
LEMMA LeavingRest ==
  ASSUME NEW d, Plan(d), Destroying(d), NEW t, Plan(t), todo = d \o t, Leaving
  PROVE  todo = t /\ d = <<>>
<1>1. ASSUME d # <<>> PROVE FALSE
  <2>1. Head(todo).op = "release"
    BY <1>1, DestroyingHead
  <2>2. todo # <<>>
    <3>1. Plan(d) /\ Len(d) \in Nat /\ Len(t) \in Nat /\ Len(d \o t) = Len(d) + Len(t)
      BY JoinedPlaces
    <3>2. Len(d) = Len(Tail(d)) + 1 /\ Len(Tail(d)) \in Nat
      BY <1>1, HeadAndTail
    <3>3. Len(todo) >= 1 /\ Len(<<>>) = 0
      BY <3>1, <3>2
    <3>4. QED
      BY <3>3
  <2>3. QED
    BY <2>1, <2>2 DEF Leaving
<1>2. <<>> \o t = t
  <2>1. t \in Seq(Op)
    BY DEF Plan
  <2>2. QED
    BY <2>1, ConcatEmptySeq
<1>3. QED
  BY <1>1, <1>2

(* Destructors on the way to the handler *)
LEMMA UnwindKnown ==
  ASSUME IInv, UnwindOK, Unwind, ~EndUnwinding
  PROVE  UnwindOK' /\ unwinding' = unwinding /\ unwinding
<1>1. unwinding /\ unwinding' = unwinding
  BY DEF Unwind, DestroyFresh, DestroyMember, DestroyRaw, DestroyRef, Leaving, ReleaseAt
<1>2. PICK d, t, w : /\ todo = d \o t /\ Plan(d) /\ Plan(t) /\ Destroying(d)
                     /\ Follows(t, w) /\ Handled(t, w)
  BY <1>1 DEF UnwindOK
<1>3. Leaving => todo = t /\ d = <<>>
  BY <1>2, LeavingRest
<1>4. Plan(<<>>) /\ Destroying(<<>>) /\ <<>> \o t = t
  <2>1. t \in Seq(Op)
    BY <1>2 DEF Plan
  <2>2. <<>> \o t = t
    BY <2>1, ConcatEmptySeq
  <2>3. QED
    BY <2>2, Nothing DEF Destroying
<1>5. CASE DestroyMember
  <2> DEFINE h == Head(todo).to
  <2>1. todo # <<>> /\ Head(todo).op = "release" /\ ReleaseAt(h, Tail(todo))
    BY <1>5 DEF DestroyMember
  <2>2. d # <<>>
    <3> SUFFICES ASSUME d = <<>> PROVE FALSE
      OBVIOUS
    <3>1. todo = t
      BY <1>2, <1>4
    <3>2. Head(t) = t[1] /\ t # <<>>
      BY <1>2, <2>1, <3>1, HeadAndTail
    <3>3. QED
      BY <1>2, <2>1, <3>1, <3>2 DEF Handled
  <2>3. /\ h = d[1].to /\ Tail(todo) = Tail(d) \o t
        /\ Plan(Tail(d)) /\ Destroying(Tail(d)) /\ d[1].to \in Objects \X Members
    BY <1>2, <2>2, DestroyingHead
  <2>4. h \in Holders
    BY <2>3 DEF Holders
  <2> DEFINE e == Tail(d)
  <2>5. Plan(e) /\ Destroying(e) /\ ReleaseAt(h, e \o t)
    BY <2>1, <2>3
  <2> HIDE DEF e, h
  <2>6. QED
    BY <1>1, <1>2, <2>4, <2>5, ReleaseUnwinding
<1>6. CASE DestroyFresh
  <2>1. /\ Leaving /\ fresh # Null /\ todo' = Destructor(fresh) \o todo /\ ptr' = ptr
    BY <1>6 DEF DestroyFresh
  <2>2. fresh \in Objects
    BY <2>1 DEF IInv, TypeOK
  <2> DEFINE c == Destructor(fresh)
  <2>3. Plan(c) /\ Destroying(c) /\ todo' = c \o t
    BY <1>3, <2>1, <2>2, DestructorShape
  <2> HIDE DEF c
  <2>4. QED
    BY <1>1, <1>2, <2>1, <2>3, StillUnwinding
<1>7. ASSUME NEW h \in RawLocals, DestroyRaw(h)
      PROVE  UnwindOK'
  <2>1. /\ Leaving /\ ptr' = [ptr EXCEPT ![h] = Null] /\ todo' = todo
    BY <1>7 DEF DestroyRaw
  <2>2. ptr \in [Holders -> Objects \cup {Null}] /\ LocalPlaces \subseteq Holders
    BY LocalFacts DEF IInv, TypeOK
  <2>3. \A g \in LocalPlaces : ptr'[g] # Null => ptr[g] # Null
    BY <2>1, <2>2
  <2>4. todo' = d \o t
    BY <1>2, <2>1
  <2>5. QED
    BY <1>2, <2>3, <2>4, StillUnwinding
<1>8. ASSUME NEW h \in RefLocals, DestroyRef(h)
      PROVE  UnwindOK'
  <2>1. Leaving /\ ReleaseAt(h, todo)
    BY <1>8 DEF DestroyRef
  <2>2. h \in Holders
    BY LocalFacts DEF LocalPlaces
  <2>3. ReleaseAt(h, d \o t)
    BY <1>2, <2>1
  <2>4. QED
    BY <1>2, <2>2, <2>3, ReleaseUnwinding
<1>9. QED
  BY <1>1, <1>5, <1>6, <1>7, <1>8 DEF Unwind

(* The handler goes on with a result that shows the error *)
LEMMA CatchStep ==
  ASSUME NEW t, Plan(t), t # <<>>, NEW w, Follows(t, w), Handled(t, w), fresh = Null,
         \A h \in LocalPlaces : ptr[h] # Null => h[1] <= t[1].to[1]
  PROVE  /\ Plan(MakeRef(t[1].to[1], "ch") \o Tail(t))
         /\ \E y : Follows(MakeRef(t[1].to[1], "ch") \o Tail(t), y) /\ Matches(y[1])
<1> DEFINE x == t[1]
           M == x.to[1]
           B == {h \in w[1].may : h \in LocalPlaces /\ h[1] < M}
           a == St(M, B, {}, {})
           b == St(M, B, {"ch"}, {"ch"})
           p == MakeRef(M, "ch")
<1>1. /\ Effect(w[1], x, w[2]) /\ w[1] \in Knowledge /\ x \in Op /\ x.op = "guard"
      /\ 1 \in 1 .. Len(t)
  BY TailFollows, HeadAndTail DEF Handled
<1>2. x.op \in CallParts /\ M \in Levels /\ M \in Nat
  BY <1>1, PartLevels DEF CallParts
<1>3. GuardEffect(w[1], x, w[2])
  BY <1>1 DEF Effect
<1>4. Base(M, B)
  BY <1>2 DEF Base
<1>5. a.may = B /\ a.must = {} /\ ~a.new
  BY DEF St
<1>6. b.may = B \cup {<<M, "ch">>} /\ b.must = {<<M, "ch">>} /\ ~b.new
  BY DEF St
<1>7. Runs(M, B, p, a, b)
  <2>1. "ch" \in Refs \ {} /\ "obj" \notin {} /\ {"ch"} \in SUBSET Names /\ {} \in SUBSET Names
    BY DEF Refs, Names
  <2>2. {} \cup {"ch"} \subseteq {"ch"} /\ {"ch"} \subseteq ({} \ {"obj"}) \cup {"ch"}
    OBVIOUS
  <2> HIDE DEF M, B
  <2>3. QED
    BY <1>4, <2>1, <2>2, MakeRefLeads DEF Leads
<1>8. Matches(a)
  <2> SUFFICES ASSUME NEW h \in LocalPlaces, ptr[h] # Null PROVE h \in B
    BY <1>5 DEF Matches
  <2>1. h \in w[1].may \ {<<M, "ch">>} /\ h[1] <= M
    BY DEF Handled
  <2>2. h = <<h[1], h[2]>> /\ h[1] \in Nat
    BY LocalFacts
  <2>3. h[1] # M
    BY <1>3, <2>1, <2>2 DEF GuardEffect
  <2>4. h[1] < M
    BY <1>2, <2>1, <2>2, <2>3
  <2>5. QED
    BY <2>1, <2>4
<1>9. Weaker(b, w[2])
  BY <1>3, <1>6 DEF GuardEffect, Weaker
<1>10. B \subseteq w[1].may /\ \A h \in w[1].may : h \in LocalPlaces /\ h[1] < M => h \in B
  OBVIOUS
<1> HIDE DEF a, b, p, B
<1>11. Plan(p \o Tail(t)) /\ \E y : Follows(p \o Tail(t), y) /\ Matches(y[1])
  BY <1>2, <1>7, <1>8, <1>9, <1>10, Expanded
<1>12. QED
  BY <1>11 DEF p

(* The exception has arrived *)
LEMMA ArrivedKnown ==
  ASSUME IInv, UnwindOK, EndUnwinding
  PROVE  CallOK' /\ ~unwinding' /\ lost' = lost
<1>1. /\ Leaving /\ fresh = Null /\ Left(LocalPlaces) = {} /\ ~unwinding'
      /\ ptr' = ptr /\ fresh' = fresh /\ lost' = lost /\ unwinding
      /\ todo' = IF todo = <<>> THEN <<>> ELSE MakeRef(Head(todo).to[1], "ch") \o Tail(todo)
  BY DEF EndUnwinding, LocalPlaces, Leaving
<1>2. PICK d, t, w : /\ todo = d \o t /\ Plan(d) /\ Plan(t) /\ Destroying(d)
                     /\ Follows(t, w) /\ Handled(t, w)
  BY <1>1 DEF UnwindOK
<1>3. todo = t
  BY <1>1, <1>2, LeavingRest
<1>4. ASSUME NEW p, todo' = p, NEW v, Follows(p, v), Matches(v[1])
      PROVE  CallOK'
  <2>1. Follows(todo, v)' /\ Matches(v[1])'
    BY <1>1, <1>4 DEF Follows, Matches
  <2>2. QED
    BY <2>1 DEF CallOK
<1>5. CASE todo = <<>>
  <2>1. \A h \in LocalPlaces : ptr[h] = Null
    BY <1>1, <1>5, LeftNone
  <2>2. Matches(NoLocals) /\ NoLocals.may = {} /\ ~NoLocals.new
    BY <1>1, <2>1 DEF Matches, NoLocals, St
  <2> DEFINE p == <<>>
  <2>3. Leads(1, {}, p, NoLocals, NoLocals)
    BY TopBase, NoneLeads DEF Weaker
  <2> HIDE DEF p
  <2>4. PICK v : /\ Traces(p, v) /\ Catches(p, v)
                 /\ Weaker(NoLocals, v[1]) /\ Weaker(v[Len(p) + 1], NoLocals)
    BY <2>3 DEF Leads, Runs
  <2>5. Follows(p, v)
    BY <2>2, <2>4 DEF Follows, Weaker
  <2>6. Matches(v[1])
    BY <2>2, <2>4, MatchesWeaker
  <2>7. todo' = p
    BY <1>1, <1>5 DEF p
  <2>8. QED
    BY <1>1, <1>4, <2>5, <2>6, <2>7
<1>6. CASE todo # <<>>
  <2>1. Head(todo) = t[1] /\ t # <<>> /\ Head(todo).op = "guard" /\ Plan(todo)
    BY <1>1, <1>2, <1>3, <1>6, HeadAndTail DEF Leaving
  <2>2. \A h \in LocalPlaces : ptr[h] # Null => h[1] <= t[1].to[1]
    BY <1>1, <1>3, <1>6, <2>1, LeftNothing
  <2> DEFINE p == MakeRef(t[1].to[1], "ch") \o Tail(t)
  <2>3. PICK y : Follows(p, y) /\ Matches(y[1])
    BY <1>1, <1>2, <2>1, <2>2, CatchStep
  <2>4. todo' = p
    BY <1>1, <1>3, <1>6, <2>1
  <2> HIDE DEF p
  <2>5. QED
    BY <1>1, <1>4, <2>3, <2>4
<1>7. QED
  BY <1>5, <1>6

-----------------------------------------------------------------------------
(* Every step keeps the invariant of calls *)

(* Before the first call *)
LEMMA InitCalls == Init => CallInv
<1> SUFFICES ASSUME Init PROVE CallInv
  OBVIOUS
<1>1. /\ IInv /\ todo = <<>> /\ fresh = Null /\ ~unwinding
      /\ \A h \in Holders : ptr[h] = Null
  BY InitInvariant DEF Init
<1>2. Matches(NoLocals) /\ NoLocals.may = {} /\ ~NoLocals.new
  BY <1>1, LocalFacts DEF Matches, NoLocals, St
<1> DEFINE p == <<>>
<1>3. Leads(1, {}, p, NoLocals, NoLocals)
  BY TopBase, NoneLeads DEF Weaker
<1> HIDE DEF p
<1>4. PICK v : /\ Traces(p, v) /\ Catches(p, v)
               /\ Weaker(NoLocals, v[1]) /\ Weaker(v[Len(p) + 1], NoLocals)
  BY <1>3 DEF Leads, Runs
<1>5. Follows(p, v)
  BY <1>2, <1>4 DEF Follows, Weaker
<1>6. Matches(v[1])
  BY <1>2, <1>4, MatchesWeaker
<1>7. Follows(todo, v)
  BY <1>1, <1>5 DEF p
<1>8. CallOK /\ UnwindOK
  BY <1>1, <1>6, <1>7 DEF CallOK, UnwindOK
<1>9. QED
  BY <1>1, <1>8 DEF CallInv

(* A step of a call, of an exception, or of the debugger *)
LEMMA CallStep ==
  ASSUME IInv, CallOK, UnwindOK, [Next]_vars
  PROVE  /\ CallOK' /\ UnwindOK'
         /\ lost' # lost => unwinding
<1>1. CASE UNCHANGED vars
  <2>1. ptr' = ptr /\ fresh' = fresh /\ todo' = todo /\ lost' = lost /\ unwinding' = unwinding
    BY <1>1 DEF vars
  <2>2. CallOK' /\ UnwindOK'
    BY SMTT(30), <2>1 DEF CallOK, UnwindOK, Follows, Matches, Plan, Destroying, Handled
  <2>3. QED
    BY <2>1, <2>2
<1>2. CASE unwinding /\ Next
  <2>1. Unwind
    BY <1>2 DEF Next, Allocate, OwnObject, CopyRef, SwapRefs, ReleaseRef, Proceed, Expand,
                ThrowException, Allocating, Running, Client, ClientFormat, ClientCopy,
                ClientReset, ClientChild, ClientRead, Call
  <2>2. CASE EndUnwinding
    BY <1>2, <2>2, ArrivedKnown DEF UnwindOK
  <2>3. CASE ~EndUnwinding
    BY <1>2, <2>1, <2>3, UnwindKnown DEF CallOK
  <2>4. QED
    BY <2>2, <2>3
<1>3. CASE ~unwinding /\ Next
  <2>1. PICK w : Follows(todo, w) /\ Matches(w[1])
    BY <1>3 DEF CallOK
  <2>2. ~Unwind
    BY <1>3 DEF Unwind, DestroyFresh, DestroyMember, DestroyRaw, DestroyRef, EndUnwinding, Leaving
  <2>3. ASSUME ThrowException
        PROVE  CallOK' /\ UnwindOK' /\ lost' = lost
    <3>1. unwinding' = TRUE
      BY <2>3 DEF ThrowException
    <3>2. QED
      BY <2>1, <2>3, <3>1, ThrowKnown DEF CallOK
  <2>4. ASSUME unwinding' = unwinding, lost' = lost, \E v : Follows(todo, v)' /\ Matches(v[1])'
        PROVE  CallOK' /\ UnwindOK' /\ lost' = lost
    BY <1>3, <2>4 DEF CallOK, UnwindOK
  <2>5. CASE Allocate
    BY <2>1, <2>4, <2>5, AllocateKnown DEF Allocate
  <2>6. CASE OwnObject
    BY <2>1, <2>4, <2>6, OwnKnown DEF OwnObject
  <2>7. CASE CopyRef
    BY <2>1, <2>4, <2>7, CopyKnown DEF CopyRef
  <2>8. CASE SwapRefs
    BY <2>1, <2>4, <2>8, SwapKnown DEF SwapRefs
  <2>9. CASE ReleaseRef
    BY <2>1, <2>4, <2>9, ReleaseKnown DEF ReleaseRef, ReleaseAt
  <2>10. CASE Proceed
    <3>1. unwinding' = unwinding
      BY <2>10 DEF Proceed, Expand
    <3>2. QED
      BY <2>1, <2>4, <2>10, <3>1, ProceedKnown
  <2>11. CASE Client
    <3>1. unwinding' = unwinding
      BY <2>11 DEF Client, ClientFormat, ClientCopy, ClientReset, ClientChild, ClientRead, Call
    <3>2. QED
      BY <2>1, <2>4, <2>11, <3>1, ClientKnown
  <2>12. QED
    BY <1>3, <2>2, <2>3, <2>5, <2>6, <2>7, <2>8, <2>9, <2>10, <2>11 DEF Next
<1>4. unwinding \in BOOLEAN
  BY DEF IInv, TypeOK
<1>5. QED
  BY <1>1, <1>2, <1>3, <1>4

(* Whatever is left of a call, it is done with what it finds *)
LEMMA CallsInductive == CallInv /\ [Next]_vars => CallInv'
BY CallStep, Inductive DEF CallInv

(* Calls keep their books *)
THEOREM CallsInvariant == Spec => []CallInv
BY InitCalls, CallsInductive, PTL DEF Spec

(* child_at always finds the name and the result that br_get_child_at      *)
(* stored for it, as its assertions say, whatever the child is made from   *)
(* and whatever handler of br_get_child_at answered                        *)
THEOREM AnswersAreComplete == Spec => []AnswersComplete
<1>1. CallInv => AnswersComplete
  <2> SUFFICES ASSUME CallInv, Running("copy"), NEW L \in Levels, NEW out \in {"br_name", "br_res"},
                      Head(todo).from = <<L, out>>
               PROVE  ptr[<<L, out>>] # Null
    BY DEF AnswersComplete
  <2>1. PICK w : Follows(todo, w) /\ Matches(w[1])
    BY DEF CallInv, CallOK, Running
  <2>2. Head(todo) = todo[1] /\ todo[1].op = "copy" /\ Effect(w[1], todo[1], w[2])
    BY <2>1, RunningTrace DEF CallInv
  <2>3. CopyEffect(w[1], todo[1], w[2])
    BY <2>2 DEF Effect
  <2>4. <<L, out>> \in LocalPlaces
    BY LocalFacts DEF Names, Raws
  <2>5. <<L, out>> \in w[1].must
    BY <2>2, <2>3, <2>4 DEF CopyEffect
  <2>6. QED
    BY <2>1, <2>5 DEF Matches
<1>2. QED
  BY <1>1, CallsInvariant, PTL

(* No call loses a reference, however deep its nested calls and whichever  *)
(* plan it follows, unless an exception takes a raw pointer's              *)
THEOREM OnlyExceptionsLose == Spec => LossNeedsException
<1>1. CallInv /\ [Next]_vars => [lost' # lost => unwinding]_vars
  BY CallStep DEF CallInv
<1>2. QED
  BY <1>1, CallsInvariant, PTL DEF Spec, LossNeedsException

-----------------------------------------------------------------------------
(* What is left between calls can be reached *)

(* A deleted object's member still refers to something only while its      *)
(* destructor is at work                                                   *)
Pending(p, g) ==
    \E k \in 1 .. Len(p) :
        /\ p[k].to = g
        /\ \A j \in 1 .. k : p[j].op = "release" /\ p[j].to \in Objects \X Members

DeadReleased ==
    \A q \in Objects \ alive, m \in Members : ptr[<<q, m>>] # Null => Pending(todo, <<q, m>>)

(* What exists has a reference, once it is no longer under construction *)
AliveCounted == \A o \in alive : o # fresh => count[o] > 0

(* References lead from newer to older objects, so that they never form a  *)
(* cycle                                                                   *)
Ranked ==
    \E rank \in [Objects -> Nat], top \in Nat :
        /\ \A o \in Objects : rank[o] < top
        /\ \A o \in alive, m \in Members :
             ptr[<<o, m>>] # Null => rank[ptr[<<o, m>>]] < rank[o]
        /\ fresh # Null => \A o \in alive \ {fresh} : rank[o] < rank[fresh]

LeakInv == CallInv /\ DeadReleased /\ AliveCounted /\ Ranked

(* Destructors that are still to come stay so *)
LEMMA PendingJoined ==
  ASSUME NEW c, Plan(c), Destroying(c), NEW p, Plan(p), NEW g, Pending(p, g)
  PROVE  Pending(c \o p, g)
<1>1. /\ Len(c) \in Nat /\ Len(p) \in Nat /\ Len(c \o p) = Len(c) + Len(p)
      /\ \A k \in 1 .. Len(c) : (c \o p)[k] = c[k]
      /\ \A k \in 1 .. Len(p) : (c \o p)[Len(c) + k] = p[k]
  BY JoinedPlaces
<1>2. PICK k \in 1 .. Len(p) :
        /\ p[k].to = g
        /\ \A j \in 1 .. k : p[j].op = "release" /\ p[j].to \in Objects \X Members
  BY DEF Pending
<1> DEFINE n == Len(c) + k
<1>3. n \in 1 .. Len(c \o p) /\ (c \o p)[n].to = g
  BY <1>1, <1>2
<1>4. ASSUME NEW j \in 1 .. n
      PROVE  (c \o p)[j].op = "release" /\ (c \o p)[j].to \in Objects \X Members
  <2>1. CASE j <= Len(c)
    <3>1. j \in 1 .. Len(c)
      BY <1>1, <2>1
    <3>2. QED
      BY <1>1, <3>1 DEF Destroying
  <2>2. CASE j > Len(c)
    <3> DEFINE l == j - Len(c)
    <3>1. l \in 1 .. Len(p) /\ l \in 1 .. k /\ j = Len(c) + l
      BY <1>1, <2>2
    <3> HIDE DEF l
    <3>2. QED
      BY <1>1, <1>2, <3>1
  <2>3. QED
    BY <1>1, <2>1, <2>2
<1>5. QED
  BY <1>3, <1>4 DEF Pending

(* The members of a deleted object are released first *)
LEMMA PendingDestructor ==
  ASSUME NEW o \in Objects, NEW m \in Members, NEW p, Plan(p)
  PROVE  Pending(Destructor(o) \o p, <<o, m>>)
<1> DEFINE r(n) == [op |-> "release", to |-> <<o, n>>, from |-> <<o, n>>]
           x == r("orig_res")
           y == r("pointee_fval")
           z == r("target")
           c == <<x>> \o <<y>> \o <<z>>
<1>1. m \in {"orig_res", "pointee_fval", "target"}
  BY DEF Members
<1>2. \A n \in Members : r(n) \in Op /\ r(n).op = "release" /\ r(n).to = <<o, n>>
  BY MemberHolders DEF Op, Basics
<1>3. /\ x \in Op /\ y \in Op /\ z \in Op
      /\ x.to = <<o, "orig_res">> /\ y.to = <<o, "pointee_fval">> /\ z.to = <<o, "target">>
  BY <1>2 DEF Members
<1>4. Destructor(o) = c
  BY DEF Destructor, Release, Do
<1> HIDE DEF x, y, z
<1>5. Len(c) = 3 /\ c[1] = x /\ c[2] = y /\ c[3] = z /\ Plan(c)
  BY <1>3, ThreePlaces
<1> HIDE DEF c
<1>6. Destroying(c)
  BY <1>4, DestructorShape
<1>7. PICK k \in 1 .. Len(c) : c[k].to = <<o, m>>
  <2>1. 1 \in 1 .. Len(c) /\ 2 \in 1 .. Len(c) /\ 3 \in 1 .. Len(c)
    BY <1>5
  <2>2. QED
    BY <1>1, <1>3, <1>5, <2>1
<1>8. /\ Len(c \o p) = Len(c) + Len(p) /\ Len(p) \in Nat
      /\ \A j \in 1 .. Len(c) : (c \o p)[j] = c[j]
  BY ZenonT(30), <1>5, JoinedPlaces
<1>9. k \in 1 .. Len(c \o p) /\ \A j \in 1 .. k : j \in 1 .. Len(c)
  BY <1>5, <1>8
<1>10. Pending(c \o p, <<o, m>>)
  BY <1>6, <1>7, <1>8, <1>9 DEF Pending, Destroying
<1>11. QED
  BY <1>4, <1>10

(* One of them is done *)
LEMMA PendingTail ==
  ASSUME NEW p, Plan(p), NEW g, Pending(p, g)
  PROVE  /\ p # <<>> /\ Head(p).op = "release" /\ Head(p).to \in Objects \X Members
         /\ g # Head(p).to => Pending(Tail(p), g)
<1> DEFINE t == Tail(p)
<1>1. PICK k \in 1 .. Len(p) :
        /\ p[k].to = g
        /\ \A j \in 1 .. k : p[j].op = "release" /\ p[j].to \in Objects \X Members
  BY DEF Pending
<1>2. Len(p) \in Nat /\ Len(<<>>) = 0
  BY LenProperties DEF Plan
<1>3. p # <<>>
  BY <1>1, <1>2
<1>4. /\ Head(p) = p[1] /\ Len(t) \in Nat /\ Len(p) = Len(t) + 1
      /\ \A i \in 1 .. Len(t) : t[i] = p[i + 1]
  BY <1>3, HeadAndTail
<1>5. 1 \in 1 .. k
  BY <1>2
<1>6. Head(p).op = "release" /\ Head(p).to \in Objects \X Members
  BY <1>1, <1>4, <1>5
<1> HIDE DEF t
<1>7. ASSUME g # Head(p).to PROVE Pending(t, g)
  <2> DEFINE l == k - 1
  <2>1. k # 1
    BY <1>1, <1>4, <1>7
  <2>2. l \in 1 .. Len(t) /\ l + 1 = k
    BY <1>2, <1>4, <2>1
  <2>3. \A j \in 1 .. l : j + 1 \in 1 .. k /\ j \in 1 .. Len(t)
    BY <2>2
  <2> HIDE DEF l
  <2>4. t[l].to = g /\ \A j \in 1 .. l : t[j].op = "release" /\ t[j].to \in Objects \X Members
    BY <1>1, <1>4, <2>2, <2>3
  <2>5. QED
    BY <2>2, <2>4 DEF Pending
<1>8. QED
  BY <1>3, <1>6, <1>7 DEF t

(* Nothing else is done before the destructors *)
LEMMA NothingPending ==
  ASSUME Plan(todo), DeadReleased, todo = <<>> \/ Head(todo).op # "release"
  PROVE  \A q \in Objects \ alive, m \in Members : ptr[<<q, m>>] = Null
BY PendingTail DEF DeadReleased

(* References that are only dropped make no cycle *)
LEMMA RankedKept ==
  ASSUME Ranked, alive' \subseteq alive, fresh' \in {fresh, Null},
         \A o \in alive', m \in Members : ptr'[<<o, m>>] \in {ptr[<<o, m>>], Null}
  PROVE  Ranked'
<1>1. PICK rank \in [Objects -> Nat], top \in Nat :
        /\ \A o \in Objects : rank[o] < top
        /\ \A o \in alive, m \in Members :
             ptr[<<o, m>>] # Null => rank[ptr[<<o, m>>]] < rank[o]
        /\ fresh # Null => \A o \in alive \ {fresh} : rank[o] < rank[fresh]
  BY DEF Ranked
<1>2. \A o \in alive', m \in Members :
        ptr'[<<o, m>>] # Null => rank[ptr'[<<o, m>>]] < rank[o]
  BY <1>1
<1>3. fresh' # Null => \A o \in alive' \ {fresh'} : rank[o] < rank[fresh']
  BY <1>1
<1>4. \E r \in [Objects -> Nat], n \in Nat :
        /\ \A o \in Objects : r[o] < n
        /\ \A o \in alive', m \in Members :
             ptr'[<<o, m>>] # Null => r[ptr'[<<o, m>>]] < r[o]
        /\ fresh' # Null => \A o \in alive' \ {fresh'} : r[o] < r[fresh']
  BY <1>1, <1>2, <1>3
<1>5. QED
  BY <1>4 DEF Ranked

(* No member of a deleted object is touched unless to release it *)
LEMMA CleanStep ==
  ASSUME Plan(todo), DeadReleased, todo = <<>> \/ Head(todo).op # "release",
         alive \subseteq alive',
         \A q \in Objects \ alive, m \in Members : ptr'[<<q, m>>] = ptr[<<q, m>>]
  PROVE  DeadReleased'
<1>1. \A q \in Objects \ alive, m \in Members : ptr[<<q, m>>] = Null
  BY NothingPending
<1>2. \A q \in Objects \ alive', m \in Members : ptr'[<<q, m>>] = Null
  BY <1>1
<1>3. QED
  BY <1>2 DEF DeadReleased

(* Steps that leave references alone *)
LEMMA QuietLeak ==
  ASSUME Plan(todo), DeadReleased, AliveCounted, Ranked, todo = <<>> \/ Head(todo).op # "release",
         alive' = alive, count' = count, ptr' = ptr, fresh' = fresh
  PROVE  DeadReleased' /\ AliveCounted' /\ Ranked'
<1>1. DeadReleased'
  BY CleanStep
<1>2. AliveCounted'
  BY DEF AliveCounted
<1>3. Ranked'
  BY RankedKept
<1>4. QED
  BY <1>1, <1>2, <1>3

(* Releasing a reference *)
LEMMA ReleaseLeak ==
  ASSUME IInv, AliveCounted, Ranked, NEW h \in Holders, NEW rest, Plan(rest), ReleaseAt(h, rest),
         \A q \in Objects \ alive, m \in Members :
           ptr[<<q, m>>] # Null /\ <<q, m>> # h => Pending(rest, <<q, m>>)
  PROVE  DeadReleased' /\ AliveCounted' /\ Ranked'
<1> DEFINE o == ptr[h]
           dies == o # Null /\ count'[o] = 0
<1>1. ptr'[h] = Null /\ (\A g \in Holders \ {h} : ptr'[g] = ptr[g]) /\ fresh' = fresh
  BY ReleaseOnlyEmpties
<1>2. /\ count' = IF o = Null THEN count ELSE [count EXCEPT ![o] = @ - 1]
      /\ alive' = IF dies THEN alive \ {o} ELSE alive
      /\ todo' = IF dies THEN Destructor(o) \o rest ELSE rest
  BY DEF ReleaseAt
<1>3. /\ o \in Objects \cup {Null} /\ count \in [Objects -> Nat] /\ alive \subseteq Objects
      /\ Null \notin Objects
  BY RefCountedAssumption DEF IInv, TypeOK
<1>4. IInv'
  <2>1. Sane' /\ Plan(todo')
    BY InvariantParts, ReleaseStep
  <2>2. unwinding' \in BOOLEAN
    BY DEF ReleaseAt, IInv, TypeOK
  <2>3. QED
    BY <2>1, <2>2, InvariantPartsNext
<1>5. count' \in [Objects -> Nat]
  BY <1>4 DEF IInv, TypeOK
<1> HIDE DEF o, dies
<1>6. AliveCounted'
  <2> SUFFICES ASSUME NEW a \in alive', a # fresh' PROVE count'[a] > 0
    BY DEF AliveCounted
  <2>1. a \in alive /\ a \in Objects /\ count'[a] \in Nat /\ count[a] > 0
    BY <1>1, <1>2, <1>3, <1>5 DEF AliveCounted
  <2>2. CASE a = o
    <3>1. count'[a] # 0
      BY <1>2, <1>3, <2>1, <2>2 DEF dies
    <3>2. QED
      BY <2>1, <3>1
  <2>3. CASE a # o
    BY <1>2, <1>3, <2>1, <2>3
  <2>4. QED
    BY <2>2, <2>3
<1>7. \A q \in Objects, m \in Members : ptr'[<<q, m>>] \in {ptr[<<q, m>>], Null}
  BY <1>1, MemberHolders
<1>8. Ranked'
  BY <1>1, <1>2, <1>3, <1>7, RankedKept
<1>9. DeadReleased'
  <2> SUFFICES ASSUME NEW q \in Objects \ alive', NEW m \in Members, ptr'[<<q, m>>] # Null
               PROVE  Pending(todo', <<q, m>>)
    BY DEF DeadReleased, Pending
  <2>1. ptr[<<q, m>>] # Null /\ <<q, m>> # h
    BY <1>1, MemberHolders
  <2>2. CASE q \notin alive
    <3>1. Pending(rest, <<q, m>>)
      BY <2>1, <2>2
    <3>2. CASE dies
      <4>1. todo' = Destructor(o) \o rest /\ o \in Objects
        BY <1>2, <1>3, <3>2 DEF dies
      <4>2. QED
        BY <3>1, <4>1, DestructorShape, PendingJoined
    <3>3. QED
      BY <1>2, <3>1, <3>2
  <2>3. CASE q \in alive
    <3>1. dies /\ q = o
      BY <1>2, <2>3
    <3>2. todo' = Destructor(q) \o rest
      BY <1>2, <3>1
    <3>3. QED
      BY <3>2, PendingDestructor
  <2>4. QED
    BY <2>2, <2>3
<1>10. QED
  BY <1>6, <1>8, <1>9

(* Writing a reference to a local variable or a variable of the debugger *)
LEMMA RootLeak ==
  ASSUME IInv, IInv', DeadReleased, AliveCounted, Ranked, todo # <<>>, Head(todo).op # "release",
         \A q \in Objects, m \in Members : ptr'[<<q, m>>] = ptr[<<q, m>>],
         alive' = alive, fresh' \in {fresh, Null}, \A o \in Objects : count'[o] >= count[o],
         fresh # Null /\ fresh' = Null => count'[fresh] > 0
  PROVE  DeadReleased' /\ AliveCounted' /\ Ranked'
<1>1. Plan(todo) /\ alive \subseteq Objects /\ count \in [Objects -> Nat] /\ count' \in [Objects -> Nat]
  BY InvariantParts DEF IInv, TypeOK
<1>2. DeadReleased'
  BY <1>1, CleanStep
<1>3. AliveCounted'
  <2> SUFFICES ASSUME NEW a \in alive', a # fresh' PROVE count'[a] > 0
    BY DEF AliveCounted
  <2>1. a \in alive /\ a \in Objects /\ count'[a] \in Nat /\ count[a] \in Nat /\ count'[a] >= count[a]
    BY <1>1
  <2>2. CASE a = fresh
    BY <2>2, RefCountedAssumption, <2>1
  <2>3. CASE a # fresh
    <3>1. count[a] > 0
      BY <2>1, <2>3 DEF AliveCounted
    <3>2. QED
      BY <2>1, <3>1
  <2>4. QED
    BY <2>2, <2>3
<1>4. Ranked'
  BY <1>1, RankedKept
<1>5. QED
  BY <1>2, <1>3, <1>4

(* A new object is newer than all others *)
LEMMA AllocateLeak ==
  ASSUME IInv, DeadReleased, AliveCounted, Ranked, Allocate
  PROVE  DeadReleased' /\ AliveCounted' /\ Ranked'
<1>1. Plan(todo) /\ Sane /\ alive \subseteq Objects /\ NoDangling
  BY InvariantParts DEF Sane
<1>2. /\ fresh' \in Free /\ alive' = alive \cup {fresh'} /\ fresh = Null
      /\ count' = count /\ ptr' = ptr /\ todo # <<>> /\ Head(todo).op # "release"
  BY DEF Allocate, Running
<1>3. PICK n \in Free : fresh' = n
  BY <1>2
<1>4. n \in Objects /\ n \notin alive /\ n # Null /\ \A m \in Members : ptr[<<n, m>>] = Null
  BY <1>3, RefCountedAssumption DEF Free
<1>5. DeadReleased'
  <2>1. alive \subseteq alive'
    BY <1>2
  <2>2. QED
    BY <1>1, <1>2, <2>1, CleanStep
<1>6. AliveCounted'
  <2> SUFFICES ASSUME NEW a \in alive', a # fresh' PROVE count'[a] > 0
    BY DEF AliveCounted
  <2>1. a \in alive /\ a # fresh
    BY <1>1, <1>2, RefCountedAssumption
  <2>2. QED
    BY <1>2, <2>1 DEF AliveCounted
<1>7. PICK rank \in [Objects -> Nat], top \in Nat :
        /\ \A o \in Objects : rank[o] < top
        /\ \A o \in alive, m \in Members :
             ptr[<<o, m>>] # Null => rank[ptr[<<o, m>>]] < rank[o]
  BY DEF Ranked
<1> DEFINE r == [rank EXCEPT ![n] = top]
<1>8. /\ r \in [Objects -> Nat] /\ r[n] = top
      /\ \A o \in Objects \ {n} : r[o] = rank[o] /\ r[o] < top
  BY <1>4, <1>7
<1> HIDE DEF r
<1>9. \A o \in Objects : r[o] < top + 1
  BY <1>7, <1>8
<1>10. ASSUME NEW o \in alive', NEW m \in Members, ptr'[<<o, m>>] # Null
       PROVE  r[ptr'[<<o, m>>]] < r[o]
  <2>1. o # n /\ o \in alive /\ o \in Objects \ {n}
    BY <1>1, <1>2, <1>3, <1>4, <1>10
  <2>2. <<o, m>> \in Holders
    BY <2>1, MemberHolders
  <2>3. ptr[<<o, m>>] \in alive
    BY <1>1, <1>2, <1>10, <2>2 DEF NoDangling
  <2>4. ptr[<<o, m>>] \in Objects \ {n}
    BY <1>1, <1>4, <2>3
  <2>5. rank[ptr[<<o, m>>]] < rank[o]
    BY <1>2, <1>7, <1>10, <2>1
  <2>6. QED
    BY <1>2, <1>8, <2>1, <2>4, <2>5
<1>11. \A o \in alive' \ {fresh'} : r[o] < r[fresh']
  BY <1>1, <1>2, <1>3, <1>8
<1>12. \E k \in [Objects -> Nat], t \in Nat :
         /\ \A o \in Objects : k[o] < t
         /\ \A o \in alive', m \in Members :
              ptr'[<<o, m>>] # Null => k[ptr'[<<o, m>>]] < k[o]
         /\ fresh' # Null => \A o \in alive' \ {fresh'} : k[o] < k[fresh']
  <2>1. top + 1 \in Nat
    BY <1>7
  <2>2. QED
    BY <1>8, <1>9, <1>10, <1>11, <2>1
<1>13. Ranked'
  BY <1>12 DEF Ranked
<1>14. QED
  BY <1>5, <1>6, <1>13

(* Members are not variables *)
LEMMA MembersApart ==
  /\ \A q \in Objects, m \in Members : <<q, m>> \in Holders /\ <<q, m>> \notin Roots
  /\ LocalPlaces \subseteq Roots
BY MemberHolders, LocalFacts, RefCountedAssumption DEF Levels, Roots, RawLocals, RefLocals

(* The first reference *)
LEMMA OwnLeak ==
  ASSUME CallInv, IInv', DeadReleased, AliveCounted, Ranked, OwnObject
  PROVE  DeadReleased' /\ AliveCounted' /\ Ranked'
<1> DEFINE x == todo[1]
<1>1. IInv
  BY DEF CallInv
<1>2. PICK w : Follows(todo, w) /\ Matches(w[1])
  BY DEF CallInv, CallOK, OwnObject, Running
<1>3. x.op = "own" /\ Effect(w[1], x, w[2]) /\ Head(todo) = x /\ todo # <<>>
  BY <1>1, <1>2, RunningTrace DEF OwnObject
<1>4. x.to \in Roots
  BY <1>3, MembersApart DEF Effect, OwnEffect
<1>5. /\ fresh # Null /\ ptr' = [ptr EXCEPT ![x.to] = fresh] /\ count' = [count EXCEPT ![fresh] = @ + 1]
      /\ fresh' = Null /\ alive' = alive
  BY <1>3 DEF OwnObject, AddRef
<1>6. fresh \in Objects /\ count \in [Objects -> Nat] /\ ptr \in [Holders -> Objects \cup {Null}]
  BY <1>1, <1>5 DEF IInv, TypeOK
<1> HIDE DEF x
<1>7. \A q \in Objects, m \in Members : ptr'[<<q, m>>] = ptr[<<q, m>>]
  BY <1>4, <1>5, <1>6, MembersApart
<1>8. (\A o \in Objects : count'[o] >= count[o]) /\ count'[fresh] > 0
  BY <1>5, <1>6
<1>9. QED
  BY <1>1, <1>3, <1>5, <1>7, <1>8, RootLeak

(* Two references are exchanged *)
LEMMA SwapLeak ==
  ASSUME CallInv, IInv', DeadReleased, AliveCounted, Ranked, SwapRefs
  PROVE  DeadReleased' /\ AliveCounted' /\ Ranked'
<1> DEFINE x == todo[1]
<1>1. IInv
  BY DEF CallInv
<1>2. PICK w : Follows(todo, w) /\ Matches(w[1])
  BY DEF CallInv, CallOK, SwapRefs, Running
<1>3. x.op = "swap" /\ Effect(w[1], x, w[2]) /\ Head(todo) = x /\ todo # <<>>
  BY <1>1, <1>2, RunningTrace DEF SwapRefs
<1>4. x.to \in Roots /\ x.from \in Roots
  BY <1>3, MembersApart DEF Effect, SwapEffect
<1>5. /\ ptr' = [ptr EXCEPT ![x.to] = ptr[x.from], ![x.from] = ptr[x.to]]
      /\ count' = count /\ fresh' = fresh /\ alive' = alive
  BY <1>3 DEF SwapRefs
<1>6. count \in [Objects -> Nat] /\ ptr \in [Holders -> Objects \cup {Null}]
  BY <1>1 DEF IInv, TypeOK
<1> HIDE DEF x
<1>7. \A q \in Objects, m \in Members : ptr'[<<q, m>>] = ptr[<<q, m>>]
  BY <1>4, <1>5, <1>6, MembersApart
<1>8. \A o \in Objects : count'[o] >= count[o]
  BY <1>5, <1>6
<1>9. QED
  BY <1>1, <1>3, <1>5, <1>7, <1>8, RootLeak

(* A reference is copied, to a variable or to the object under construction *)
LEMMA CopyLeak ==
  ASSUME CallInv, IInv', DeadReleased, AliveCounted, Ranked, CopyRef
  PROVE  DeadReleased' /\ AliveCounted' /\ Ranked'
<1> DEFINE x == todo[1]
           to == At(x.to)
           o == ptr[x.from]
<1>1. IInv
  BY DEF CallInv
<1>2. PICK w : Follows(todo, w) /\ Matches(w[1])
  BY DEF CallInv, CallOK, CopyRef, Running
<1>3. x.op = "copy" /\ Effect(w[1], x, w[2]) /\ Head(todo) = x /\ todo # <<>> /\ x \in Op
  BY <1>1, <1>2, RunningTrace DEF CopyRef
<1>4. x.to \in LocalPlaces \cup NewMembers
  BY <1>3 DEF Effect, CopyEffect
<1>5. /\ to \in Holders /\ ptr' = [ptr EXCEPT ![to] = o] /\ count' = AddRef(o)
      /\ fresh' = fresh /\ alive' = alive
  BY <1>3 DEF CopyRef
<1>6. /\ ptr \in [Holders -> Objects \cup {Null}] /\ x.from \in Holders /\ count \in [Objects -> Nat]
      /\ o \in Objects \cup {Null} /\ alive \subseteq Objects
  BY <1>1, <1>3, OpPlaces DEF IInv, TypeOK
<1>7. \A m : <<Null, m>> \notin Holders
  BY RefCountedAssumption DEF Holders, Roots, RawLocals, RefLocals, Levels
<1>8. \/ to \in Roots
      \/ \E m \in Members : to = <<fresh, m>> /\ fresh # Null
  <2>1. CASE x.to \in LocalPlaces
    BY <2>1, LocalFacts DEF At
  <2>2. CASE x.to \in NewMembers
    <3>1. PICK m \in Members : x.to = <<Fresh, m>>
      BY <2>2 DEF NewMembers
    <3>2. to = <<fresh, m>>
      BY <3>1 DEF At
    <3>3. QED
      BY <1>5, <1>7, <3>1, <3>2
  <2>3. QED
    BY <1>4, <2>1, <2>2
<1>9. \A a \in Objects : count'[a] >= count[a]
  BY <1>5, <1>6 DEF AddRef
<1> HIDE DEF to, o, x
<1>10. CASE to \in Roots
  <2>1. \A q \in Objects, m \in Members : ptr'[<<q, m>>] = ptr[<<q, m>>]
    BY <1>5, <1>6, <1>10, MembersApart
  <2>2. QED
    BY <1>1, <1>3, <1>5, <1>9, <2>1, RootLeak
<1>11. ASSUME NEW m \in Members, to = <<fresh, m>>, fresh # Null
       PROVE  DeadReleased' /\ AliveCounted' /\ Ranked'
  <2>1. /\ Plan(todo) /\ Sane /\ fresh \in Objects /\ fresh \in alive /\ count[fresh] = 0
        /\ o \in alive \cup {Null} /\ o # fresh
    <3>1. Plan(todo) /\ Sane /\ fresh \in Objects /\ fresh \in alive /\ count[fresh] = 0
      BY <1>1, <1>11, InvariantParts DEF Sane, FreshUncounted
    <3>2. o \in alive \cup {Null} /\ o # fresh
      BY <1>6, <3>1, Uncounted DEF Sane, NoDangling, o
    <3>3. QED
      BY <3>1, <3>2
  <2>2. /\ ptr'[to] = o /\ \A h \in Holders \ {to} : ptr'[h] = ptr[h]
    BY <1>5, <1>6
  <2>3. DeadReleased'
    <3>1. \A q \in Objects \ alive, n \in Members : ptr'[<<q, n>>] = ptr[<<q, n>>]
      BY <1>11, <2>1, <2>2, MemberHolders
    <3>2. QED
      BY <1>3, <1>5, <2>1, <3>1, CleanStep
  <2>4. AliveCounted'
    <3>1. \A a \in alive : count'[a] \in Nat /\ count[a] \in Nat
      BY <1>6 DEF IInv, TypeOK
    <3>2. QED
      BY <1>5, <1>6, <1>9, <3>1 DEF AliveCounted
  <2>5. PICK rank \in [Objects -> Nat], top \in Nat :
          /\ \A a \in Objects : rank[a] < top
          /\ \A a \in alive, n \in Members :
               ptr[<<a, n>>] # Null => rank[ptr[<<a, n>>]] < rank[a]
          /\ fresh # Null => \A a \in alive \ {fresh} : rank[a] < rank[fresh]
    BY DEF Ranked
  <2>6. ASSUME NEW a \in alive', NEW n \in Members, ptr'[<<a, n>>] # Null
        PROVE  rank[ptr'[<<a, n>>]] < rank[a]
    <3>1. <<a, n>> \in Holders /\ a \in alive
      BY <1>5, <1>6, MemberHolders
    <3>2. CASE <<a, n>> = to
      <4>1. a = fresh /\ ptr'[<<a, n>>] = o
        BY <1>11, <2>2, <3>2
      <4>2. QED
        BY <1>11, <2>1, <2>5, <2>6, <4>1
    <3>3. CASE <<a, n>> # to
      BY <2>2, <2>5, <2>6, <3>1, <3>3
    <3>4. QED
      BY <3>2, <3>3
  <2>7. \E k \in [Objects -> Nat], t \in Nat :
          /\ \A a \in Objects : k[a] < t
          /\ \A a \in alive', n \in Members :
               ptr'[<<a, n>>] # Null => k[ptr'[<<a, n>>]] < k[a]
          /\ fresh' # Null => \A a \in alive' \ {fresh'} : k[a] < k[fresh']
    BY <1>5, <2>5, <2>6
  <2>8. Ranked'
    BY <2>7 DEF Ranked
  <2>9. QED
    BY <2>3, <2>4, <2>8
<1>12. QED
  BY <1>8, <1>10, <1>11

(* Destructors, while an exception is on its way *)
LEMMA UnwindLeak ==
  ASSUME CallInv, DeadReleased, AliveCounted, Ranked, Unwind
  PROVE  DeadReleased' /\ AliveCounted' /\ Ranked'
<1>1. IInv /\ Plan(todo)
  BY InvariantParts DEF CallInv
<1>2. Leaving => todo = <<>> \/ Head(todo).op # "release"
  BY DEF Leaving
<1>3. CASE DestroyFresh
  <2>1. /\ fresh \in Objects /\ fresh' = Null /\ alive' = alive \ {fresh}
        /\ todo' = Destructor(fresh) \o todo /\ count' = count /\ ptr' = ptr
    BY <1>1, <1>3 DEF DestroyFresh, IInv, TypeOK
  <2>2. \A q \in Objects \ alive, m \in Members : ptr[<<q, m>>] = Null
    BY <1>1, <1>2, <1>3, NothingPending DEF DestroyFresh
  <2>3. DeadReleased'
    <3> SUFFICES ASSUME NEW q \in Objects \ alive', NEW m \in Members, ptr'[<<q, m>>] # Null
                 PROVE  Pending(todo', <<q, m>>)
      BY DEF DeadReleased, Pending
    <3>1. q = fresh
      BY <2>1, <2>2
    <3>2. todo' = Destructor(q) \o todo
      BY <2>1, <3>1
    <3>3. QED
      BY <1>1, <3>2, PendingDestructor
  <2>4. AliveCounted'
    BY <2>1 DEF AliveCounted
  <2>5. Ranked'
    BY <2>1, RankedKept
  <2>6. QED
    BY <2>3, <2>4, <2>5
<1>4. CASE DestroyMember
  <2> DEFINE h == Head(todo).to
             t == Tail(todo)
  <2>1. todo # <<>> /\ Head(todo).op = "release" /\ ReleaseAt(h, t)
    BY <1>4 DEF DestroyMember
  <2>2. Head(todo) = todo[1] /\ todo[1] \in Op /\ Plan(t)
    BY <1>1, <2>1, HeadAndTail
  <2>3. h \in Holders
    BY <2>1, <2>2, OpPlaces
  <2>4. \A q \in Objects \ alive, m \in Members :
          ptr[<<q, m>>] # Null /\ <<q, m>> # h => Pending(t, <<q, m>>)
    BY <1>1, PendingTail DEF DeadReleased
  <2> HIDE DEF h, t
  <2>5. QED
    BY <1>1, <2>1, <2>2, <2>3, <2>4, ReleaseLeak
<1>5. CASE EndUnwinding
  <2>1. Leaving /\ alive' = alive /\ count' = count /\ ptr' = ptr /\ fresh' = fresh
    BY <1>5 DEF EndUnwinding
  <2>2. QED
    BY <1>1, <1>2, <2>1, QuietLeak
<1>6. ASSUME NEW h \in RawLocals, DestroyRaw(h)
      PROVE  DeadReleased' /\ AliveCounted' /\ Ranked'
  <2>1. Leaving /\ alive' = alive /\ count' = count /\ fresh' = fresh /\ ptr' = [ptr EXCEPT ![h] = Null]
    BY <1>6 DEF DestroyRaw
  <2>2. ptr \in [Holders -> Objects \cup {Null}] /\ h \in Roots
    BY <1>1, MembersApart DEF IInv, TypeOK, LocalPlaces
  <2>3. \A q \in Objects, m \in Members : ptr'[<<q, m>>] = ptr[<<q, m>>]
    BY <2>1, <2>2, MembersApart
  <2>4. DeadReleased'
    BY <1>1, <1>2, <2>1, <2>3, CleanStep
  <2>5. AliveCounted'
    BY <2>1 DEF AliveCounted
  <2>6. Ranked'
    BY <1>1, <2>1, <2>3, RankedKept DEF IInv, TypeOK
  <2>7. QED
    BY <2>4, <2>5, <2>6
<1>7. ASSUME NEW h \in RefLocals, DestroyRef(h)
      PROVE  DeadReleased' /\ AliveCounted' /\ Ranked'
  <2>1. Leaving /\ ReleaseAt(h, todo)
    BY <1>7 DEF DestroyRef
  <2>2. h \in Holders
    BY LocalFacts DEF LocalPlaces
  <2>3. \A q \in Objects \ alive, m \in Members : ptr[<<q, m>>] = Null
    BY <1>1, <1>2, <2>1, NothingPending
  <2>4. QED
    BY <1>1, <2>1, <2>2, <2>3, ReleaseLeak
<1>8. QED
  BY <1>3, <1>4, <1>5, <1>6, <1>7 DEF Unwind

(* Every step *)
LEMMA LeakStep ==
  ASSUME CallInv, IInv', DeadReleased, AliveCounted, Ranked, [Next]_vars
  PROVE  DeadReleased' /\ AliveCounted' /\ Ranked'
<1>1. IInv /\ Plan(todo)
  BY InvariantParts DEF CallInv
<1>2. CASE UNCHANGED vars
  BY <1>2, RankedKept DEF vars, DeadReleased, AliveCounted, Pending
<1>3. CASE Allocate
  BY <1>1, <1>3, AllocateLeak
<1>4. CASE OwnObject
  BY <1>4, OwnLeak
<1>5. CASE CopyRef
  BY <1>5, CopyLeak
<1>6. CASE SwapRefs
  BY <1>6, SwapLeak
<1>7. CASE ReleaseRef
  <2> DEFINE h == Head(todo).to
             t == Tail(todo)
  <2>1. todo # <<>> /\ Head(todo).op = "release" /\ ReleaseAt(h, t)
    BY <1>7 DEF ReleaseRef, Running
  <2>2. Head(todo) = todo[1] /\ todo[1] \in Op /\ Plan(t)
    BY <1>1, <2>1, HeadAndTail
  <2>3. h \in Holders
    BY <2>1, <2>2, OpPlaces
  <2>4. \A q \in Objects \ alive, m \in Members :
          ptr[<<q, m>>] # Null /\ <<q, m>> # h => Pending(t, <<q, m>>)
    BY <1>1, PendingTail DEF DeadReleased
  <2> HIDE DEF h, t
  <2>5. QED
    BY <1>1, <2>1, <2>2, <2>3, <2>4, ReleaseLeak
<1>8. CASE Proceed
  <2>1. /\ todo = <<>> \/ Head(todo).op # "release"
        /\ alive' = alive /\ count' = count /\ ptr' = ptr /\ fresh' = fresh
    BY <1>8 DEF Proceed, Expand, Running
  <2>2. QED
    BY <1>1, <2>1, QuietLeak
<1>9. CASE ThrowException
  <2>1. /\ todo = <<>> \/ Head(todo).op # "release"
        /\ alive' = alive /\ count' = count /\ ptr' = ptr /\ fresh' = fresh
    BY <1>9 DEF ThrowException, Allocating, Running
  <2>2. QED
    BY <1>1, <2>1, QuietLeak
<1>10. CASE Unwind
  BY <1>10, UnwindLeak
<1>11. CASE Client
  <2>1. todo = <<>> /\ alive' = alive /\ count' = count /\ ptr' = ptr /\ fresh' = fresh
    BY <1>11 DEF Client, ClientFormat, ClientCopy, ClientReset, ClientChild, ClientRead, Call
  <2>2. QED
    BY <1>1, <2>1, QuietLeak
<1>12. QED
  BY <1>2, <1>3, <1>4, <1>5, <1>6, <1>7, <1>8, <1>9, <1>10, <1>11 DEF Next

(* Before the first call *)
LEMMA InitLeaks == Init => LeakInv
<1> SUFFICES ASSUME Init PROVE LeakInv
  OBVIOUS
<1>1. /\ alive = {} /\ fresh = Null /\ \A h \in Holders : ptr[h] = Null
  BY DEF Init
<1>2. DeadReleased /\ AliveCounted
  BY <1>1, MemberHolders DEF DeadReleased, AliveCounted
<1> DEFINE rank == [o \in Objects |-> 0]
<1>3. /\ rank \in [Objects -> Nat] /\ 1 \in Nat
      /\ \A o \in Objects : rank[o] < 1
  OBVIOUS
<1>4. Ranked
  BY <1>1, <1>3 DEF Ranked
<1>5. QED
  BY <1>2, <1>4, InitCalls DEF LeakInv

(* With counts above zero and no cycles, what is left was lost or has a    *)
(* reference from outside, through newer objects                           *)
LEMMA ReachableLeft ==
  ASSUME LeakInv, todo = <<>>, fresh = Null
  PROVE  alive \subseteq Own!Reachable
<1>1. /\ IInv /\ Sane /\ Plan(todo) /\ DeadReleased /\ AliveCounted /\ Ranked /\ alive \subseteq Objects
  BY InvariantParts DEF LeakInv, CallInv, Sane
<1>2. \A q \in Objects \ alive, m \in Members : ptr[<<q, m>>] = Null
  BY <1>1, NothingPending
<1>3. PICK rank \in [Objects -> Nat], top \in Nat :
        /\ \A o \in Objects : rank[o] < top
        /\ \A o \in alive, m \in Members :
             ptr[<<o, m>>] # Null => rank[ptr[<<o, m>>]] < rank[o]
  BY <1>1 DEF Ranked
<1>4. ASSUME NEW S \in SUBSET alive, Own!Closed(S)
      PROVE  alive \subseteq S
  <2> DEFINE D == alive \ S
             T == {rank[o] : o \in D}
  <2>1. ASSUME D # {} PROVE FALSE
    <3>1. T \in SUBSET Nat /\ T # {} /\ \A m \in T : m <= top
      <4>1. \A o \in Objects : rank[o] \in Nat /\ rank[o] <= top
        BY <1>3
      <4>2. QED
        BY <1>1, <2>1, <4>1
    <3>2. PICK n \in T : \A m \in T : m <= n
      <4> HIDE DEF T
      <4>1. QED
        BY <1>3, <3>1, Greatest
    <3>3. PICK o \in D : rank[o] = n
      OBVIOUS
    <3>4. o \in Objects /\ o \in alive /\ o \notin S /\ count[o] > 0 /\ o # Null
      BY <1>1, RefCountedAssumption DEF AliveCounted
    <3>5. lost[o] = 0
      <4>1. ~(lost[o] > 0)
        BY <1>4, <3>4 DEF Own!Closed, Kept
      <4>2. lost[o] \in Nat
        BY <1>1, <3>4 DEF IInv, TypeOK
      <4>3. QED
        BY <4>1, <4>2
    <3>6. PICK h \in Holders : ptr[h] = o
      <4>1. count[o] = Cardinality({h \in Holders : ptr[h] = o}) + lost[o]
        BY <1>1, <3>4 DEF IInv, CountsExact
      <4>2. ASSUME {h \in Holders : ptr[h] = o} = {} PROVE FALSE
        <5>1. Cardinality({h \in Holders : ptr[h] = o}) = 0
          BY <4>2, FS_EmptySet
        <5>2. QED
          BY <3>4, <3>5, <4>1, <5>1
      <4>3. QED
        BY <4>2
    <3>7. h \notin Roots
      BY <1>4, <3>4, <3>6 DEF Own!Closed
    <3>8. PICK q \in Objects, m \in Members : h = <<q, m>>
      BY <3>7 DEF Holders
    <3>9. q \in alive
      BY <1>2, <3>4, <3>6, <3>8
    <3>10. q \notin S
      BY <1>4, <3>4, <3>6, <3>8 DEF Own!Closed
    <3>11. rank[o] < rank[q]
      BY <1>3, <3>4, <3>6, <3>8, <3>9
    <3>12. rank[q] <= n /\ rank[q] \in Nat /\ rank[o] \in Nat
      BY <1>3, <3>2, <3>4, <3>8, <3>9, <3>10
    <3>13. QED
      BY <3>3, <3>11, <3>12
  <2>2. QED
    BY <2>1
<1>5. QED
  BY <1>4 DEF Own!Reachable

(* The leak invariant is inductive *)
LEMMA LeaksInductive == LeakInv /\ [Next]_vars => LeakInv'
<1>1. CallInv /\ [Next]_vars => CallInv' /\ IInv'
  BY CallsInductive, Inductive DEF CallInv
<1>2. QED
  BY <1>1, LeakStep DEF LeakInv

(* Between calls no local variable holds a reference, nothing is under     *)
(* construction, and every object that exists can be reached from the      *)
(* debugger's variables or was lost when an exception took a raw pointer:  *)
(* no sequence of calls and exceptions accumulates results nobody can      *)
(* release                                                                 *)
THEOREM NothingLeaks == Spec => []NoLeaks
<1>1. LeakInv => NoLeaks
  <2> SUFFICES ASSUME LeakInv, todo = <<>>, ~unwinding
               PROVE  /\ fresh = Null
                      /\ \A h \in RawLocals \cup RefLocals : ptr[h] = Null
                      /\ alive \subseteq Own!Reachable
    BY DEF NoLeaks
  <2>1. PICK w : Follows(todo, w) /\ Matches(w[1])
    BY DEF LeakInv, CallInv, CallOK
  <2>2. w[1].may = {} /\ ~w[1].new
    <3>1. Len(todo) + 1 = 1
      OBVIOUS
    <3>2. QED
      BY <2>1, <3>1 DEF Follows
  <2>3. fresh = Null /\ \A h \in LocalPlaces : ptr[h] = Null
    BY <2>1, <2>2 DEF Matches
  <2>4. QED
    BY <2>3, ReachableLeft DEF LocalPlaces
<1>2. QED
  BY <1>1, InitLeaks, LeaksInductive, PTL DEF Spec
=============================================================================
