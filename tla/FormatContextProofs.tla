------------------------ MODULE FormatContextProofs ------------------------
(***************************************************************************)
(* Proofs about FormatContext, for every debuggee memory, field budget and *)
(* bound.  The inductive invariant adds to the checked invariants the      *)
(* shape of what is left of each call (FrameOK).                           *)
(***************************************************************************)
EXTENDS FormatContext, SequenceTheorems, FiniteSetTheorems, TLAPS

Front(s) == SubSeq(s, 1, Len(s) - 1)
Last(s)  == s[Len(s)]

Replaced(s, x) == Append(Front(s), x)
Pushed(s, x)   == Append(s, x)

RecordOps == {"start", "field", "stop"}

(* What is left of a record: the rest of the loop and the stop             *)
LoopLeft(todo) ==
    /\ todo # <<>>
    /\ Last(todo).op = "stop"
    /\ \A i \in 1 .. Len(todo) - 1 : todo[i].op \in {"field", "format"}

(* A record call is ahead of its start, in its loop, or done               *)
RecordOK(fr) ==
    \/ fr.open /\ LoopLeft(fr.todo)
    \/ ~fr.open /\ fr.todo # <<>> /\ fr.todo[1].op = "start" /\ LoopLeft(Tail(fr.todo))
    \/ /\ ~fr.open /\ Len(fr.todo) > 1 /\ fr.todo[1].op = "format"
       /\ fr.todo[2].op = "start" /\ LoopLeft(Tail(Tail(fr.todo)))
    \/ ~fr.open /\ fr.todo = <<>>

FrameOK(fr) ==
    /\ fr.by \in RecFormatters => RecordOK(fr)
    /\ fr.by \notin RecFormatters =>
          ~fr.open /\ \A i \in 1 .. Len(fr.todo) : fr.todo[i].op \notin RecordOps
    /\ fr.by \in Formatters => fr.val \in Values
    /\ fr.by = "client" => \A i \in 1 .. Len(fr.todo) :
                              fr.todo[i].op = "format" /\ fr.todo[i].sub \in Values

FramesOK(s) == s \in Seq(Frame) /\ \A i \in 1 .. Len(s) : FrameOK(s[i])

ResultOK(r) == r.childs # "none" => r.of \in Values

Shape ==
    /\ FramesOK(stack)
    /\ ResultOK(res)
    /\ \A r \in held : ResultOK(r)
    /\ exc # "none" => stack # <<>>

IInv == TypeOK /\ Shape /\ OptsBalanced /\ DepthBalanced /\ ErrorsContained

-----------------------------------------------------------------------------
(* Sequences *)

(* A sequence is empty or has a last element *)
LEMMA NonEmpty ==
  ASSUME NEW S, NEW s \in Seq(S)
  PROVE  s # <<>> <=> Len(s) >= 1
OBVIOUS

(* The tail of a one-element sequence is empty *)
LEMMA TailOfOne ==
  ASSUME NEW S, NEW s \in Seq(S), Len(s) = 1
  PROVE  Tail(s) = <<>>
<1> DEFINE t == Tail(s)
<1>1. t \in Seq(S) /\ Len(t) = 0
  OBVIOUS
<1> HIDE DEF t
<1>2. t = <<>>
  BY <1>1, EmptySeq
<1>3. QED
  BY <1>2 DEF t

(* What is left of a stack after its top frame is popped *)
LEMMA FrontProperties ==
  ASSUME NEW S, NEW s \in Seq(S), s # <<>>
  PROVE  /\ Front(s) \in Seq(S)
         /\ Len(Front(s)) = Len(s) - 1
         /\ \A i \in 1 .. Len(s) - 1 : Front(s)[i] = s[i]
<1>1. ASSUME NEW n \in Nat, n = Len(s) - 1
      PROVE  /\ SubSeq(s, 1, n) \in Seq(S)
             /\ Len(SubSeq(s, 1, n)) = n
             /\ \A i \in 1 .. n : SubSeq(s, 1, n)[i] = s[i]
  BY <1>1
<1>2. Len(s) - 1 \in Nat
  BY EmptySeq
<1>3. QED
  BY <1>1, <1>2, Zenon DEF Front

(* Every position of an extended sequence is an old one or the new last one *)
LEMMA AppendLast ==
  ASSUME NEW S, NEW s \in Seq(S), NEW x \in S
  PROVE  /\ Append(s, x) \in Seq(S)
         /\ Len(Append(s, x)) = Len(s) + 1
         /\ \A i \in 1 .. Len(s) : Append(s, x)[i] = s[i]
         /\ Append(s, x)[Len(s) + 1] = x
         /\ Append(s, x) # <<>>
OBVIOUS

(* Replacing the last element *)
LEMMA ReplaceLast ==
  ASSUME NEW S, NEW s \in Seq(S), s # <<>>, NEW x \in S
  PROVE  /\ Append(Front(s), x) \in Seq(S)
         /\ Len(Append(Front(s), x)) = Len(s)
         /\ \A i \in 1 .. Len(s) - 1 : Append(Front(s), x)[i] = s[i]
         /\ Append(Front(s), x)[Len(s)] = x
         /\ Append(Front(s), x) # <<>>
<1>1. Front(s) \in Seq(S) /\ Len(Front(s)) = Len(s) - 1
  BY FrontProperties
<1>2. QED BY <1>1, FrontProperties, AppendLast
-----------------------------------------------------------------------------
(* Counting the frames of a stack that belong to a set *)

At(G, s) == {i \in 1 .. Len(s) : s[i] \in G}

(* The positions of a sequence that satisfy a condition are finitely many *)
LEMMA AtFinite ==
  ASSUME NEW S, NEW s \in Seq(S), NEW G
  PROVE  IsFiniteSet(At(G, s)) /\ Cardinality(At(G, s)) \in Nat
<1>1. At(G, s) \in SUBSET (1 .. Len(s))
  BY DEF At
<1>2. IsFiniteSet(1 .. Len(s))
  BY FS_Interval
<1>3. QED
  BY <1>1, <1>2, FS_Subset, FS_CardinalityType

(* Pushing a frame adds its position to the counted ones, or nothing *)
LEMMA AtAppend ==
  ASSUME NEW S, NEW s \in Seq(S), NEW x \in S, NEW G
  PROVE  Cardinality(At(G, Append(s, x)))
           = Cardinality(At(G, s)) + IF x \in G THEN 1 ELSE 0
<1>1. At(G, Append(s, x)) = IF x \in G THEN At(G, s) \cup {Len(s) + 1} ELSE At(G, s)
  BY DEF At
<1>2. Len(s) + 1 \notin At(G, s)
  BY DEF At
<1>3. IsFiniteSet(At(G, s)) /\ Cardinality(At(G, s)) \in Nat
  BY AtFinite
<1>4. Cardinality(At(G, s) \cup {Len(s) + 1}) = Cardinality(At(G, s)) + 1
  BY <1>2, <1>3, FS_AddElement
<1>5. QED
  BY <1>1, <1>3, <1>4

(* Popping a frame takes its position from the counted ones, or nothing *)
LEMMA AtFront ==
  ASSUME NEW S, NEW s \in Seq(S), s # <<>>, NEW G
  PROVE  Cardinality(At(G, Front(s)))
           = Cardinality(At(G, s)) - IF Last(s) \in G THEN 1 ELSE 0
<1>1. Len(s) \in Nat /\ Len(s) >= 1
  BY EmptySeq
<1>2. At(G, Front(s)) = At(G, s) \ {Len(s)}
  BY <1>1, FrontProperties DEF At
<1>3. Len(s) \in At(G, s) <=> Last(s) \in G
  BY <1>1 DEF At, Last
<1>4. IsFiniteSet(At(G, s)) /\ Cardinality(At(G, s)) \in Nat
  BY AtFinite
<1>5. Cardinality(At(G, s) \ {Len(s)})
        = IF Len(s) \in At(G, s) THEN Cardinality(At(G, s)) - 1 ELSE Cardinality(At(G, s))
  BY <1>4, FS_RemoveElement
<1>6. QED
  BY <1>2, <1>3, <1>4, <1>5

(* Replacing the top frame uncounts the old one and counts the new one *)
LEMMA AtReplace ==
  ASSUME NEW S, NEW s \in Seq(S), s # <<>>, NEW x \in S, NEW G
  PROVE  Cardinality(At(G, Append(Front(s), x)))
           = Cardinality(At(G, s)) - (IF Last(s) \in G THEN 1 ELSE 0)
                                   + (IF x \in G THEN 1 ELSE 0)
BY FrontProperties, AtFront, AtAppend, AtFinite

PushedFrames  == {fr \in Frame : fr.pushed}
OpenFrames(f) == {fr \in Frame : fr.by = f /\ fr.open}

(* The frames that pushed options, as counted positions *)
LEMMA PushedAtDef ==
  ASSUME NEW s \in Seq(Frame)
  PROVE  PushedAt(s) = At(PushedFrames, s)
BY DEF PushedAt, At, PushedFrames

(* The frames between start and stop, as counted positions *)
LEMMA OpenAtDef ==
  ASSUME NEW s \in Seq(Frame), NEW f
  PROVE  OpenAt(f, s) = At(OpenFrames(f), s)
BY DEF OpenAt, At, OpenFrames

-----------------------------------------------------------------------------
(* Formatters and their plans *)

(* A set of positions in a list of five has a first one *)
LEMMA FirstInFive ==
  ASSUME NEW I \in SUBSET {1, 2, 3, 4, 5}, I # {}
  PROVE  \E i \in I : \A j \in I : i <= j
<1>1. CASE 1 \in I
  BY <1>1
<1>2. CASE 1 \notin I /\ 2 \in I
  BY <1>2
<1>3. CASE 1 \notin I /\ 2 \notin I /\ 3 \in I
  BY <1>3
<1>4. CASE 1 \notin I /\ 2 \notin I /\ 3 \notin I /\ 4 \in I
  BY <1>4
<1>5. CASE 1 \notin I /\ 2 \notin I /\ 3 \notin I /\ 4 \notin I
  <2>1. I = {5}
    BY <1>5
  <2>2. QED
    BY <2>1
<1>6. QED
  BY <1>1, <1>2, <1>3, <1>4, <1>5

(* A custom formatter the search finds accepts the value *)
LEMMA FirstAcceptingAccepts ==
  ASSUME NEW list \in {Custom, Builtin}, NEW v, NEW o
  PROVE  LET f == FirstAccepting(list, v, o)
         IN  \/ f = "none"
             \/ f \in Formatters /\ Accepts(f, v, o)
<1> DEFINE I == {i \in DOMAIN list : Accepts(list[i], v, o)}
           m == CHOOSE i \in I : \A j \in I : i <= j
<1>1. DOMAIN list \in SUBSET {1, 2, 3, 4, 5} /\ \A i \in DOMAIN list : list[i] \in Formatters
  BY DEF Custom, Builtin, Formatters, CustomFormatters
<1>2. CASE I = {}
  BY <1>2 DEF FirstAccepting
<1>3. CASE I # {}
  <2>1. I \in SUBSET {1, 2, 3, 4, 5}
    BY <1>1
  <2>2. m \in I
    BY <1>3, <2>1, FirstInFive
  <2>3. FirstAccepting(list, v, o) = list[m]
    BY <1>3 DEF FirstAccepting
  <2>4. QED
    BY <1>1, <2>2, <2>3
<1>4. QED
  BY <1>2, <1>3

(* The formatter a call is given to accepts the value *)
LEMMA ChosenAccepts ==
  ASSUME NEW op, NEW v, NEW o
  PROVE  \/ Chosen(op, v, o) = "none"
         \/ Chosen(op, v, o) \in Formatters /\ Accepts(Chosen(op, v, o), v, o)
BY FirstAcceptingAccepts DEF Chosen

(* The calls a formatter makes for its sub-values are steps of the model *)
LEMMA SubSteps ==
  ASSUME NEW op \in {"format", "field", "fields", "elements"},
         NEW subs \in Seq(Values \cup Faults)
  PROVE  /\ Sub(op, subs) \in Seq(Step)
         /\ Len(Sub(op, subs)) = Len(subs)
         /\ \A i \in 1 .. Len(subs) : Sub(op, subs)[i].op = op
<1>1. \A i \in 1 .. Len(subs) :
        [op |-> op, sub |-> subs[i], opts |-> "current"] \in Step
  BY DEF Step, OptionMods
<1>2. QED
  BY <1>1 DEF Sub

(* A record formatter's work is start, fields, stop, in this order *)
LEMMA RecordPlanOK ==
  ASSUME heap \in [Values -> Desc], NEW v \in Values
  PROVE  /\ RecordPlan(v) \in Seq(Step)
         /\ RecordPlan(v) # <<>>
         /\ RecordPlan(v)[1].op = "start"
         /\ LoopLeft(Tail(RecordPlan(v)))
<1> DEFINE fields == Sub("field", heap[v].subs)
           loop == fields \o <<Do("stop")>>
<1>1. Do("start") \in Step /\ Do("stop") \in Step
  BY DEF Do, Step, OptionMods
<1>2. heap[v].subs \in Seq(Values \cup Faults)
  BY DEF Desc
<1>3. fields \in Seq(Step) /\ \A i \in 1 .. Len(fields) : fields[i].op = "field"
  BY <1>2, SubSteps
<1>4. loop \in Seq(Step) /\ LoopLeft(loop)
  <2> HIDE DEF fields
  <2>1. /\ loop \in Seq(Step)
        /\ Len(loop) = Len(fields) + 1
        /\ loop[Len(fields) + 1] = Do("stop")
        /\ \A i \in 1 .. Len(fields) : loop[i] = fields[i]
    BY <1>1, <1>3
  <2>2. loop # <<>>
    BY <2>1, <1>3
  <2>3. QED
    BY <1>3, <2>1, <2>2 DEF LoopLeft, Last, Do
<1>5. RecordPlan(v) = <<Do("start")>> \o loop
  <2> HIDE DEF fields
  <2>1. RecordPlan(v) = <<Do("start")>> \o fields \o <<Do("stop")>>
    BY DEF RecordPlan, fields
  <2>2. QED
    BY <1>1, <1>3, <2>1
<1>6. /\ <<Do("start")>> \o loop \in Seq(Step)
      /\ <<Do("start")>> \o loop # <<>>
      /\ (<<Do("start")>> \o loop)[1] = Do("start")
      /\ Tail(<<Do("start")>> \o loop) = loop
  <2> HIDE DEF loop
  <2> QED BY <1>1, <1>4
<1>7. Do("start").op = "start"
  BY DEF Do
<1> HIDE DEF loop
<1>8. QED
  BY <1>4, <1>5, <1>6, <1>7

(* A functor formatter's work is well formed *)
LEMMA FunctorPlanOK ==
  ASSUME heap \in [Values -> Desc], NEW v \in Values
  PROVE  /\ FunctorPlan(v) \in Seq(Step)
         /\ Len(FunctorPlan(v)) > 1
         /\ FunctorPlan(v)[1].op = "format"
         /\ FunctorPlan(v)[2].op = "start"
         /\ LoopLeft(Tail(Tail(FunctorPlan(v))))
<1> DEFINE callop == IF heap[v].callop = NoValue THEN FormatError ELSE heap[v].callop
           step == Format(callop, "current")
           rec == RecordPlan(v)
<1>1. callop \in Values \cup Faults
  BY DEF Desc, Faults
<1>2. step \in Step /\ step.op = "format"
  BY <1>1 DEF Format, Step, OptionMods
<1>3. rec \in Seq(Step) /\ rec # <<>> /\ rec[1].op = "start" /\ LoopLeft(Tail(rec))
  BY RecordPlanOK
<1>4. FunctorPlan(v) = <<step>> \o rec
  BY DEF FunctorPlan
<1> HIDE DEF step, rec
<1>5. /\ <<step>> \o rec \in Seq(Step)
      /\ Len(<<step>> \o rec) = Len(rec) + 1
      /\ (<<step>> \o rec)[1] = step
      /\ (<<step>> \o rec)[2] = rec[1]
      /\ Tail(<<step>> \o rec) = rec
  BY <1>2, <1>3
<1>6. Len(rec) \in Nat /\ Len(rec) >= 1
  BY <1>3, EmptySeq
<1>7. Tail(Tail(FunctorPlan(v))) = Tail(rec)
  BY <1>4, <1>5
<1>8. Len(FunctorPlan(v)) > 1
  BY <1>4, <1>5, <1>6
<1>9. QED
  BY <1>2, <1>3, <1>4, <1>5, <1>7, <1>8, Zenon

(* The plan of a formatter that accepted the value *)
LEMMA PlanOK ==
  ASSUME heap \in [Values -> Desc], NEW v \in Values, NEW f \in Formatters,
         NEW o, Accepts(f, v, o)
  PROVE  /\ Plan(f, v) \in Seq(Step)
         /\ f \in RecFormatters =>
              \A p \in BOOLEAN, w \in BOOLEAN :
                 RecordOK([by |-> f, val |-> v, wrap |-> w, pushed |-> p,
                           open |-> FALSE, todo |-> Plan(f, v)])
         /\ f \notin RecFormatters =>
              \A i \in 1 .. Len(Plan(f, v)) : Plan(f, v)[i].op \notin RecordOps
<1>1. CASE f = "record"
  BY <1>1, RecordPlanOK DEF Plan, PointerPlan, TuplePlan, ConvPlan, BindPlan, RecordOK, RecFormatters
<1>2. CASE f \in {"functor", "lambda"}
  BY SMTT(30), <1>2, FunctorPlanOK DEF Plan, PointerPlan, TuplePlan, ConvPlan, BindPlan, RecordOK, RecFormatters
<1>3. CASE f \in {"simple", "pointer", "tuple"}
  BY <1>3, SubSteps DEF Plan, PointerPlan, TuplePlan, ConvPlan, BindPlan, Desc, RecFormatters, RecordOps
<1>4. CASE f = "container"
  BY <1>4 DEF Plan, PointerPlan, TuplePlan, ConvPlan, BindPlan, RecFormatters
<1>5. CASE f = "conv"
  <2>1. heap[v].class = "conv"
    BY <1>5 DEF Accepts
  <2>2. heap[v].subs[1] \in Values \cup Faults
    BY <2>1 DEF Desc
  <2>3. Plan(f, v) = <<Format(heap[v].subs[1], "noraw")>>
    BY <1>5 DEF Plan, PointerPlan, TuplePlan, ConvPlan, BindPlan
  <2> DEFINE a == Format(heap[v].subs[1], "noraw")
  <2>4. a \in Step /\ a.op \notin RecordOps
    BY <2>2 DEF Format, Step, OptionMods, RecordOps
  <2> HIDE DEF a
  <2>5. <<a>> \in Seq(Step) /\ \A i \in 1 .. Len(<<a>>) : <<a>>[i] = a
    BY <2>4
  <2>6. QED
    BY <1>5, <2>3, <2>4, <2>5 DEF a, RecFormatters
<1>6. CASE f = "bind"
  <2>1. heap[v].class = "bind"
    BY <1>6 DEF Accepts
  <2>2. heap[v].subs[1] \in Values \cup Faults /\ heap[v].subs[2] \in Values \cup Faults
    BY <2>1 DEF Desc
  <2>3. Plan(f, v) = <<Format(heap[v].subs[1], "functor"),
                       Format(heap[v].subs[2], "noraw"), Do("childs")>>
    BY <1>6 DEF Plan, PointerPlan, TuplePlan, ConvPlan, BindPlan
  <2> DEFINE a == Format(heap[v].subs[1], "functor")
             b == Format(heap[v].subs[2], "noraw")
             c == Do("childs")
  <2>4. \A x \in {a, b, c} : x \in Step /\ x.op \notin RecordOps
    BY <2>2 DEF Format, Do, Step, OptionMods, RecordOps
  <2> HIDE DEF a, b, c
  <2>5. <<a, b, c>> \in Seq(Step) /\ \A i \in 1 .. Len(<<a, b, c>>) : <<a, b, c>>[i] \in {a, b, c}
    BY <2>4
  <2>6. Plan(f, v) = <<a, b, c>>
    BY <2>3 DEF a, b, c
  <2>7. QED
    BY <1>6, <2>4, <2>5, <2>6 DEF RecFormatters
<1>7. QED
  BY <1>1, <1>2, <1>3, <1>4, <1>5, <1>6 DEF Formatters, CustomFormatters
-----------------------------------------------------------------------------
(* Frames, as their calls advance *)

(* What is left of a loop of fields after one field is well formed *)
LEMMA LoopTail ==
  ASSUME NEW todo \in Seq(Step), LoopLeft(todo), todo[1].op # "stop"
  PROVE  LoopLeft(Tail(todo))
<1>1. Len(todo) \in Nat /\ Len(todo) > 1
  BY EmptySeq DEF LoopLeft, Last
<1>2. Tail(todo) \in Seq(Step) /\ Len(Tail(todo)) = Len(todo) - 1
  BY <1>1
<1>3. \A i \in 1 .. Len(Tail(todo)) : Tail(todo)[i] = todo[i + 1]
  BY <1>1, <1>2
<1>4. Tail(todo) # <<>>
  <2>1. Len(Tail(todo)) >= 1
    BY <1>1, <1>2
  <2>2. QED
    BY <1>2, <2>1, NonEmpty, Zenon
<1>5. QED
  BY <1>1, <1>2, <1>3, <1>4 DEF LoopLeft, Last

(* A loop of fields begins with a step of a field or with its stop *)
LEMMA LoopHead ==
  ASSUME NEW todo \in Seq(Step), LoopLeft(todo)
  PROVE  /\ todo # <<>>
         /\ todo[1].op \in {"field", "format", "stop"}
         /\ todo[1].op = "stop" => Len(todo) = 1
<1>1. Len(todo) \in Nat /\ Len(todo) >= 1
  BY EmptySeq DEF LoopLeft
<1>2. CASE Len(todo) = 1
  BY <1>2 DEF LoopLeft, Last
<1>3. CASE Len(todo) > 1
  <2>1. 1 \in 1 .. Len(todo) - 1
    BY <1>1, <1>3
  <2>2. todo[1].op \in {"field", "format"}
    BY <2>1 DEF LoopLeft
  <2>3. QED
    BY <2>2 DEF LoopLeft
<1>4. \A n \in Nat : n >= 1 => n = 1 \/ n > 1
  OBVIOUS
<1>5. QED
  BY <1>1, <1>2, <1>3, <1>4, Zenon

(* The rest of a well-formed plan is a well-formed plan *)
LEMMA TailOK ==
  ASSUME NEW fr \in Frame, FrameOK(fr), fr.todo # <<>>, fr.todo[1].op \notin RecordOps
  PROVE  /\ [fr EXCEPT !.todo = Tail(fr.todo)] \in Frame
         /\ FrameOK([fr EXCEPT !.todo = Tail(fr.todo)])
<1> DEFINE x == [fr EXCEPT !.todo = Tail(fr.todo)]
<1>1. fr.todo \in Seq(Step)
  BY DEF Frame
<1>2. /\ Tail(fr.todo) \in Seq(Step)
      /\ Len(Tail(fr.todo)) = Len(fr.todo) - 1
      /\ \A i \in 1 .. Len(Tail(fr.todo)) : Tail(fr.todo)[i] = fr.todo[i + 1]
  BY <1>1
<1>3. x \in Frame /\ x.by = fr.by /\ x.val = fr.val /\ x.open = fr.open /\ x.todo = Tail(fr.todo)
  BY <1>2 DEF Frame
<1>4. fr.by \in RecFormatters => RecordOK(x)
  <2> SUFFICES ASSUME fr.by \in RecFormatters PROVE RecordOK(x)
    OBVIOUS
  <2>1. RecordOK(fr)
    BY DEF FrameOK
  <2>2. CASE fr.open /\ LoopLeft(fr.todo)
    BY <1>1, <1>3, <2>2, LoopTail DEF RecordOK, RecordOps
  <2>3. CASE /\ ~fr.open /\ Len(fr.todo) > 1 /\ fr.todo[1].op = "format"
             /\ fr.todo[2].op = "start" /\ LoopLeft(Tail(Tail(fr.todo)))
    <3>0. Len(fr.todo) \in Nat /\ 1 \in 1 .. Len(Tail(fr.todo))
      BY <1>1, <1>2, <2>3
    <3>1. Len(Tail(fr.todo)) >= 1 /\ Tail(fr.todo)[1] = fr.todo[2]
      BY <1>2, <3>0
    <3>2. Tail(fr.todo) # <<>>
      BY <1>2, <3>1, NonEmpty, Zenon
    <3>3. QED
      BY <1>3, <2>3, <3>1, <3>2 DEF RecordOK
  <2>4. QED
    BY <2>1, <2>2, <2>3 DEF RecordOK, RecordOps
<1>5. QED
  BY <1>1, <1>2, <1>3, <1>4 DEF FrameOK

-----------------------------------------------------------------------------
(* The three ways the stack changes *)

(* The number of pushed options is a natural number *)
LEMMA PushedIsNat ==
  ASSUME NEW s \in Seq(Frame)
  PROVE  Cardinality(PushedAt(s)) \in Nat
BY AtFinite, PushedAtDef

(* The number of open records is a natural number *)
LEMMA OpenIsNat ==
  ASSUME NEW s \in Seq(Frame), NEW f
  PROVE  Cardinality(OpenAt(f, s)) \in Nat
BY AtFinite, OpenAtDef

(* Replacing the top frame keeps the stack well formed and its pushed options *)
LEMMA StackReplace ==
  ASSUME NEW s, FramesOK(s), s # <<>>, NEW x \in Frame, FrameOK(x),
         x.pushed = Last(s).pushed, NEW t, t = Replaced(s, x)
  PROVE  /\ FramesOK(t) /\ t # <<>> /\ Len(t) = Len(s) /\ Last(t) = x
         /\ Cardinality(PushedAt(t)) = Cardinality(PushedAt(s))
<1>0. s \in Seq(Frame) /\ \A i \in 1 .. Len(s) : FrameOK(s[i])
  BY DEF FramesOK
<1>1. Len(s) \in Nat /\ Len(s) >= 1
  BY <1>0, EmptySeq
<1>2. /\ t \in Seq(Frame) /\ t # <<>> /\ Len(t) = Len(s) /\ t[Len(s)] = x
      /\ \A i \in 1 .. Len(s) - 1 : t[i] = s[i]
  BY <1>0, ReplaceLast DEF Replaced
<1>3. \A i \in 1 .. Len(t) : FrameOK(t[i])
  BY <1>0, <1>1, <1>2
<1>4. Last(s) \in Frame
  BY <1>0, <1>1 DEF Last
<1>5. Cardinality(PushedAt(t)) = Cardinality(PushedAt(s))
  <2>1. Cardinality(At(PushedFrames, t))
          = Cardinality(At(PushedFrames, s)) - (IF Last(s) \in PushedFrames THEN 1 ELSE 0)
                                             + (IF x \in PushedFrames THEN 1 ELSE 0)
    BY <1>0, AtReplace DEF Replaced
  <2>2. Last(s) \in PushedFrames <=> x \in PushedFrames
    BY <1>0, <1>4 DEF PushedFrames
  <2>3. Cardinality(At(PushedFrames, s)) \in Nat
    BY <1>0, AtFinite
  <2>4. PushedAt(t) = At(PushedFrames, t) /\ PushedAt(s) = At(PushedFrames, s)
    BY <1>0, <1>2, PushedAtDef
  <2>5. Cardinality(At(PushedFrames, t)) = Cardinality(At(PushedFrames, s))
    BY <1>0, <2>1, <2>2, <2>3
  <2>6. QED
    BY <1>0, <2>4, <2>5
<1>6. QED
  BY <1>0, <1>2, <1>3, <1>5 DEF Last, FramesOK

(* Replacing the top frame by one open alike keeps the open records *)
LEMMA StackReplaceOpen ==
  ASSUME NEW s, FramesOK(s), s # <<>>, NEW x \in Frame, NEW t, t = Replaced(s, x), NEW f
  PROVE  /\ (Last(s) \in OpenFrames(f) <=> x \in OpenFrames(f))
              => Cardinality(OpenAt(f, t)) = Cardinality(OpenAt(f, s))
         /\ Last(s) \notin OpenFrames(f) /\ x \in OpenFrames(f)
              => Cardinality(OpenAt(f, t)) = Cardinality(OpenAt(f, s)) + 1
         /\ Last(s) \in OpenFrames(f) /\ x \notin OpenFrames(f)
              => Cardinality(OpenAt(f, t)) = Cardinality(OpenAt(f, s)) - 1
<1>1. s \in Seq(Frame) /\ t \in Seq(Frame)
  BY ReplaceLast DEF FramesOK, Replaced
<1>2. OpenAt(f, t) = At(OpenFrames(f), t) /\ OpenAt(f, s) = At(OpenFrames(f), s)
  BY <1>1, OpenAtDef
<1>3. Cardinality(At(OpenFrames(f), t))
        = Cardinality(At(OpenFrames(f), s)) - (IF Last(s) \in OpenFrames(f) THEN 1 ELSE 0)
                                            + (IF x \in OpenFrames(f) THEN 1 ELSE 0)
  BY <1>1, AtReplace DEF Replaced
<1>4. Cardinality(At(OpenFrames(f), s)) \in Nat
  BY <1>1, AtFinite
<1>5. QED
  BY <1>2, <1>3, <1>4

(* Pushing a frame keeps the stack well formed *)
LEMMA StackPush ==
  ASSUME NEW s, FramesOK(s), NEW x \in Frame, FrameOK(x), ~x.open,
         NEW t, t = Pushed(s, x)
  PROVE  /\ FramesOK(t) /\ t # <<>> /\ Len(t) = Len(s) + 1 /\ Last(t) = x
         /\ Cardinality(PushedAt(t)) = Cardinality(PushedAt(s)) + IF x.pushed THEN 1 ELSE 0
<1>0. s \in Seq(Frame) /\ \A i \in 1 .. Len(s) : FrameOK(s[i])
  BY DEF FramesOK
<1>1. /\ t \in Seq(Frame) /\ t # <<>> /\ Len(t) = Len(s) + 1 /\ t[Len(s) + 1] = x
      /\ \A i \in 1 .. Len(s) : t[i] = s[i]
  BY <1>0, AppendLast DEF Pushed
<1>2. \A i \in 1 .. Len(t) : FrameOK(t[i])
  BY <1>0, <1>1
<1>3. Cardinality(PushedAt(t)) = Cardinality(PushedAt(s)) + IF x.pushed THEN 1 ELSE 0
  <2>1. Cardinality(At(PushedFrames, t))
          = Cardinality(At(PushedFrames, s)) + IF x \in PushedFrames THEN 1 ELSE 0
    BY <1>0, AtAppend DEF Pushed
  <2>2. x \in PushedFrames <=> x.pushed
    BY DEF PushedFrames
  <2>3. QED
    BY <1>0, <1>1, <2>1, <2>2, PushedAtDef
<1>4. QED
  BY <1>0, <1>1, <1>2, <1>3 DEF Last, FramesOK

(* Pushing a frame that opened no record keeps the open records *)
LEMMA StackPushOpen ==
  ASSUME NEW s, FramesOK(s), NEW x \in Frame, ~x.open, NEW t, t = Pushed(s, x), NEW f
  PROVE  Cardinality(OpenAt(f, t)) = Cardinality(OpenAt(f, s))
<1>1. s \in Seq(Frame) /\ t \in Seq(Frame)
  BY AppendLast DEF FramesOK, Pushed
<1>2. x \notin OpenFrames(f)
  BY DEF OpenFrames
<1>3. Cardinality(At(OpenFrames(f), t)) = Cardinality(At(OpenFrames(f), s)) + 0
  BY <1>1, <1>2, AtAppend DEF Pushed
<1>4. Cardinality(At(OpenFrames(f), s)) \in Nat
  BY <1>1, AtFinite
<1>5. OpenAt(f, t) = At(OpenFrames(f), t) /\ OpenAt(f, s) = At(OpenFrames(f), s)
  BY <1>1, OpenAtDef
<1>6. QED
  BY <1>3, <1>4, <1>5

(* Popping a frame takes away the options it pushed and no others *)
LEMMA StackPop ==
  ASSUME NEW s, FramesOK(s), s # <<>>, NEW t, t = Front(s)
  PROVE  /\ FramesOK(t) /\ Len(t) = Len(s) - 1
         /\ Cardinality(PushedAt(t)) = Cardinality(PushedAt(s)) - IF Last(s).pushed THEN 1 ELSE 0
<1>0. s \in Seq(Frame) /\ \A i \in 1 .. Len(s) : FrameOK(s[i])
  BY DEF FramesOK
<1>1. Len(s) \in Nat /\ Len(s) >= 1
  BY <1>0, EmptySeq
<1>2. /\ t \in Seq(Frame) /\ Len(t) = Len(s) - 1
      /\ \A i \in 1 .. Len(s) - 1 : t[i] = s[i]
  BY <1>0, FrontProperties
<1>3. \A i \in 1 .. Len(t) : FrameOK(t[i])
  BY <1>0, <1>1, <1>2
<1>4. Cardinality(PushedAt(t)) = Cardinality(PushedAt(s)) - IF Last(s).pushed THEN 1 ELSE 0
  <2>1. Cardinality(At(PushedFrames, t))
          = Cardinality(At(PushedFrames, s)) - IF Last(s) \in PushedFrames THEN 1 ELSE 0
    BY <1>0, AtFront
  <2>2. Last(s) \in PushedFrames <=> Last(s).pushed
    BY <1>0, <1>1 DEF PushedFrames, Last
  <2>3. QED
    BY <1>0, <1>2, <2>1, <2>2, PushedAtDef
<1>5. QED
  BY <1>0, <1>2, <1>3, <1>4 DEF FramesOK

(* Popping a frame takes away its own open record and no others *)
LEMMA StackPopOpen ==
  ASSUME NEW s, FramesOK(s), s # <<>>, NEW t, t = Front(s), NEW f
  PROVE  Cardinality(OpenAt(f, t))
           = Cardinality(OpenAt(f, s)) - IF Last(s) \in OpenFrames(f) THEN 1 ELSE 0
<1>1. s \in Seq(Frame) /\ t \in Seq(Frame)
  BY FrontProperties DEF FramesOK
<1>2. QED
  BY <1>1, AtFront, OpenAtDef

-----------------------------------------------------------------------------
(* What the invariant says of the frame that runs *)

(* The frame that runs is a frame of the stack *)
LEMMA TopFacts ==
  ASSUME IInv, stack # <<>>
  PROVE  /\ Top = Last(stack) /\ Rest = Front(stack)
         /\ Top \in Frame /\ FrameOK(Top) /\ Top.todo \in Seq(Step)
         /\ FramesOK(stack)
<1>1. /\ FramesOK(stack)
      /\ stack \in Seq(Frame) /\ \A i \in 1 .. Len(stack) : FrameOK(stack[i])
  BY DEF IInv, Shape, FramesOK
<1>2. Len(stack) \in Nat /\ Len(stack) >= 1
  BY <1>1, EmptySeq
<1>3. Top \in Frame /\ FrameOK(Top)
  BY <1>1, <1>2 DEF Top
<1>4. Top.todo \in Seq(Step)
  BY <1>3 DEF Frame
<1>5. QED
  BY <1>1, <1>3, <1>4 DEF Top, Rest, Last, Front

(* The step that is next is a step of the running frame *)
LEMMA HeadFacts ==
  ASSUME IInv, NEW op, Next1(op)
  PROVE  /\ stack # <<>> /\ exc = "none"
         /\ Top.todo # <<>> /\ Head1 = Top.todo[1] /\ Head1 \in Step /\ Head1.op = op
         /\ Tail(Top.todo) \in Seq(Step)
<1>1. stack # <<>> /\ exc = "none" /\ Top.todo # <<>> /\ Head1.op = op
  BY DEF Next1, Running
<1>2. Top.todo \in Seq(Step)
  BY <1>1, TopFacts
<1>3. QED
  BY <1>1, <1>2 DEF Head1

(* The options in force, and the modified ones, are options *)
LEMMA OptsTypes ==
  ASSUME IInv, NEW m \in OptionMods
  PROVE  FmtOpts \in Options /\ With(FmtOpts, m) \in Options
<1>1. base \in Options /\ over \in Seq(Options)
  BY DEF IInv, TypeOK
<1>2. FmtOpts \in Options
  BY <1>1, EmptySeq DEF FmtOpts
<1>3. QED
  BY <1>2 DEF With, Options, OptionMods

(* A step that only changes what is left of the running frame *)
LEMMA RewriteTop ==
  ASSUME IInv, stack # <<>>, NEW todo \in Seq(Step), FrameOK([Top EXCEPT !.todo = todo])
  PROVE  /\ FramesOK(WithTodo(todo)) /\ WithTodo(todo) # <<>>
         /\ Cardinality(PushedAt(WithTodo(todo))) = Cardinality(PushedAt(stack))
         /\ \A f : Cardinality(OpenAt(f, WithTodo(todo))) = Cardinality(OpenAt(f, stack))
<1> DEFINE x == [Top EXCEPT !.todo = todo]
           t == WithTodo(todo)
<1>1. Top = Last(stack) /\ Rest = Front(stack) /\ Top \in Frame /\ FramesOK(stack)
  BY TopFacts
<1>2. x \in Frame /\ FrameOK(x)
  BY <1>1 DEF Frame
<1>3. x.pushed = Last(stack).pushed /\ x.by = Top.by /\ x.open = Top.open
  BY <1>1 DEF Frame
<1>4. t = Replaced(stack, x)
  BY <1>1 DEF WithTodo, Replaced
<1>5. \A f : x \in OpenFrames(f) <=> Last(stack) \in OpenFrames(f)
  BY <1>1, <1>2, <1>3 DEF OpenFrames
<1> HIDE DEF x, t
<1>6. /\ FramesOK(t) /\ t # <<>>
      /\ Cardinality(PushedAt(t)) = Cardinality(PushedAt(stack))
  BY <1>1, <1>2, <1>3, <1>4, StackReplace
<1>7. ASSUME NEW f
      PROVE  Cardinality(OpenAt(f, t)) = Cardinality(OpenAt(f, stack))
  BY <1>1, <1>2, <1>4, <1>5, StackReplaceOpen
<1>8. QED
  BY <1>6, <1>7, Zenon DEF t

(* ... by consuming its head *)
LEMMA Advance ==
  ASSUME IInv, NEW op \in {"format", "raw", "childs", "fields", "elements"}, Next1(op)
  PROVE  LET t == WithTodo(Tail(Top.todo))
         IN  /\ FramesOK(t) /\ t # <<>>
             /\ Cardinality(PushedAt(t)) = Cardinality(PushedAt(stack))
             /\ \A f : Cardinality(OpenAt(f, t)) = Cardinality(OpenAt(f, stack))
<1>1. /\ stack # <<>> /\ Top.todo # <<>> /\ Top.todo[1].op \notin RecordOps
      /\ Top \in Frame /\ FrameOK(Top) /\ Tail(Top.todo) \in Seq(Step)
  BY HeadFacts, TopFacts DEF RecordOps
<1>2. FrameOK([Top EXCEPT !.todo = Tail(Top.todo)])
  BY <1>1, TailOK
<1>3. QED
  BY <1>1, <1>2, RewriteTop, Zenon

(* A step that keeps the frames that pushed options or opened a record *)
LEMMA SameCounts ==
  ASSUME IInv, exc = "none", exc' = "none", FramesOK(stack'),
         Cardinality(PushedAt(stack')) = Cardinality(PushedAt(stack)),
         \A f : Cardinality(OpenAt(f, stack')) = Cardinality(OpenAt(f, stack)),
         num' \in [RecFormatters -> 0 .. FieldBudget],
         shown' \in [RecFormatters -> Nat],
         res' \in Result, ResultOK(res'), calls' \in Nat, base' \in Options,
         UNCHANGED <<heap, over, depth, held, lostPops, lostStops>>
  PROVE  IInv'
<1>1. TypeOK'
  BY DEF IInv, TypeOK, FramesOK
<1>2. Shape'
  BY DEF IInv, Shape
<1>3. OptsBalanced' /\ DepthBalanced'
  BY DEF IInv, OptsBalanced, DepthBalanced
<1>4. ErrorsContained'
  BY DEF ErrorsContained, FormatError
<1>5. QED
  BY <1>1, <1>2, <1>3, <1>4 DEF IInv

(* No result is a well-formed result *)
LEMMA NoResultOK == NoResult \in Result /\ ResultOK(NoResult)
BY DEF NoResult, Result, ResultOK

(* Calling a formatter keeps the invariant *)
LEMMA CallStep ==
  ASSUME IInv, NEW op \in {"format", "raw"}, Call(op)
  PROVE  IInv'
<1> DEFINE v == Head1.sub
           m == Head1.opts
           o == CallOpts
           f == Chosen(op, v, o)
           s == WithTodo(Tail(Top.todo))
           x == FrameFor(f, v, op, m, o)
<1>1. /\ Next1(op) /\ v \in Values /\ f # "none"
      /\ stack' = Pushed(s, x)
      /\ over' = IF m = "current" THEN over ELSE Append(over, o)
      /\ res' = NoResult
      /\ UNCHANGED <<heap, base, depth, num, exc, held, calls, lostPops, lostStops, shown>>
  BY DEF Call, Pushed
<1>2. m \in OptionMods
  BY <1>1, HeadFacts DEF Step
<1>3. o \in Options
  BY <1>2, OptsTypes DEF CallOpts
<1>4. f \in Formatters /\ Accepts(f, v, o)
  BY <1>1, ChosenAccepts
<1>5. heap \in [Values -> Desc]
  BY DEF IInv, TypeOK
<1>6. /\ Plan(f, v) \in Seq(Step)
      /\ f \in RecFormatters =>
              \A p \in BOOLEAN, w \in BOOLEAN :
                 RecordOK([by |-> f, val |-> v, wrap |-> w, pushed |-> p,
                           open |-> FALSE, todo |-> Plan(f, v)])
      /\ f \notin RecFormatters =>
              \A i \in 1 .. Len(Plan(f, v)) : Plan(f, v)[i].op \notin RecordOps
  BY <1>1, <1>4, <1>5, PlanOK
<1> HIDE DEF f, v, m, o
<1>7. x \in Frame /\ FrameOK(x) /\ ~x.open /\ (x.pushed <=> m # "current")
  <2>1. o.raw \in BOOLEAN
    BY <1>3 DEF Options
  <2> DEFINE w == op = "format" /\ f \in CustomFormatters /\ o.raw
             p == m # "current"
  <2>2. x = [by |-> f, val |-> v, wrap |-> w, pushed |-> p, open |-> FALSE, todo |-> Plan(f, v)]
    BY DEF FrameFor
  <2>3. w \in BOOLEAN /\ p \in BOOLEAN
    BY <2>1
  <2> HIDE DEF w, p
  <2>4. x \in Frame
    BY <1>1, <1>4, <1>6, <2>2, <2>3 DEF Frame
  <2>5. FrameOK(x)
    BY <1>1, <1>4, <1>6, <2>2, <2>3 DEF FrameOK, Formatters, CustomFormatters, RecFormatters
  <2>6. x.open = FALSE /\ x.pushed = p
    BY <2>2
  <2>7. QED
    BY <2>4, <2>5, <2>6, Zenon DEF p
<1>8. /\ FramesOK(s) /\ s # <<>>
      /\ Cardinality(PushedAt(s)) = Cardinality(PushedAt(stack))
      /\ \A g : Cardinality(OpenAt(g, s)) = Cardinality(OpenAt(g, stack))
  BY <1>1, Advance
<1> HIDE DEF s, x
<1>9. /\ FramesOK(stack') /\ stack' # <<>>
      /\ Cardinality(PushedAt(stack')) = Cardinality(PushedAt(s)) + IF x.pushed THEN 1 ELSE 0
      /\ \A g : Cardinality(OpenAt(g, stack')) = Cardinality(OpenAt(g, s))
  <2>1. FramesOK(s) /\ x \in Frame /\ FrameOK(x) /\ ~x.open /\ stack' = Pushed(s, x)
    BY <1>1, <1>7, <1>8
  <2>2. FramesOK(stack') /\ stack' # <<>>
    BY <2>1, StackPush
  <2>3. Cardinality(PushedAt(stack')) = Cardinality(PushedAt(s)) + IF x.pushed THEN 1 ELSE 0
    BY <2>1, StackPush
  <2>4. \A g : Cardinality(OpenAt(g, stack')) = Cardinality(OpenAt(g, s))
    BY <2>1, StackPushOpen
  <2>5. QED
    BY <2>2, <2>3, <2>4
<1>10. over \in Seq(Options) /\ over' \in Seq(Options)
       /\ Len(over') = Len(over) + IF m = "current" THEN 0 ELSE 1
  BY <1>1, <1>3 DEF IInv, TypeOK
<1>11. TypeOK'
  BY <1>1, <1>9, <1>10 DEF IInv, TypeOK, NoResult, Result, FramesOK
<1>12. Shape'
  BY <1>1, <1>9 DEF IInv, Shape, ResultOK, NoResult
<1>13. OptsBalanced'
  <2>1. /\ stack \in Seq(Frame) /\ Cardinality(PushedAt(stack)) \in Nat
        /\ lostPops \in Nat /\ Len(over) \in Nat
    BY PushedIsNat, <1>10 DEF IInv, TypeOK
  <2>2. Len(over) = Cardinality(PushedAt(stack)) + lostPops
    BY DEF IInv, OptsBalanced
  <2>3. QED
    BY <1>1, <1>7, <1>8, <1>9, <1>10, <2>1, <2>2 DEF OptsBalanced
<1>14. DepthBalanced'
  BY <1>1, <1>8, <1>9 DEF IInv, DepthBalanced
<1>15. ErrorsContained'
  BY <1>1, HeadFacts DEF ErrorsContained, FormatError
<1>16. QED
  BY <1>11, <1>12, <1>13, <1>14, <1>15 DEF IInv

(* Calling on an invalid value keeps the invariant *)
LEMMA CallUnformattableStep ==
  ASSUME IInv, NEW op \in {"format", "raw"}, CallUnformattable(op)
  PROVE  IInv'
<1>1. /\ Next1(op) /\ stack' = WithTodo(Tail(Top.todo)) /\ res' = NoResult
      /\ UNCHANGED <<heap, base, over, depth, num, exc, held, calls, lostPops, lostStops, shown>>
  BY DEF CallUnformattable
<1>2. /\ FramesOK(stack')
      /\ Cardinality(PushedAt(stack')) = Cardinality(PushedAt(stack))
      /\ \A f : Cardinality(OpenAt(f, stack')) = Cardinality(OpenAt(f, stack))
  BY <1>1, Advance
<1>3. exc = "none" /\ exc' = "none"
  BY <1>1, HeadFacts
<1>4. res' \in Result /\ ResultOK(res')
  BY <1>1, NoResultOK
<1>5. /\ num' \in [RecFormatters -> 0 .. FieldBudget] /\ shown' \in [RecFormatters -> Nat]
      /\ calls' \in Nat /\ base' \in Options
  BY <1>1 DEF IInv, TypeOK
<1>6. QED
  BY <1>1, <1>2, <1>3, <1>4, <1>5, SameCounts

(* A failing read keeps the invariant *)
LEMMA ThrowStep ==
  ASSUME IInv, Throw
  PROVE  IInv'
<1>1. /\ Next1("format") /\ Head1.sub \in Faults /\ exc' = Head1.sub
      /\ UNCHANGED <<heap, base, over, depth, num, stack, res, held, calls, lostPops, lostStops, shown>>
  BY DEF Throw
<1>2. TypeOK'
  BY <1>1 DEF IInv, TypeOK
<1>3. stack # <<>> /\ Top.by # "client"
  <2>1. /\ stack # <<>> /\ Top.todo # <<>> /\ Head1 = Top.todo[1]
        /\ Top.todo \in Seq(Step) /\ FrameOK(Top)
    BY <1>1, HeadFacts, TopFacts
  <2>2. 1 \in 1 .. Len(Top.todo)
    BY <2>1, EmptySeq
  <2>3. QED
    BY <1>1, <2>1, <2>2, ConstantsAssumption DEF FrameOK
<1>4. Shape'
  BY <1>1, <1>3 DEF IInv, Shape
<1>5. OptsBalanced' /\ DepthBalanced'
  BY <1>1 DEF IInv, OptsBalanced, DepthBalanced
<1>6. ErrorsContained'
  BY <1>1, <1>3 DEF ErrorsContained, Top
<1>7. QED
  BY <1>2, <1>4, <1>5, <1>6 DEF IInv

(* A frame whose next step is a record step is a record call in its place *)
LEMMA RecordHead ==
  ASSUME IInv, NEW op \in RecordOps, Next1(op)
  PROVE  /\ Top.by \in RecFormatters
         /\ op = "start" => ~Top.open /\ LoopLeft(Tail(Top.todo))
         /\ op # "start" => Top.open /\ LoopLeft(Top.todo)
         /\ op = "stop" => Len(Top.todo) = 1
<1>1. /\ Top.todo # <<>> /\ Top.todo[1].op = op /\ Top.todo \in Seq(Step)
      /\ FrameOK(Top) /\ Top \in Frame
  BY HeadFacts, TopFacts
<1>2. 1 \in 1 .. Len(Top.todo)
  BY <1>1, EmptySeq
<1>3. Top.by \in RecFormatters
  BY <1>1, <1>2 DEF FrameOK
<1>4. RecordOK(Top)
  BY <1>1, <1>3 DEF FrameOK
<1>5. CASE Top.open /\ LoopLeft(Top.todo)
  BY <1>1, <1>3, <1>5, LoopHead
<1>6. CASE ~Top.open /\ Top.todo[1].op = "start" /\ LoopLeft(Tail(Top.todo))
  BY <1>1, <1>3, <1>6
<1>7. CASE ~Top.open /\ Top.todo[1].op = "format"
  BY <1>1, <1>7 DEF RecordOps
<1>8. QED
  BY <1>1, <1>4, <1>5, <1>6, <1>7 DEF RecordOK

(* Showing a field keeps the invariant *)
LEMMA ShowFieldStep ==
  ASSUME IInv, ShowField
  PROVE  IInv'
<1> DEFINE step == Format(Head1.sub, "current")
           todo == <<step>> \o Tail(Top.todo)
           x == [Top EXCEPT !.todo = todo]
<1>1. /\ Next1("field")
      /\ num' = [num EXCEPT ![Top.by] = IF @ > 0 THEN @ - 1 ELSE @]
      /\ shown' = [shown EXCEPT ![Top.by] = @ + 1]
      /\ stack' = WithTodo(todo)
      /\ UNCHANGED <<heap, base, over, depth, exc, res, held, calls, lostPops, lostStops>>
  BY DEF ShowField
<1>2. /\ stack # <<>> /\ exc = "none" /\ Top.todo # <<>> /\ Top.todo[1].op = "field"
      /\ Top \in Frame /\ FrameOK(Top) /\ Top.todo \in Seq(Step)
      /\ Head1.sub \in Values \cup Faults \cup {NoValue}
      /\ Tail(Top.todo) \in Seq(Step)
  BY <1>1, HeadFacts, TopFacts DEF Step
<1>3. Top.by \in RecFormatters /\ Top.open /\ LoopLeft(Top.todo)
  BY <1>1, RecordHead DEF RecordOps
<1>4. step \in Step /\ step.op = "format"
  BY <1>2 DEF Format, Step, OptionMods
<1>5. LoopLeft(Tail(Top.todo))
  BY <1>2, <1>3, LoopTail
<1> HIDE DEF step
<1>6. /\ todo \in Seq(Step)
      /\ Len(todo) = Len(Tail(Top.todo)) + 1
      /\ todo[1] = step
      /\ \A i \in 2 .. Len(Tail(Top.todo)) + 1 : todo[i] = Tail(Top.todo)[i - 1]
  BY <1>2, <1>4
<1>7. LoopLeft(todo)
  <2> DEFINE tl == Tail(Top.todo)
  <2>1. Len(tl) \in Nat /\ Len(tl) >= 1
    BY <1>2, <1>5, EmptySeq DEF LoopLeft
  <2> HIDE DEF todo
  <2>2. todo # <<>>
    <3>1. Len(todo) >= 1
      BY <1>6, <2>1
    <3>2. QED
      BY <1>6, <3>1, NonEmpty, Zenon
  <2>3. Last(todo) = Last(tl)
    BY <1>6, <2>1 DEF Last
  <2>4. \A i \in 1 .. Len(todo) - 1 : todo[i].op \in {"field", "format"}
    <3> SUFFICES ASSUME NEW i \in 1 .. Len(todo) - 1 PROVE todo[i].op \in {"field", "format"}
      OBVIOUS
    <3>1. CASE i = 1
      BY <1>4, <1>6, <3>1
    <3>2. CASE i # 1
      <4>1. i - 1 \in 1 .. Len(tl) - 1 /\ todo[i] = tl[i - 1]
        BY <1>6, <2>1, <3>2
      <4>2. QED
        BY <1>5, <4>1 DEF LoopLeft
    <3>3. QED
      BY <3>1, <3>2
  <2>5. QED
    BY <1>5, <2>2, <2>3, <2>4 DEF LoopLeft
<1> HIDE DEF todo
<1>8. x.by = Top.by /\ x.open = Top.open /\ x.val = Top.val /\ x.todo = todo
  BY <1>2 DEF Frame
<1>9. FrameOK(x)
  BY <1>2, <1>3, <1>7, <1>8 DEF FrameOK, RecordOK, RecFormatters
<1>10. /\ FramesOK(stack')
       /\ Cardinality(PushedAt(stack')) = Cardinality(PushedAt(stack))
       /\ \A f : Cardinality(OpenAt(f, stack')) = Cardinality(OpenAt(f, stack))
  <2>1. /\ FramesOK(WithTodo(todo))
        /\ Cardinality(PushedAt(WithTodo(todo))) = Cardinality(PushedAt(stack))
        /\ \A f : Cardinality(OpenAt(f, WithTodo(todo))) = Cardinality(OpenAt(f, stack))
    BY <1>2, <1>6, <1>9, RewriteTop, Zenon
  <2>2. QED
    BY <1>1, <2>1
<1>11. /\ num' \in [RecFormatters -> 0 .. FieldBudget] /\ shown' \in [RecFormatters -> Nat]
       /\ calls' \in Nat /\ base' \in Options /\ res' \in Result /\ ResultOK(res')
  <2>1. /\ num \in [RecFormatters -> 0 .. FieldBudget] /\ shown \in [RecFormatters -> Nat]
        /\ calls' \in Nat /\ base' \in Options /\ res' \in Result /\ ResultOK(res')
    BY <1>1 DEF IInv, TypeOK, Shape
  <2>2. FieldBudget \in Nat
    BY ConstantsAssumption
  <2>3. num' \in [RecFormatters -> 0 .. FieldBudget]
    BY <1>1, <1>3, <2>1, <2>2
  <2>4. shown' \in [RecFormatters -> Nat]
    BY <1>1, <1>3, <2>1
  <2>5. QED
    BY <2>1, <2>3, <2>4
<1>12. QED
  BY <1>1, <1>2, <1>10, <1>11, SameCounts

(* Leaving the loop of fields keeps the invariant *)
LEMMA SkipFieldsStep ==
  ASSUME IInv, SkipFields
  PROVE  IInv'
<1> DEFINE x == [Top EXCEPT !.todo = AfterSkip]
<1>1. /\ Next1("field") /\ stack' = WithTodo(AfterSkip)
      /\ UNCHANGED <<heap, base, over, depth, num, exc, res, held, calls, lostPops, lostStops, shown>>
  BY DEF SkipFields
<1>2. stack # <<>> /\ exc = "none" /\ Top \in Frame /\ FrameOK(Top)
  BY <1>1, HeadFacts, TopFacts
<1>3. Top.by \in RecFormatters /\ Top.open
  BY <1>1, RecordHead DEF RecordOps
<1>4. AfterSkip \in Seq(Step) /\ LoopLeft(AfterSkip)
  <2>1. Do("stop") \in Step /\ Do("stop").op = "stop"
    BY DEF Do, Step, OptionMods
  <2> DEFINE d == Do("stop")
  <2> HIDE DEF d
  <2>2. <<d>> \in Seq(Step) /\ LoopLeft(<<d>>)
    BY <2>1 DEF LoopLeft, Last, d
  <2>3. QED
    BY <2>2 DEF AfterSkip, d
<1>5. x.by = Top.by /\ x.open = Top.open /\ x.val = Top.val /\ x.todo = AfterSkip
  BY <1>2 DEF Frame
<1>6. FrameOK(x)
  BY <1>2, <1>3, <1>4, <1>5 DEF FrameOK, RecordOK, RecFormatters
<1>7. /\ FramesOK(stack')
      /\ Cardinality(PushedAt(stack')) = Cardinality(PushedAt(stack))
      /\ \A f : Cardinality(OpenAt(f, stack')) = Cardinality(OpenAt(f, stack))
  <2>1. /\ FramesOK(WithTodo(AfterSkip))
        /\ Cardinality(PushedAt(WithTodo(AfterSkip))) = Cardinality(PushedAt(stack))
        /\ \A f : Cardinality(OpenAt(f, WithTodo(AfterSkip))) = Cardinality(OpenAt(f, stack))
    BY <1>2, <1>4, <1>6, RewriteTop, Zenon
  <2>2. QED
    BY <1>1, <2>1
<1>8. /\ num' \in [RecFormatters -> 0 .. FieldBudget] /\ shown' \in [RecFormatters -> Nat]
      /\ calls' \in Nat /\ base' \in Options /\ res' \in Result /\ ResultOK(res')
  BY <1>1 DEF IInv, TypeOK, Shape
<1>9. QED
  BY <1>1, <1>2, <1>7, <1>8, SameCounts

(* Steps that are not a record's, followed by more of them *)
LEMMA ConcatSteps ==
  ASSUME NEW a \in Seq(Step), NEW b \in Seq(Step),
         \A i \in 1 .. Len(a) : a[i].op \notin RecordOps,
         \A i \in 1 .. Len(b) : b[i].op \notin RecordOps
  PROVE  a \o b \in Seq(Step) /\ \A i \in 1 .. Len(a \o b) : (a \o b)[i].op \notin RecordOps
<1>1. a \o b \in Seq(Step) /\ Len(a \o b) = Len(a) + Len(b)
  OBVIOUS
<1>2. ASSUME NEW i \in 1 .. Len(a) + Len(b)
      PROVE  (a \o b)[i].op \notin RecordOps
  <2>1. CASE i <= Len(a)
    <3>1. i \in 1 .. Len(a) /\ (a \o b)[i] = a[i]
      BY <2>1
    <3>2. QED
      BY <3>1
  <2>2. CASE ~(i <= Len(a))
    <3>1. i - Len(a) \in 1 .. Len(b) /\ (a \o b)[i] = b[i - Len(a)]
      BY <2>2
    <3>2. QED
      BY <3>1
  <2>3. QED
    BY <2>1, <2>2
<1>3. QED
  BY <1>1, <1>2

(* Building the list of childs keeps the invariant *)
LEMMA ListChildsStep ==
  ASSUME IInv, ListChilds
  PROVE  IInv'
<1> DEFINE tl == Tail(Top.todo)
           subs == heap[res.of].subs
           todo == IF res.childs = "none" THEN tl ELSE Sub(res.childs, subs) \o tl
           x == [Top EXCEPT !.todo = todo]
<1>1. /\ Next1("childs") /\ stack' = WithTodo(todo)
      /\ UNCHANGED <<heap, base, over, depth, num, exc, res, held, calls, lostPops, lostStops, shown>>
  BY DEF ListChilds
<1>2. /\ stack # <<>> /\ exc = "none" /\ Top.todo # <<>> /\ Top.todo[1].op = "childs"
      /\ Top \in Frame /\ FrameOK(Top) /\ Top.todo \in Seq(Step) /\ tl \in Seq(Step)
  BY <1>1, HeadFacts, TopFacts
<1>3. [Top EXCEPT !.todo = tl] \in Frame /\ FrameOK([Top EXCEPT !.todo = tl])
  BY <1>2, TailOK DEF RecordOps
<1>4. Top.by \notin RecFormatters \cup {"client"}
  <2>1. 1 \in 1 .. Len(Top.todo)
    BY <1>2, EmptySeq
  <2>2. Top.by # "client"
    BY <1>2, <2>1 DEF FrameOK
  <2>3. CASE Top.by \in RecFormatters
    <3>1. RecordOK(Top)
      BY <1>2, <2>3 DEF FrameOK
    <3>2. QED
      BY <1>2, <3>1, LoopHead DEF RecordOK
  <2>4. QED
    BY <2>2, <2>3
<1>5. /\ ~Top.open
      /\ Top.by \in Formatters => Top.val \in Values
      /\ \A i \in 1 .. Len(tl) : tl[i].op \notin RecordOps
  <2> DEFINE y == [Top EXCEPT !.todo = tl]
  <2>1. y.by = Top.by /\ y.open = Top.open /\ y.val = Top.val /\ y.todo = tl
    BY <1>2 DEF Frame
  <2>2. FrameOK(y)
    BY <1>3
  <2> HIDE DEF y
  <2>3. QED
    BY <1>4, <2>1, <2>2 DEF FrameOK
<1>6. CASE res.childs = "none"
  <2>1. todo = tl
    BY <1>6
  <2>2. QED
    <3>1. /\ FramesOK(stack')
          /\ Cardinality(PushedAt(stack')) = Cardinality(PushedAt(stack))
          /\ \A f : Cardinality(OpenAt(f, stack')) = Cardinality(OpenAt(f, stack))
      BY <1>1, <2>1, Advance
    <3>2. /\ num' \in [RecFormatters -> 0 .. FieldBudget] /\ shown' \in [RecFormatters -> Nat]
          /\ calls' \in Nat /\ base' \in Options /\ res' \in Result /\ ResultOK(res')
      BY <1>1 DEF IInv, TypeOK, Shape
    <3>3. QED
      BY <1>1, <1>2, <3>1, <3>2, SameCounts
<1>7. CASE res.childs # "none"
  <2> DEFINE new == Sub(res.childs, subs)
  <2>1. res.childs \in {"fields", "elements"} /\ res.of \in Values
    BY <1>7 DEF IInv, TypeOK, Result, Shape, ResultOK
  <2>2. subs \in Seq(Values \cup Faults)
    BY <2>1 DEF IInv, TypeOK, Desc
  <2>3. new \in Seq(Step) /\ Len(new) = Len(subs)
        /\ \A i \in 1 .. Len(subs) : new[i].op = res.childs
    BY <2>1, <2>2, SubSteps
  <2>4. \A i \in 1 .. Len(new) : new[i].op \notin RecordOps
    BY <2>1, <2>3 DEF RecordOps
  <2>5. todo = new \o tl
    BY <1>7
  <2> HIDE DEF new, tl
  <2>6. new \o tl \in Seq(Step) /\ \A i \in 1 .. Len(new \o tl) : (new \o tl)[i].op \notin RecordOps
    <3>1. tl \in Seq(Step)
      BY <1>2
    <3>2. QED
      BY <1>5, <2>3, <2>4, <3>1, ConcatSteps
  <2>7. todo \in Seq(Step) /\ \A i \in 1 .. Len(todo) : todo[i].op \notin RecordOps
    BY <2>5, <2>6
  <2> HIDE DEF todo
  <2>8. x.by = Top.by /\ x.open = Top.open /\ x.val = Top.val /\ x.todo = todo
    BY <1>2 DEF Frame
  <2>9. FrameOK(x)
    BY <1>4, <1>5, <2>7, <2>8 DEF FrameOK
  <2>10. /\ FramesOK(stack')
         /\ Cardinality(PushedAt(stack')) = Cardinality(PushedAt(stack))
         /\ \A f : Cardinality(OpenAt(f, stack')) = Cardinality(OpenAt(f, stack))
    <3>1. /\ FramesOK(WithTodo(todo))
          /\ Cardinality(PushedAt(WithTodo(todo))) = Cardinality(PushedAt(stack))
          /\ \A f : Cardinality(OpenAt(f, WithTodo(todo))) = Cardinality(OpenAt(f, stack))
      BY <1>2, <2>7, <2>9, RewriteTop, Zenon
    <3>2. QED
      BY <1>1, <3>1
  <2>11. /\ num' \in [RecFormatters -> 0 .. FieldBudget] /\ shown' \in [RecFormatters -> Nat]
         /\ calls' \in Nat /\ base' \in Options /\ res' \in Result /\ ResultOK(res')
    BY <1>1 DEF IInv, TypeOK, Shape
  <2>12. QED
    BY <1>1, <1>2, <2>10, <2>11, SameCounts
<1>8. QED
  BY <1>6, <1>7

(* The frame of a client call is well formed *)
LEMMA RootOK ==
  ASSUME NEW kind \in Roots, NEW sub \in Values \cup Faults \cup {NoValue},
         NEW op \in {"format", "raw"}, NEW m \in OptionMods,
         kind = "client" => op = "format" /\ sub \in Values
  PROVE  LET x == Root(kind, <<[op |-> op, sub |-> sub, opts |-> m]>>)
         IN  x \in Frame /\ FrameOK(x) /\ ~x.open /\ ~x.pushed /\ x.by = kind
<1> DEFINE a == [op |-> op, sub |-> sub, opts |-> m]
           x == Root(kind, <<a>>)
<1>1. a \in Step /\ a.op = op /\ a.sub = sub
  BY DEF Step
<1> HIDE DEF a
<1>2. <<a>> \in Seq(Step) /\ \A i \in 1 .. Len(<<a>>) : <<a>>[i] = a
  BY <1>1
<1>3. x = [by |-> kind, val |-> NoValue, wrap |-> FALSE, pushed |-> FALSE,
           open |-> FALSE, todo |-> <<a>>]
  BY DEF Root
<1> HIDE DEF x
<1>4. x \in Frame
  <2>1. kind \in Formatters \cup Roots
    OBVIOUS
  <2>2. QED
    BY <1>2, <1>3, <2>1 DEF Frame
<1>5. FrameOK(x)
  BY <1>1, <1>2, <1>3 DEF FrameOK, Roots, RecFormatters, Formatters, CustomFormatters, RecordOps
<1>6. x.open = FALSE /\ x.pushed = FALSE /\ x.by = kind
  BY <1>3
<1>7. QED
  BY <1>4, <1>5, <1>6, Zenon DEF a, x

(* Formatting an expanded child keeps the invariant *)
LEMMA AskChildStep ==
  ASSUME IInv, NEW kind \in {"fields", "elements"}, AskChild(kind)
  PROVE  IInv'
<1> DEFINE s == WithTodo(Tail(Top.todo))
           x == Root(kind, <<Format(Head1.sub, "current")>>)
<1>1. /\ Next1(kind) /\ stack' = Pushed(s, x)
      /\ UNCHANGED <<heap, base, over, depth, num, exc, res, held, calls, lostPops, lostStops, shown>>
  BY DEF AskChild, Pushed
<1>2. exc = "none" /\ Head1.sub \in Values \cup Faults \cup {NoValue}
  BY <1>1, HeadFacts DEF Step
<1>3. x \in Frame /\ FrameOK(x) /\ ~x.open /\ ~x.pushed
  <2>1. kind \in Roots /\ "format" \in {"format", "raw"} /\ "current" \in OptionMods
        /\ (kind = "client" => "format" = "format" /\ Head1.sub \in Values)
    BY DEF Roots, OptionMods
  <2>2. x = Root(kind, <<[op |-> "format", sub |-> Head1.sub, opts |-> "current"]>>)
    BY DEF Format
  <2> HIDE DEF x
  <2>3. QED
    BY <1>2, <2>1, <2>2, RootOK
<1>4. /\ FramesOK(s)
      /\ Cardinality(PushedAt(s)) = Cardinality(PushedAt(stack))
      /\ \A f : Cardinality(OpenAt(f, s)) = Cardinality(OpenAt(f, stack))
  BY <1>1, Advance
<1> HIDE DEF s, x
<1>5. /\ FramesOK(stack')
      /\ Cardinality(PushedAt(stack')) = Cardinality(PushedAt(stack))
  <2>1. /\ FramesOK(stack')
        /\ Cardinality(PushedAt(stack')) = Cardinality(PushedAt(s)) + IF x.pushed THEN 1 ELSE 0
    BY <1>1, <1>3, <1>4, StackPush
  <2>2. Cardinality(PushedAt(s)) \in Nat
    BY <1>4, PushedIsNat DEF FramesOK
  <2>3. QED
    BY <1>3, <1>4, <2>1, <2>2
<1>6. \A f : Cardinality(OpenAt(f, stack')) = Cardinality(OpenAt(f, stack))
  BY <1>1, <1>3, <1>4, StackPushOpen
<1>7. /\ num' \in [RecFormatters -> 0 .. FieldBudget] /\ shown' \in [RecFormatters -> Nat]
      /\ calls' \in Nat /\ base' \in Options /\ res' \in Result /\ ResultOK(res')
  BY <1>1 DEF IInv, TypeOK, Shape
<1>8. QED
  BY <1>1, <1>2, <1>5, <1>6, <1>7, SameCounts
-----------------------------------------------------------------------------
(* Starting and stopping a record *)

(* A frame whose next step is a field or a stop has opened its record *)
LEMMA OpenTop ==
  ASSUME IInv, stack # <<>>, NEW f
  PROVE  /\ Last(stack) \in OpenFrames(f) <=> Top.by = f /\ Top.open
         /\ Top.by = f /\ Top.open => OpenAt(f, stack) # {} /\ Cardinality(OpenAt(f, stack)) >= 1
<1>1. Top = Last(stack) /\ Top \in Frame /\ stack \in Seq(Frame)
  BY TopFacts DEF FramesOK
<1>2. Last(stack) \in OpenFrames(f) <=> Top.by = f /\ Top.open
  BY <1>1 DEF OpenFrames
<1>3. ASSUME Top.by = f, Top.open
      PROVE  OpenAt(f, stack) # {} /\ Cardinality(OpenAt(f, stack)) >= 1
  <2>1. Len(stack) \in Nat /\ Len(stack) >= 1
    BY <1>1, EmptySeq
  <2>2. Len(stack) \in OpenAt(f, stack)
    BY <1>3, <2>1 DEF OpenAt, Top
  <2>3. IsFiniteSet(OpenAt(f, stack)) /\ Cardinality(OpenAt(f, stack)) \in Nat
    BY <1>1, AtFinite, OpenAtDef
  <2>4. Cardinality(OpenAt(f, stack)) # 0
    BY <2>2, <2>3, FS_EmptySet
  <2>5. QED
    BY <2>2, <2>3, <2>4
<1>4. QED
  BY <1>2, <1>3

(* Opening a record keeps the invariant *)
LEMMA StartRecordStep ==
  ASSUME IInv, StartRecord
  PROVE  IInv'
<1> DEFINE f == Top.by
           x == [Top EXCEPT !.open = TRUE, !.todo = Tail(Top.todo)]
<1>1. /\ Next1("start")
      /\ num' = IF NeedsRefill(f) THEN [num EXCEPT ![f] = FieldBudget] ELSE num
      /\ shown' = IF OpenAt(f, stack) = {} THEN [shown EXCEPT ![f] = 0] ELSE shown
      /\ depth' = [depth EXCEPT ![f] = @ + 1]
      /\ stack' = Append(Rest, x)
      /\ UNCHANGED <<heap, base, over, exc, res, held, calls, lostPops, lostStops>>
  BY DEF StartRecord, Deeper
<1>2. /\ stack # <<>> /\ exc = "none" /\ Top \in Frame /\ FrameOK(Top)
      /\ Tail(Top.todo) \in Seq(Step) /\ Top = Last(stack) /\ Rest = Front(stack)
      /\ FramesOK(stack)
  BY <1>1, HeadFacts, TopFacts
<1>3. f \in RecFormatters /\ ~Top.open /\ LoopLeft(Tail(Top.todo))
  BY <1>1, RecordHead DEF RecordOps
<1>4. /\ x \in Frame /\ x.by = f /\ x.open = TRUE /\ x.val = Top.val
      /\ x.todo = Tail(Top.todo) /\ x.pushed = Top.pushed
  BY <1>2 DEF Frame
<1>5. FrameOK(x)
  BY <1>2, <1>3, <1>4 DEF FrameOK, RecordOK, RecFormatters
<1> HIDE DEF x
<1>6. stack' = Replaced(stack, x)
  BY <1>1, <1>2 DEF Replaced
<1>7. /\ FramesOK(stack') /\ stack' # <<>>
      /\ Cardinality(PushedAt(stack')) = Cardinality(PushedAt(stack))
  BY <1>2, <1>4, <1>5, <1>6, StackReplace
<1>8. DepthBalanced'
  <2>1. ASSUME NEW g \in RecFormatters
        PROVE  depth'[g] = Cardinality(OpenAt(g, stack')) + lostStops'[g]
    <3>1. /\ depth[g] = Cardinality(OpenAt(g, stack)) + lostStops[g]
          /\ depth \in [RecFormatters -> Nat] /\ lostStops[g] \in Nat
          /\ lostStops' = lostStops
      BY <1>1 DEF IInv, DepthBalanced, TypeOK
    <3>2. Last(stack) \notin OpenFrames(g)
      BY <1>2, <1>3, OpenTop
    <3>3. x \in OpenFrames(g) <=> g = f
      BY <1>4 DEF OpenFrames
    <3>4. stack \in Seq(Frame) /\ Cardinality(OpenAt(g, stack)) \in Nat
      BY <1>2, OpenIsNat DEF FramesOK
    <3>5. CASE g = f
      <4>1. Cardinality(OpenAt(g, stack')) = Cardinality(OpenAt(g, stack)) + 1
        BY <1>2, <1>4, <1>6, <3>2, <3>3, <3>5, StackReplaceOpen
      <4>2. depth'[g] = depth[g] + 1
        BY <1>1, <3>1, <3>5
      <4>3. QED
        BY <3>1, <3>4, <4>1, <4>2
    <3>6. CASE g # f
      <4>1. Cardinality(OpenAt(g, stack')) = Cardinality(OpenAt(g, stack))
        BY <1>2, <1>4, <1>6, <3>2, <3>3, <3>6, StackReplaceOpen
      <4>2. depth'[g] = depth[g]
        BY <1>1, <3>1, <3>6
      <4>3. QED
        BY <3>1, <4>1, <4>2
    <3>7. QED
      BY <3>5, <3>6
  <2>2. QED
    BY <2>1 DEF DepthBalanced
<1>9. TypeOK'
  <2>1. FieldBudget \in Nat
    BY ConstantsAssumption
  <2>2. num' \in [RecFormatters -> 0 .. FieldBudget]
    BY <1>1, <1>3, <2>1 DEF IInv, TypeOK
  <2>3. shown' \in [RecFormatters -> Nat] /\ depth' \in [RecFormatters -> Nat]
    BY SMTT(30), <1>1, <1>3 DEF IInv, TypeOK
  <2>4. QED
    BY <1>1, <1>7, <2>2, <2>3 DEF IInv, TypeOK, FramesOK
<1>10. Shape'
  BY <1>1, <1>7 DEF IInv, Shape
<1>11. OptsBalanced' /\ ErrorsContained'
  BY <1>1, <1>2, <1>7 DEF IInv, OptsBalanced, ErrorsContained, FormatError
<1>12. QED
  BY <1>8, <1>9, <1>10, <1>11 DEF IInv

(* Closing a record keeps the invariant *)
LEMMA StopRecordStep ==
  ASSUME IInv, StopRecord
  PROVE  IInv'
<1> DEFINE f == Top.by
           x == [Top EXCEPT !.open = FALSE, !.todo = Tail(Top.todo)]
<1>1. /\ Next1("stop")
      /\ depth' = [depth EXCEPT ![f] = @ - 1]
      /\ stack' = Append(Rest, x)
      /\ UNCHANGED <<heap, base, over, num, exc, res, held, calls, lostPops, lostStops, shown>>
  BY DEF StopRecord
<1>2. /\ stack # <<>> /\ exc = "none" /\ Top \in Frame /\ FrameOK(Top)
      /\ Tail(Top.todo) \in Seq(Step) /\ Top = Last(stack) /\ Rest = Front(stack)
      /\ FramesOK(stack) /\ Top.todo \in Seq(Step)
  BY <1>1, HeadFacts, TopFacts
<1>3. f \in RecFormatters /\ Top.open /\ Tail(Top.todo) = <<>>
  <2>1. f \in RecFormatters /\ Top.open /\ Len(Top.todo) = 1
    BY <1>1, RecordHead DEF RecordOps
  <2>2. Tail(Top.todo) = <<>>
    BY <1>2, <2>1, TailOfOne
  <2>3. QED
    BY <2>1, <2>2
<1>4. /\ x \in Frame /\ x.by = f /\ x.open = FALSE /\ x.val = Top.val
      /\ x.todo = <<>> /\ x.pushed = Top.pushed
  BY <1>2, <1>3 DEF Frame
<1>5. FrameOK(x)
  BY <1>2, <1>3, <1>4 DEF FrameOK, RecordOK, RecFormatters
<1> HIDE DEF x
<1>6. stack' = Replaced(stack, x)
  BY <1>1, <1>2 DEF Replaced
<1>7. /\ FramesOK(stack') /\ stack' # <<>>
      /\ Cardinality(PushedAt(stack')) = Cardinality(PushedAt(stack))
  BY <1>2, <1>4, <1>5, <1>6, StackReplace
<1>8. /\ DepthBalanced'
      /\ depth' \in [RecFormatters -> Nat]
  <2>1. ASSUME NEW g \in RecFormatters
        PROVE  /\ depth'[g] = Cardinality(OpenAt(g, stack')) + lostStops'[g]
               /\ depth'[g] \in Nat
    <3>1. /\ depth[g] = Cardinality(OpenAt(g, stack)) + lostStops[g]
          /\ depth \in [RecFormatters -> Nat] /\ lostStops[g] \in Nat
          /\ lostStops' = lostStops
      BY <1>1 DEF IInv, DepthBalanced, TypeOK
    <3>2. Last(stack) \in OpenFrames(g) <=> g = f
      BY <1>2, <1>3, OpenTop
    <3>3. x \notin OpenFrames(g)
      BY <1>4 DEF OpenFrames
    <3>4. stack \in Seq(Frame) /\ Cardinality(OpenAt(g, stack)) \in Nat
      BY <1>2, OpenIsNat DEF FramesOK
    <3>5. CASE g = f
      <4>1. Cardinality(OpenAt(g, stack')) = Cardinality(OpenAt(g, stack)) - 1
        BY <1>2, <1>4, <1>6, <3>2, <3>3, <3>5, StackReplaceOpen
      <4>2. depth'[g] = depth[g] - 1
        BY <1>1, <3>1, <3>5
      <4>3. Cardinality(OpenAt(g, stack)) >= 1
        BY <1>2, <1>3, <3>5, OpenTop
      <4>4. QED
        BY <3>1, <3>4, <4>1, <4>2, <4>3
    <3>6. CASE g # f
      <4>1. Cardinality(OpenAt(g, stack')) = Cardinality(OpenAt(g, stack))
        BY <1>2, <1>4, <1>6, <3>2, <3>3, <3>6, StackReplaceOpen
      <4>2. depth'[g] = depth[g]
        BY <1>1, <3>1, <3>6
      <4>3. QED
        BY <3>1, <4>1, <4>2
    <3>7. QED
      BY <3>5, <3>6
  <2>2. DepthBalanced'
    BY <2>1 DEF DepthBalanced
  <2>3. depth \in [RecFormatters -> Nat]
    BY DEF IInv, TypeOK
  <2>4. depth[f] - 1 \in Nat
    BY <1>1, <1>3, <2>1, <2>3
  <2>5. QED
    BY <1>1, <2>2, <2>3, <2>4
<1>9. TypeOK'
  BY <1>1, <1>7, <1>8 DEF IInv, TypeOK, FramesOK
<1>10. Shape'
  BY <1>1, <1>7 DEF IInv, Shape
<1>11. OptsBalanced' /\ ErrorsContained'
  BY <1>1, <1>2, <1>7 DEF IInv, OptsBalanced, ErrorsContained, FormatError
<1>12. QED
  BY <1>8, <1>9, <1>10, <1>11 DEF IInv

-----------------------------------------------------------------------------
(* Leaving a call *)

(* Leaving a call pops exactly the options it pushed *)
LEMMA PopOptsFacts ==
  ASSUME IInv, stack # <<>>
  PROVE  /\ PopOpts(Top) \in Seq(Options)
         /\ Len(PopOpts(Top)) = Len(over) - IF Top.pushed THEN 1 ELSE 0
<1>1. over \in Seq(Options) /\ Len(over) = Cardinality(PushedAt(stack)) + lostPops /\ lostPops \in Nat
  BY DEF IInv, TypeOK, OptsBalanced
<1>2. /\ Top = Last(stack) /\ Rest = Front(stack) /\ FramesOK(stack) /\ stack \in Seq(Frame)
      /\ Top \in Frame
  BY TopFacts DEF FramesOK
<1>3. CASE ~Top.pushed
  BY <1>1, <1>3 DEF PopOpts
<1>4. CASE Top.pushed
  <2>1. /\ Cardinality(PushedAt(Front(stack))) = Cardinality(PushedAt(stack)) - 1
        /\ FramesOK(Front(stack))
    <3>1. Last(stack).pushed
      BY <1>2, <1>4
    <3>2. QED
      BY <1>2, <3>1, StackPop
  <2>2. Cardinality(PushedAt(Front(stack))) \in Nat /\ Cardinality(PushedAt(stack)) \in Nat
    BY <1>2, <2>1, PushedIsNat DEF FramesOK
  <2>3. Len(over) >= 1
    BY <1>1, <2>1, <2>2
  <2>4. over # <<>>
    BY <1>1, <2>3, NonEmpty, Zenon
  <2>5. PopOpts(Top) = Front(over)
    BY <1>4 DEF PopOpts, Front
  <2>6. Front(over) \in Seq(Options) /\ Len(Front(over)) = Len(over) - 1
    BY <1>1, <2>4, FrontProperties
  <2>7. QED
    BY <1>4, <2>5, <2>6
<1>5. QED
  BY <1>3, <1>4

(* A frame that goes, cut short or not, leaves the depths accounted for *)
LEMMA DepthOfCut ==
  ASSUME IInv, stack # <<>>, stack' = Front(stack), CloseCut, depth' = depth
  PROVE  lostStops' \in [RecFormatters -> Nat] /\ DepthBalanced'
<1>1. /\ Top = Last(stack) /\ Top \in Frame /\ FrameOK(Top)
      /\ FramesOK(stack) /\ stack \in Seq(Frame)
  BY TopFacts DEF FramesOK
<1>2. lostStops \in [RecFormatters -> Nat] /\ depth' = depth
  BY DEF IInv, TypeOK
<1>3. Top.open => Top.by \in RecFormatters
  BY <1>1 DEF FrameOK
<1>4. lostStops' = IF Top.open THEN [lostStops EXCEPT ![Top.by] = @ + 1] ELSE lostStops
  BY DEF CloseCut
<1>5. lostStops' \in [RecFormatters -> Nat]
  BY <1>2, <1>3, <1>4
<1>6. ASSUME NEW g \in RecFormatters
      PROVE  depth'[g] = Cardinality(OpenAt(g, stack')) + lostStops'[g]
  <2>1. depth'[g] = Cardinality(OpenAt(g, stack)) + lostStops[g] /\ lostStops[g] \in Nat
    BY <1>2 DEF IInv, DepthBalanced
  <2>2. Cardinality(OpenAt(g, stack)) \in Nat
    BY <1>1, OpenIsNat
  <2>3. Cardinality(OpenAt(g, stack'))
          = Cardinality(OpenAt(g, stack)) - IF Last(stack) \in OpenFrames(g) THEN 1 ELSE 0
    BY <1>1, StackPopOpen
  <2>4. Last(stack) \in OpenFrames(g) <=> Top.by = g /\ Top.open
    BY OpenTop
  <2>5. CASE Top.by = g /\ Top.open
    <3>1. lostStops'[g] = lostStops[g] + 1
      BY <1>2, <1>4, <2>5
    <3>2. Cardinality(OpenAt(g, stack')) = Cardinality(OpenAt(g, stack)) - 1
      BY <2>3, <2>4, <2>5
    <3>3. QED
      BY <2>1, <2>2, <3>1, <3>2
  <2>6. CASE ~(Top.by = g /\ Top.open)
    <3>1. lostStops'[g] = lostStops[g]
      BY <1>2, <1>4, <2>6
    <3>2. Cardinality(OpenAt(g, stack')) = Cardinality(OpenAt(g, stack))
      BY <2>2, <2>3, <2>4, <2>6
    <3>3. QED
      BY <2>1, <3>1, <3>2
  <2>7. QED
    BY <2>5, <2>6
<1>7. QED
  BY <1>5, <1>6 DEF DepthBalanced

(* The call that ends normally, or with an exception caught in it *)
LEMMA LeaveStep ==
  ASSUME IInv, stack # <<>>, NEW r \in Result, ResultOK(r), Leave(r), CloseCut,
         exc' = "none", UNCHANGED <<heap, base, depth, num, calls, lostPops, shown>>
  PROVE  IInv'
<1>1. /\ stack' = Front(stack) /\ over' = PopOpts(Top) /\ res' = r
      /\ held' = held \/ held' = held \cup {r}
  BY TopFacts DEF Leave
<1>2. /\ Top = Last(stack) /\ Top \in Frame /\ FrameOK(Top)
      /\ FramesOK(stack) /\ stack \in Seq(Frame)
  BY TopFacts DEF FramesOK
<1>3. /\ FramesOK(stack')
      /\ Cardinality(PushedAt(stack'))
           = Cardinality(PushedAt(stack)) - IF Last(stack).pushed THEN 1 ELSE 0
  BY <1>1, <1>2, StackPop
<1>4. /\ lostStops' \in [RecFormatters -> Nat]
      /\ DepthBalanced'
  BY <1>1, DepthOfCut
<1>5. OptsBalanced' /\ over' \in Seq(Options)
  <2>1. /\ over' \in Seq(Options)
        /\ Len(over') = Len(over) - IF Top.pushed THEN 1 ELSE 0
    BY <1>1, PopOptsFacts
  <2>2. Len(over) = Cardinality(PushedAt(stack)) + lostPops /\ lostPops \in Nat /\ lostPops' = lostPops
    BY DEF IInv, TypeOK, OptsBalanced
  <2>3. Cardinality(PushedAt(stack)) \in Nat
    BY <1>2, PushedIsNat
  <2>4. CASE Top.pushed
    <3>1. Len(over') = Len(over) - 1 /\ Cardinality(PushedAt(stack')) = Cardinality(PushedAt(stack)) - 1
      BY <1>2, <1>3, <2>1, <2>4
    <3>2. QED
      BY <2>1, <2>2, <2>3, <3>1 DEF OptsBalanced
  <2>5. CASE ~Top.pushed
    <3>1. Len(over') = Len(over) /\ Cardinality(PushedAt(stack')) = Cardinality(PushedAt(stack))
      <4>1. Len(over) \in Nat
        BY DEF IInv, TypeOK
      <4>2. QED
        BY <1>2, <1>3, <2>1, <2>3, <2>5, <4>1
    <3>2. QED
      BY <2>1, <2>2, <3>1 DEF OptsBalanced
  <2>6. QED
    BY <2>4, <2>5
<1>6. TypeOK'
  BY <1>1, <1>3, <1>4, <1>5 DEF IInv, TypeOK, FramesOK
<1>7. Shape'
  BY <1>1, <1>3 DEF IInv, Shape
<1>8. ErrorsContained'
  BY DEF ErrorsContained, FormatError
<1>9. QED
  BY <1>4, <1>5, <1>6, <1>7, <1>8 DEF IInv

(* Returning a result keeps the invariant *)
LEMMA ReturnStep ==
  ASSUME IInv, Return
  PROVE  IInv'
<1>1. /\ stack # <<>> /\ exc = "none" /\ Top.todo = <<>> /\ Leave(Outcome(Top))
      /\ UNCHANGED <<heap, base, depth, num, exc, calls, lostPops, lostStops, shown>>
  BY DEF Return, Running
<1>2. Top \in Frame /\ FrameOK(Top)
  BY <1>1, TopFacts
<1>3. ~Top.open
  <2>1. ~LoopLeft(Top.todo)
    BY <1>1 DEF LoopLeft
  <2>2. QED
    BY <1>1, <1>2, <2>1 DEF FrameOK, RecordOK
<1>4. res \in Result /\ ResultOK(res) /\ heap \in [Values -> Desc]
  BY DEF IInv, TypeOK, Shape
<1>5. Outcome(Top) \in Result /\ ResultOK(Outcome(Top))
  <2>1. CASE Top.by \in Roots
    BY <1>4, <2>1 DEF Outcome
  <2>2. CASE Top.by \notin Roots
    <3>1. Top.by \in Formatters /\ Top.val \in Values /\ Top.wrap \in BOOLEAN
      BY <1>2, <2>2 DEF Frame, FrameOK
    <3> DEFINE c == ChildsOf(Top)
               w == IF Top.by \in {"conv", "pointer"} THEN res.of ELSE Top.val
               r == RawDataOf(Top)
               a == HasAddress(Top)
    <3>2. Outcome(Top) = [childs |-> c, of |-> w, raw |-> r, addr |-> a]
      BY <2>2 DEF Outcome
    <3>3. c \in {"none", "fields", "elements"} /\ (Top.by \in {"conv", "pointer"} => c = res.childs)
      BY <3>1, <1>4 DEF ChildsOf, Result, Formatters, CustomFormatters, RecFormatters
    <3>4. w \in Values \cup {NoValue} /\ (c # "none" => w \in Values)
      BY <3>1, <3>3, <1>4 DEF Result, ResultOK
    <3>5. r \in Values \cup {NoValue}
      BY <3>1, <1>4 DEF RawDataOf, Result
    <3>6. a \in BOOLEAN
      BY <3>1, <1>4 DEF HasAddress, Desc, Result
    <3> HIDE DEF c, w, r, a
    <3>7. QED
      BY <3>2, <3>3, <3>4, <3>5, <3>6 DEF Result, ResultOK
  <2>3. QED
    BY <2>1, <2>2
<1>6. CloseCut
  BY <1>1, <1>3 DEF CloseCut
<1>7. QED
  BY <1>1, <1>5, <1>6, LeaveStep

(* Turning a format_error into a result keeps the invariant *)
LEMMA CatchStep ==
  ASSUME IInv, Catch
  PROVE  IInv'
<1>1. /\ stack # <<>> /\ exc' = "none" /\ exc \in Catches(Top.by)
      /\ Leave(ErrorOutcome(Top)) /\ CloseCut
      /\ UNCHANGED <<heap, base, depth, num, calls, lostPops, shown>>
  BY DEF Catch
<1>2. Top \in Frame
  BY <1>1, TopFacts
<1>3. ErrorOutcome(Top) \in Result /\ ResultOK(ErrorOutcome(Top))
  <2> DEFINE w == IF Top.wrap THEN Top.val ELSE NoValue
  <2>1. ErrorOutcome(Top) = [NoResult EXCEPT !.raw = w]
    BY DEF ErrorOutcome
  <2>2. w \in Values \cup {NoValue}
    BY <1>2 DEF Frame
  <2> HIDE DEF w
  <2>3. QED
    BY <2>1, <2>2 DEF NoResult, Result, ResultOK
<1>4. QED
  BY <1>1, <1>3, LeaveStep

(* Unwinding a frame keeps the invariant *)
LEMMA UnwindStep ==
  ASSUME IInv, Unwind
  PROVE  IInv'
<1>1. /\ stack # <<>> /\ exc # "none" /\ exc \notin Catches(Top.by)
      /\ exc' = IF Rest = <<>> THEN "none" ELSE exc
      /\ lostPops' = IF Top.pushed THEN lostPops + 1 ELSE lostPops
      /\ CloseCut /\ stack' = Front(stack)
      /\ UNCHANGED <<heap, base, over, depth, num, res, held, calls, shown>>
  BY TopFacts DEF Unwind
<1>2. /\ Top = Last(stack) /\ Rest = Front(stack) /\ Top \in Frame /\ FrameOK(Top)
      /\ FramesOK(stack) /\ stack \in Seq(Frame)
  BY <1>1, TopFacts DEF FramesOK
<1>3. exc \in Faults
  BY <1>1 DEF IInv, TypeOK
<1>4. exc = Exception
  <2>1. Top.by \in Formatters \cup Roots
    BY <1>2 DEF Frame
  <2>2. Top.by = "client" => exc # FormatError
    BY DEF IInv, ErrorsContained
  <2>3. QED
    BY <1>1, <1>3, <2>1, <2>2 DEF Catches, Faults, Roots, Formatters, CustomFormatters
<1>5. /\ FramesOK(stack')
      /\ Cardinality(PushedAt(stack'))
           = Cardinality(PushedAt(stack)) - IF Last(stack).pushed THEN 1 ELSE 0
  BY <1>1, <1>2, StackPop
<1>6. /\ lostStops' \in [RecFormatters -> Nat]
      /\ DepthBalanced'
  BY <1>1, DepthOfCut
<1>7. OptsBalanced' /\ lostPops' \in Nat
  <2>1. Len(over) = Cardinality(PushedAt(stack)) + lostPops /\ lostPops \in Nat /\ over' = over
    BY <1>1 DEF IInv, TypeOK, OptsBalanced
  <2>2. Cardinality(PushedAt(stack)) \in Nat
    BY <1>2, PushedIsNat
  <2>3. CASE Top.pushed
    <3>1. Cardinality(PushedAt(stack')) = Cardinality(PushedAt(stack)) - 1 /\ lostPops' = lostPops + 1
      BY <1>1, <1>2, <1>5, <2>3
    <3>2. QED
      BY <2>1, <2>2, <3>1 DEF OptsBalanced
  <2>4. CASE ~Top.pushed
    <3>1. Cardinality(PushedAt(stack')) = Cardinality(PushedAt(stack)) /\ lostPops' = lostPops
      BY <1>1, <1>2, <1>5, <2>2, <2>4
    <3>2. QED
      BY <2>1, <2>2, <3>1 DEF OptsBalanced
  <2>5. QED
    BY <2>3, <2>4
<1>8. TypeOK'
  BY <1>1, <1>3, <1>5, <1>6, <1>7 DEF IInv, TypeOK, FramesOK
<1>9. Shape'
  BY <1>1, <1>2, <1>5 DEF IInv, Shape
<1>10. ErrorsContained'
  BY <1>1, <1>4 DEF ErrorsContained, FormatError, Exception
<1>11. QED
  BY <1>6, <1>7, <1>8, <1>9, <1>10 DEF IInv

-----------------------------------------------------------------------------
(* The client's steps *)

(* Entering the engine keeps the invariant *)
LEMMA EnterStep ==
  ASSUME IInv, NEW root \in Frame, FrameOK(root), ~root.open, ~root.pushed, Enter(root)
  PROVE  IInv'
<1>1. /\ stack = <<>> /\ calls' = calls + 1 /\ stack' = <<root>> /\ res' = NoResult
      /\ UNCHANGED <<heap, base, over, depth, num, exc, held, lostPops, lostStops, shown>>
  BY DEF Enter, Idle
<1>2. exc = "none"
  BY <1>1 DEF IInv, Shape
<1>3. FramesOK(stack) /\ stack' = Pushed(stack, root)
  BY <1>1 DEF IInv, Shape, Pushed
<1>4. /\ FramesOK(stack')
      /\ Cardinality(PushedAt(stack')) = Cardinality(PushedAt(stack))
  <2>1. /\ FramesOK(stack')
        /\ Cardinality(PushedAt(stack')) = Cardinality(PushedAt(stack)) + IF root.pushed THEN 1 ELSE 0
    BY <1>3, StackPush
  <2>2. Cardinality(PushedAt(stack)) \in Nat
    BY <1>3, PushedIsNat DEF FramesOK
  <2>3. QED
    BY <2>1, <2>2
<1>5. \A f : Cardinality(OpenAt(f, stack')) = Cardinality(OpenAt(f, stack))
  BY <1>3, StackPushOpen
<1>6. /\ num' \in [RecFormatters -> 0 .. FieldBudget] /\ shown' \in [RecFormatters -> Nat]
      /\ calls' \in Nat /\ base' \in Options
  BY <1>1 DEF IInv, TypeOK
<1>7. res' \in Result /\ ResultOK(res')
  BY <1>1, NoResultOK
<1>8. QED
  BY <1>1, <1>2, <1>4, <1>5, <1>6, <1>7, SameCounts

(* Formatting a value from the client keeps the invariant *)
LEMMA ClientFormatStep ==
  ASSUME IInv, NEW v \in Values, NEW m \in {"current", "noraw", "raw"}, ClientFormat(v, m)
  PROVE  IInv'
<1> DEFINE x == Root("client", <<Format(v, m)>>)
<1>1. x = Root("client", <<[op |-> "format", sub |-> v, opts |-> m]>>)
  BY DEF Format
<1>2. Enter(x)
  BY DEF ClientFormat
<1>3. "client" \in Roots /\ m \in OptionMods /\ v \in Values \cup Faults \cup {NoValue}
      /\ "format" \in {"format", "raw"}
  BY DEF Roots, OptionMods
<1> HIDE DEF x
<1>4. x \in Frame /\ FrameOK(x) /\ ~x.open /\ ~x.pushed
  BY <1>1, <1>3, RootOK
<1>5. QED
  BY <1>2, <1>4, EnterStep

(* Expanding a [Raw Data] child keeps the invariant *)
LEMMA ExpandRawDataStep ==
  ASSUME IInv, NEW r \in held, ExpandRawData(r)
  PROVE  IInv'
<1> DEFINE x == Root("fields", <<[op |-> "raw", sub |-> r.raw, opts |-> "current"]>>)
<1>1. Enter(x)
  BY DEF ExpandRawData
<1>2. r.raw \in Values \cup Faults \cup {NoValue}
  BY DEF IInv, TypeOK, Result
<1>3. "fields" \in Roots /\ "current" \in OptionMods /\ "raw" \in {"format", "raw"}
  BY DEF Roots, OptionMods
<1>4. x \in Frame /\ FrameOK(x) /\ ~x.open /\ ~x.pushed
  BY <1>2, <1>3, RootOK
<1> HIDE DEF x
<1>5. QED
  BY <1>1, <1>4, EnterStep

(* Expanding a child of a held result keeps the invariant *)
LEMMA ExpandChildStep ==
  ASSUME IInv, NEW r \in held, r.childs # "none", NEW i \in 1 .. Len(heap[r.of].subs),
         ExpandChild(r, i)
  PROVE  IInv'
<1> DEFINE sub == heap[r.of].subs[i]
           x == Root(r.childs, <<Format(sub, "current")>>)
<1>1. Enter(x)
  BY DEF ExpandChild
<1>2. r.childs \in {"fields", "elements"} /\ r.of \in Values
  BY DEF IInv, TypeOK, Result, Shape, ResultOK
<1>3. heap[r.of].subs \in Seq(Values \cup Faults)
  BY <1>2 DEF IInv, TypeOK, Desc
<1>4. sub \in Values \cup Faults \cup {NoValue}
  BY <1>3
<1> HIDE DEF sub
<1>5. x = Root(r.childs, <<[op |-> "format", sub |-> sub, opts |-> "current"]>>)
  BY DEF Format
<1> HIDE DEF x
<1>6. x \in Frame /\ FrameOK(x) /\ ~x.open /\ ~x.pushed
  <2>1. "current" \in OptionMods /\ "format" \in {"format", "raw"} /\ r.childs \in Roots
        /\ r.childs # "client"
    BY <1>2 DEF Roots, OptionMods
  <2>2. QED
    BY <1>4, <1>5, <2>1, RootOK
<1>7. QED
  BY <1>1, <1>6, EnterStep

(* Setting the options keeps the invariant *)
LEMMA SetFmtOptsStep ==
  ASSUME IInv, NEW o \in Options, SetFmtOpts(o)
  PROVE  IInv'
<1>1. /\ stack = <<>> /\ calls' = calls + 1 /\ base' = o
      /\ UNCHANGED <<heap, over, depth, num, stack, exc, res, held, lostPops, lostStops, shown>>
  BY DEF SetFmtOpts, Idle
<1>2. TypeOK'
  BY <1>1 DEF IInv, TypeOK
<1>3. Shape'
  BY <1>1 DEF IInv, Shape
<1>4. OptsBalanced' /\ DepthBalanced'
  BY <1>1 DEF IInv, OptsBalanced, DepthBalanced
<1>5. ErrorsContained'
  BY <1>1 DEF IInv, Shape, ErrorsContained, FormatError
<1>6. QED
  BY <1>2, <1>3, <1>4, <1>5 DEF IInv

(* Switching raw data on or off keeps the invariant *)
LEMMA SetShowRawDataStep ==
  ASSUME IInv, NEW b \in BOOLEAN, SetShowRawData(b)
  PROVE  IInv'
<1> DEFINE o == [FmtOpts EXCEPT !.raw = b]
<1>1. "current" \in OptionMods
  BY DEF OptionMods
<1>2. FmtOpts \in Options
  BY <1>1, OptsTypes
<1>3. o \in Options
  BY <1>2 DEF Options
<1>4. SetFmtOpts(o)
  BY DEF SetShowRawData
<1> HIDE DEF o
<1>5. QED
  BY <1>3, <1>4, SetFmtOptsStep
-----------------------------------------------------------------------------
(* The invariant *)

(* The invariant holds when the context is created *)
LEMMA InitIInv == Init => IInv
<1> SUFFICES ASSUME Init PROVE IInv
  OBVIOUS
<1>1. /\ heap \in Heaps /\ base = [raw |-> TRUE, functor |-> FALSE] /\ over = <<>>
      /\ depth = [f \in RecFormatters |-> 0] /\ num = [f \in RecFormatters |-> FieldBudget]
      /\ stack = <<>> /\ exc = "none" /\ res = NoResult /\ held = {} /\ calls = 0
      /\ lostPops = 0 /\ lostStops = [f \in RecFormatters |-> 0]
      /\ shown = [f \in RecFormatters |-> 0]
  BY DEF Init
<1>2. TypeOK
  BY <1>1, ConstantsAssumption, NoResultOK DEF TypeOK, Options
<1>3. Shape
  BY <1>1, NoResultOK DEF Shape, FramesOK
<1>4. PushedAt(stack) = {} /\ \A f : OpenAt(f, stack) = {}
  BY <1>1 DEF PushedAt, OpenAt
<1>5. Cardinality(PushedAt(stack)) = 0 /\ \A f : Cardinality(OpenAt(f, stack)) = 0
  BY <1>4, FS_EmptySet
<1>6. OptsBalanced
  <2>1. Len(over) = 0 /\ lostPops = 0
    BY <1>1
  <2>2. QED
    BY <1>5, <2>1 DEF OptsBalanced
<1>7. DepthBalanced
  <2>1. ASSUME NEW f \in RecFormatters
        PROVE  depth[f] = 0 /\ lostStops[f] = 0 /\ Cardinality(OpenAt(f, stack)) = 0
    BY <1>1, <1>5
  <2>2. QED
    BY <2>1 DEF DepthBalanced
<1>8. ErrorsContained
  BY <1>1 DEF ErrorsContained, FormatError
<1>9. QED
  BY <1>2, <1>3, <1>6, <1>7, <1>8 DEF IInv

(* Every step keeps the invariant *)
LEMMA NextIInv == IInv /\ [Next]_vars => IInv'
<1> SUFFICES ASSUME IInv, [Next]_vars PROVE IInv'
  OBVIOUS
<1>1. CASE UNCHANGED vars
  BY <1>1 DEF vars, IInv, TypeOK, Shape, OptsBalanced, DepthBalanced, ErrorsContained, Top
<1>2. ASSUME NEW op \in {"format", "raw"}, Call(op) PROVE IInv'
  BY <1>2, CallStep
<1>3. ASSUME NEW op \in {"format", "raw"}, CallUnformattable(op) PROVE IInv'
  BY <1>3, CallUnformattableStep
<1>4. CASE Throw
  BY <1>4, ThrowStep
<1>5. CASE StartRecord
  BY <1>5, StartRecordStep
<1>6. CASE ShowField
  BY <1>6, ShowFieldStep
<1>7. CASE SkipFields
  BY <1>7, SkipFieldsStep
<1>8. CASE StopRecord
  BY <1>8, StopRecordStep
<1>9. CASE ListChilds
  BY <1>9, ListChildsStep
<1>10. ASSUME NEW kind \in {"fields", "elements"}, AskChild(kind) PROVE IInv'
  BY <1>10, AskChildStep
<1>11. CASE Return
  BY <1>11, ReturnStep
<1>12. CASE Catch
  BY <1>12, CatchStep
<1>13. CASE Unwind
  BY <1>13, UnwindStep
<1>14. CASE Client
  <2>1. ASSUME NEW v \in Values, NEW m \in {"current", "noraw", "raw"}, ClientFormat(v, m)
        PROVE  IInv'
    BY <2>1, ClientFormatStep
  <2>2. ASSUME NEW r \in held, ExpandRawData(r) PROVE IInv'
    BY <2>2, ExpandRawDataStep
  <2>3. ASSUME NEW r \in held, r.childs # "none", NEW i \in 1 .. Len(heap[r.of].subs),
               ExpandChild(r, i)
        PROVE  IInv'
    BY <2>3, ExpandChildStep
  <2>4. ASSUME NEW o \in Options, SetFmtOpts(o) PROVE IInv'
    BY <2>4, SetFmtOptsStep
  <2>5. ASSUME NEW b \in BOOLEAN, SetShowRawData(b) PROVE IInv'
    BY <2>5, SetShowRawDataStep
  <2>6. QED
    BY <1>14, <2>1, <2>2, <2>3, <2>4, <2>5 DEF Client
<1>15. QED
  BY <1>1, <1>2, <1>3, <1>4, <1>5, <1>6, <1>7, <1>8, <1>9, <1>10, <1>11, <1>12, <1>13, <1>14
     DEF Next, Engine

(* The inductive invariant holds in every state *)
LEMMA Inductive == Spec => []IInv
BY InitIInv, NextIInv, PTL DEF Spec

-----------------------------------------------------------------------------
(* The budget: what was shown and what is left never exceed it             *)

Spent == \A f \in RecFormatters : shown[f] + num[f] <= FieldBudget

(* No field is shown when the context is created *)
LEMMA SpentInit == Init => Spent
<1> SUFFICES ASSUME Init PROVE Spent
  OBVIOUS
<1>1. ASSUME NEW f \in RecFormatters PROVE shown[f] = 0 /\ num[f] = FieldBudget
  BY DEF Init
<1>2. FieldBudget \in Nat
  BY ConstantsAssumption
<1>3. QED
  BY <1>1, <1>2 DEF Spent

(* Opening a record keeps what the budget has spent *)
LEMMA SpentStart ==
  ASSUME IInv, Spent, StartRecord
  PROVE  Spent'
<1> SUFFICES ASSUME NEW g \in RecFormatters
             PROVE  shown'[g] + num'[g] <= FieldBudget
  BY DEF Spent
<1> DEFINE f == Top.by
<1>1. /\ Next1("start")
      /\ num' = IF NeedsRefill(f) THEN [num EXCEPT ![f] = FieldBudget] ELSE num
      /\ shown' = IF OpenAt(f, stack) = {} THEN [shown EXCEPT ![f] = 0] ELSE shown
  BY DEF StartRecord
<1>2. /\ num \in [RecFormatters -> 0 .. FieldBudget] /\ shown \in [RecFormatters -> Nat]
      /\ FieldBudget \in Nat /\ shown[g] + num[g] <= FieldBudget
      /\ stack \in Seq(Frame) /\ depth \in [RecFormatters -> Nat]
  BY ConstantsAssumption DEF IInv, TypeOK, Spent
<1>3. f \in RecFormatters
  BY <1>1, RecordHead DEF RecordOps
<1>4. CASE g = f
  <2>1. NeedsRefill(f) => OpenAt(f, stack) = {}
    <3> SUFFICES ASSUME NeedsRefill(f) PROVE OpenAt(f, stack) = {}
      OBVIOUS
    <3>1. depth[f] = 0 /\ depth[f] = Cardinality(OpenAt(f, stack)) + lostStops[f]
      BY <1>3 DEF NeedsRefill, IInv, DepthBalanced
    <3>2. lostStops[f] \in Nat /\ Cardinality(OpenAt(f, stack)) \in Nat
      BY <1>2, <1>3, OpenIsNat DEF IInv, TypeOK
    <3>3. Cardinality(OpenAt(f, stack)) = 0
      BY <3>1, <3>2
    <3>4. IsFiniteSet(OpenAt(f, stack))
      BY <1>2, AtFinite, OpenAtDef
    <3>5. QED
      BY <3>3, <3>4, FS_EmptySet
  <2>2. CASE NeedsRefill(f)
    <3>1. num'[g] = FieldBudget /\ shown'[g] = 0
      BY <1>1, <1>2, <1>3, <1>4, <2>1, <2>2
    <3>2. QED
      BY <1>2, <3>1
  <2>3. CASE ~NeedsRefill(f)
    <3>1. num'[g] = num[g] /\ (shown'[g] = 0 \/ shown'[g] = shown[g])
      BY <1>1, <1>2, <1>3, <1>4, <2>3
    <3>2. num[g] \in 0 .. FieldBudget
      BY <1>2
    <3>3. QED
      BY <1>2, <3>1, <3>2
  <2>4. QED
    BY <2>2, <2>3
<1>5. CASE g # f
  <2>1. num'[g] = num[g] /\ shown'[g] = shown[g]
    BY <1>1, <1>2, <1>3, <1>5
  <2>2. QED
    BY <1>2, <2>1
<1>6. QED
  BY <1>4, <1>5

(* Showing a field spends one of the budget *)
LEMMA SpentShow ==
  ASSUME IInv, Spent, ShowField
  PROVE  Spent'
<1> SUFFICES ASSUME NEW g \in RecFormatters
             PROVE  shown'[g] + num'[g] <= FieldBudget
  BY DEF Spent
<1> DEFINE f == Top.by
<1>1. /\ Next1("field") /\ ~SkipNextFields(f)
      /\ num' = [num EXCEPT ![f] = IF @ > 0 THEN @ - 1 ELSE @]
      /\ shown' = [shown EXCEPT ![f] = @ + 1]
  BY DEF ShowField
<1>2. /\ num \in [RecFormatters -> 0 .. FieldBudget] /\ shown \in [RecFormatters -> Nat]
      /\ FieldBudget \in Nat /\ shown[g] + num[g] <= FieldBudget
      /\ stack \in Seq(Frame) /\ depth \in [RecFormatters -> Nat]
  BY ConstantsAssumption DEF IInv, TypeOK, Spent
<1>3. f \in RecFormatters /\ Top.open /\ stack # <<>>
  BY <1>1, RecordHead, HeadFacts DEF RecordOps
<1>4. depth[f] > 0
  <2>1. depth[f] = Cardinality(OpenAt(f, stack)) + lostStops[f] /\ lostStops[f] \in Nat
    BY <1>3 DEF IInv, DepthBalanced, TypeOK
  <2>2. Cardinality(OpenAt(f, stack)) \in Nat /\ Cardinality(OpenAt(f, stack)) >= 1
    BY <1>2, <1>3, OpenIsNat, OpenTop
  <2>3. QED
    BY <2>1, <2>2
<1>5. num[f] > 0
  BY <1>1, <1>2, <1>3, <1>4 DEF SkipNextFields
<1>6. CASE g = f
  <2>1. num'[g] = num[g] - 1 /\ shown'[g] = shown[g] + 1
    BY <1>1, <1>2, <1>3, <1>5, <1>6
  <2>2. num[g] \in 0 .. FieldBudget /\ shown[g] \in Nat
    BY <1>2
  <2>3. QED
    BY <1>2, <2>1, <2>2
<1>7. CASE g # f
  <2>1. num'[g] = num[g] /\ shown'[g] = shown[g]
    BY <1>1, <1>2, <1>3, <1>7
  <2>2. QED
    BY <1>2, <2>1
<1>8. QED
  BY <1>6, <1>7

(* Every step keeps the budget accounted for *)
LEMMA SpentNext == IInv /\ Spent /\ [Next]_vars => Spent'
<1> SUFFICES ASSUME IInv, Spent, [Next]_vars PROVE Spent'
  OBVIOUS
<1>1. CASE StartRecord
  BY <1>1, SpentStart
<1>2. CASE ShowField
  BY <1>2, SpentShow
<1>3. CASE UNCHANGED <<num, shown>>
  BY <1>3 DEF Spent
<1>4. [Next]_vars => StartRecord \/ ShowField \/ UNCHANGED <<num, shown>>
  BY DEF Next, Engine, Client, vars, Call, CallUnformattable, Throw, SkipFields, StopRecord,
         ListChilds, AskChild, Return, Catch, Unwind, ClientFormat, ExpandChild, ExpandRawData,
         Enter, SetFmtOpts, SetShowRawData
<1>5. QED
  BY <1>1, <1>2, <1>3, <1>4

-----------------------------------------------------------------------------
(* Every variable keeps its type, whatever the client calls and the        *)
(* debuggee throws; in particular stop_record_value_format never           *)
(* decrements rec_value_depth_ below zero.                                 *)
THEOREM TypeCorrect == Spec => []TypeOK
BY Inductive, PTL DEF IInv

(* The option stack of the context accounts for every running call of      *)
(* format(val, opts) and for every pop an exception skipped.               *)
THEOREM OptionsArePaired == Spec => []OptsBalanced
BY Inductive, PTL DEF IInv

(* rec_value_depth_ accounts for every record in progress and for every    *)
(* one that an exception cut short between its start and its stop.         *)
THEOREM DepthsArePaired == Spec => []DepthBalanced
BY Inductive, PTL DEF IInv

(* A format_error is handled inside the library: it never leaves the call  *)
(* the client made.                                                        *)
THEOREM FormatErrorsAreContained == Spec => []ErrorsContained
BY Inductive, PTL DEF IInv

(* No outermost record shows more fields than its formatter's budget,      *)
(* however records nest and whatever was thrown before.                    *)
THEOREM BudgetIsKept == Spec => []BudgetBound
<1>1. IInv /\ Spent => BudgetBound
  <2> SUFFICES ASSUME IInv, Spent, NEW f \in RecFormatters PROVE shown[f] <= FieldBudget
    BY DEF BudgetBound
  <2>1. /\ num[f] \in 0 .. FieldBudget /\ shown[f] \in Nat
        /\ FieldBudget \in Nat /\ shown[f] + num[f] <= FieldBudget
    BY ConstantsAssumption DEF IInv, TypeOK, Spent
  <2>2. QED
    BY <2>1
<1>2. QED
  BY <1>1, Inductive, SpentInit, SpentNext, PTL DEF Spec

-----------------------------------------------------------------------------
(* No raw data below a conversion.  From the frame that pushed the options *)
(* of a conversion on, every entry of the option stack that this frame or  *)
(* one above it pushed turns raw data off: an exception may leave more of  *)
(* these entries behind, never fewer.                                      *)

Hides(s, i) == i \in 2 .. Len(s) /\ s[i].pushed /\ s[i - 1].by \in {"conv", "bind"}

Below(s, i) == {j \in 1 .. i - 1 : s[j].pushed}

Covered(s, opts, lost) ==
    \A i \in 2 .. Len(s) : Hides(s, i) =>
        /\ \A j \in i .. Len(s) : ~s[j].wrap
        /\ \A k \in 1 .. Len(opts) :
              k > Cardinality(Below(s, i)) + lost => ~opts[k].raw

QuietSteps == {st \in Step : st.opts # "raw"}

(* Only the client's own call turns raw data on *)
Quiet(s) ==
    \A i \in 1 .. Len(s) :
        /\ i > 1 => s[i].by # "client"
        /\ s[i].by # "client" => s[i].todo \in Seq(QuietSteps)

HideInv == IInv /\ Quiet(stack) /\ Covered(stack, over, lostPops)

(* The frames below a frame that pushed options are finitely many *)
LEMMA BelowFinite ==
  ASSUME NEW s, NEW i \in Nat
  PROVE  IsFiniteSet(Below(s, i)) /\ Cardinality(Below(s, i)) \in Nat
<1>1. 1 \in Int /\ i - 1 \in Int
  OBVIOUS
<1>2. IsFiniteSet(1 .. i - 1)
  BY <1>1, FS_Interval
<1>3. Below(s, i) \subseteq 1 .. i - 1
  BY DEF Below
<1>4. QED
  BY <1>2, <1>3, FS_Subset, FS_CardinalityType

(* A frame that pushed options has fewer of them below it than the stack *)
LEMMA BelowGrows ==
  ASSUME NEW s, NEW n \in Nat, NEW i \in 1 .. n, s[i].pushed
  PROVE  Cardinality(Below(s, i)) < Cardinality(Below(s, n + 1))
<1>1. IsFiniteSet(Below(s, i)) /\ Cardinality(Below(s, i)) \in Nat
  BY BelowFinite
<1>2. IsFiniteSet(Below(s, n + 1)) /\ Cardinality(Below(s, n + 1)) \in Nat
  BY BelowFinite
<1>3. Below(s, i) \subseteq Below(s, n + 1) /\ i \in Below(s, n + 1) /\ i \notin Below(s, i)
  BY DEF Below
<1>4. QED
  BY <1>1, <1>2, <1>3, FS_Subset

(* Frames and entries that only go, or change what is left of them, stay   *)
(* covered.                                                                *)
LEMMA CoveredAlike ==
  ASSUME NEW s \in Seq(Frame), NEW t \in Seq(Frame), Len(t) <= Len(s),
         \A i \in 1 .. Len(t) : /\ t[i].by = s[i].by /\ t[i].wrap = s[i].wrap
                                /\ t[i].pushed = s[i].pushed,
         NEW o \in Seq(Options), NEW p \in Seq(Options), Len(p) <= Len(o),
         \A k \in 1 .. Len(p) : p[k] = o[k],
         NEW l \in Nat, NEW m \in Nat, l <= m,
         Covered(s, o, l)
  PROVE  Covered(t, p, m)
<1> SUFFICES ASSUME NEW i \in 2 .. Len(t), Hides(t, i)
             PROVE  /\ \A j \in i .. Len(t) : ~t[j].wrap
                    /\ \A k \in 1 .. Len(p) :
                          k > Cardinality(Below(t, i)) + m => ~p[k].raw
  BY DEF Covered
<1>0. Len(t) \in Nat /\ Len(s) \in Nat /\ Len(p) \in Nat /\ Len(o) \in Nat /\ i \in Nat
  OBVIOUS
<1>1. i \in 2 .. Len(s) /\ i \in 1 .. Len(t) /\ i - 1 \in 1 .. Len(t)
  BY <1>0
<1>2. Hides(s, i)
  BY <1>1 DEF Hides
<1>3. Below(t, i) = Below(s, i)
  <2>1. \A j \in 1 .. i - 1 : j \in 1 .. Len(t)
    BY <1>0
  <2>2. QED
    BY <2>1 DEF Below
<1>4. /\ \A j \in i .. Len(s) : ~s[j].wrap
      /\ \A k \in 1 .. Len(o) : k > Cardinality(Below(s, i)) + l => ~o[k].raw
  BY <1>1, <1>2 DEF Covered
<1>5. Cardinality(Below(s, i)) \in Nat
  BY <1>0, BelowFinite
<1>6. ASSUME NEW j \in i .. Len(t)
      PROVE  ~t[j].wrap
  <2>1. j \in i .. Len(s) /\ j \in 1 .. Len(t)
    BY <1>0, <1>1, <1>6
  <2>2. t[j].wrap = s[j].wrap /\ ~s[j].wrap
    BY <1>4, <2>1
  <2>3. QED
    BY <2>2
<1>7. ASSUME NEW k \in 1 .. Len(p), k > Cardinality(Below(s, i)) + m
      PROVE  ~p[k].raw
  <2>1. k \in 1 .. Len(o) /\ k > Cardinality(Below(s, i)) + l
    BY <1>0, <1>5, <1>7
  <2>2. QED
    BY <1>4, <2>1
<1>8. QED
  BY <1>3, <1>6, <1>7

(* The frame on top of a conversion covers itself and what it pushes *)
LEMMA CoveredPush ==
  ASSUME NEW s \in Seq(Frame), NEW x \in Frame, NEW t, t = Pushed(s, x),
         NEW o \in Seq(Options), NEW a \in Options, NEW p,
         p = (IF x.pushed THEN Append(o, a) ELSE o),
         NEW l \in Nat, Len(o) = Cardinality(Below(s, Len(s) + 1)) + l,
         Covered(s, o, l), x.wrap => a.raw,
         \A i \in 2 .. Len(s) : Hides(s, i) => ~a.raw,
         s # <<>> /\ s[Len(s)].by \in {"conv", "bind"} /\ x.pushed => ~a.raw
  PROVE  Covered(t, p, l)
<1> SUFFICES ASSUME NEW i \in 2 .. Len(t), Hides(t, i)
             PROVE  /\ \A j \in i .. Len(t) : ~t[j].wrap
                    /\ \A k \in 1 .. Len(p) :
                          k > Cardinality(Below(t, i)) + l => ~p[k].raw
  BY DEF Covered
<1>0. /\ t \in Seq(Frame) /\ t # <<>> /\ Len(t) = Len(s) + 1 /\ t[Len(s) + 1] = x
      /\ \A j \in 1 .. Len(s) : t[j] = s[j]
      /\ Len(s) \in Nat /\ Len(o) \in Nat /\ i \in Nat /\ i >= 2
  BY AppendLast DEF Pushed
<1>1. /\ p \in Seq(Options)
      /\ \A k \in 1 .. Len(o) : p[k] = o[k]
      /\ x.pushed => Len(p) = Len(o) + 1 /\ p[Len(o) + 1] = a
      /\ ~x.pushed => Len(p) = Len(o)
  OBVIOUS
<1>2. ~a.raw
  <2>1. CASE i \in 2 .. Len(s)
    <3>1. i \in 1 .. Len(s) /\ i - 1 \in 1 .. Len(s)
      BY <1>0, <2>1
    <3>2. t[i] = s[i] /\ t[i - 1] = s[i - 1]
      BY <1>0, <3>1
    <3>3. QED
      BY <2>1, <3>2 DEF Hides
  <2>2. CASE i = Len(s) + 1
    <3>1. i - 1 = Len(s) /\ Len(s) >= 1 /\ Len(s) \in 1 .. Len(s)
      BY <1>0, <2>2
    <3>2. s # <<>>
      BY <3>1
    <3>3. QED
      BY <1>0, <2>2, <3>1, <3>2 DEF Hides
  <2>3. QED
    BY <1>0, <2>1, <2>2
<1>3. Below(t, i) = Below(s, i)
  <2>1. \A j \in 1 .. i - 1 : j \in 1 .. Len(s)
    BY <1>0
  <2>2. QED
    BY <1>0, <2>1 DEF Below
<1>4. Cardinality(Below(s, i)) \in Nat
  BY <1>0, BelowFinite
<1>5. CASE i \in 2 .. Len(s)
  <2>1. Hides(s, i)
    <3>1. i \in 1 .. Len(s) /\ i - 1 \in 1 .. Len(s)
      BY <1>0, <1>5
    <3>2. t[i] = s[i] /\ t[i - 1] = s[i - 1]
      BY <1>0, <3>1
    <3>3. QED
      BY <1>5, <3>2 DEF Hides
  <2>2. /\ \A j \in i .. Len(s) : ~s[j].wrap
        /\ \A k \in 1 .. Len(o) : k > Cardinality(Below(s, i)) + l => ~o[k].raw
    BY <1>5, <2>1 DEF Covered
  <2>3. ASSUME NEW j \in i .. Len(t) PROVE ~t[j].wrap
    <3>1. (j \in i .. Len(s) /\ j \in 1 .. Len(s)) \/ j = Len(s) + 1
      BY <1>0, <2>3
    <3>2. QED
      BY <1>0, <1>2, <2>2, <3>1
  <2>4. ASSUME NEW k \in 1 .. Len(p), k > Cardinality(Below(s, i)) + l PROVE ~p[k].raw
    <3>1. k \in 1 .. Len(o) \/ (x.pushed /\ k = Len(o) + 1)
      <4>1. CASE x.pushed
        <5>1. Len(o) \in Nat /\ k \in 1 .. Len(o) + 1
          BY <1>0, <1>1, <2>4, <4>1
        <5>2. \A n \in Nat : \A q \in 1 .. n + 1 : q \in 1 .. n \/ q = n + 1
          OBVIOUS
        <5>3. QED
          BY <4>1, <5>1, <5>2, Zenon
      <4>2. CASE ~x.pushed
        <5>1. Len(p) = Len(o) /\ k \in 1 .. Len(p)
          BY <1>1, <2>4, <4>2, Zenon
        <5>2. QED
          BY <5>1, Zenon
      <4>3. QED
        BY <4>1, <4>2
    <3>2. QED
      BY <1>1, <1>2, <2>2, <2>4, <3>1
  <2>5. QED
    BY <1>3, <2>3, <2>4
<1>6. CASE i = Len(s) + 1
  <2>1. x.pushed
    BY <1>0, <1>6 DEF Hides
  <2>2. ASSUME NEW j \in i .. Len(t) PROVE ~t[j].wrap
    BY <1>0, <1>2, <1>6, <2>2
  <2>3. ASSUME NEW k \in 1 .. Len(p), k > Cardinality(Below(s, i)) + l PROVE ~p[k].raw
    <3>1. k = Len(o) + 1
      <4>1. k > Len(o) /\ k <= Len(o) + 1 /\ k \in Nat
        BY <1>0, <1>1, <1>4, <1>6, <2>1, <2>3
      <4>2. QED
        BY <1>0, <4>1
    <3>2. QED
      BY <1>1, <1>2, <2>1, <3>1
  <2>4. QED
    BY <1>3, <2>2, <2>3
<1>7. QED
  BY <1>0, <1>5, <1>6

(* The calls a formatter makes for its sub-values keep the options in force *)
LEMMA QuietSub ==
  ASSUME NEW op \in {"format", "field", "fields", "elements"},
         NEW subs \in Seq(Values \cup Faults)
  PROVE  Sub(op, subs) \in Seq(QuietSteps)
<1>1. \A i \in 1 .. Len(subs) :
        [op |-> op, sub |-> subs[i], opts |-> "current"] \in QuietSteps
  BY DEF QuietSteps, Step, OptionMods
<1>2. QED
  BY <1>1 DEF Sub

(* No formatter turns raw data on for what it formats *)
LEMMA QuietPlan ==
  ASSUME heap \in [Values -> Desc], NEW v \in Values, NEW f \in Formatters,
         NEW o, Accepts(f, v, o)
  PROVE  Plan(f, v) \in Seq(QuietSteps)
<1>1. heap[v].subs \in Seq(Values \cup Faults)
  BY DEF Desc
<1>2. RecordPlan(v) \in Seq(QuietSteps)
  <2> DEFINE a == Do("start")
             b == Do("stop")
             m == Sub("field", heap[v].subs)
  <2>1. a \in QuietSteps /\ b \in QuietSteps
    BY DEF Do, QuietSteps, Step, OptionMods
  <2>2. m \in Seq(QuietSteps)
    BY <1>1, QuietSub
  <2>3. RecordPlan(v) = <<a>> \o m \o <<b>>
    BY DEF RecordPlan
  <2> HIDE DEF a, b, m
  <2>4. QED
    BY <2>1, <2>2, <2>3
<1>3. CASE f = "record"
  BY <1>2, <1>3 DEF Plan, PointerPlan, TuplePlan, ConvPlan, BindPlan
<1>4. CASE f \in {"functor", "lambda"}
  <2> DEFINE callop == IF heap[v].callop = NoValue THEN FormatError ELSE heap[v].callop
             a == Format(callop, "current")
             m == RecordPlan(v)
  <2>1. callop \in Values \cup Faults
    BY DEF Desc, Faults
  <2>2. a \in QuietSteps
    BY <2>1 DEF Format, QuietSteps, Step, OptionMods
  <2>3. FunctorPlan(v) = <<a>> \o m /\ m \in Seq(QuietSteps)
    BY <1>2 DEF FunctorPlan
  <2>4. Plan(f, v) = FunctorPlan(v)
    BY <1>4 DEF Plan, PointerPlan, TuplePlan, ConvPlan, BindPlan
  <2> HIDE DEF a, m
  <2>5. QED
    BY <2>2, <2>3, <2>4
<1>5. CASE f \in {"simple", "pointer", "tuple"}
  BY <1>1, <1>5, QuietSub DEF Plan, PointerPlan, TuplePlan, ConvPlan, BindPlan
<1>6. CASE f = "container"
  BY <1>6 DEF Plan, PointerPlan, TuplePlan, ConvPlan, BindPlan
<1>7. CASE f = "conv"
  <2> DEFINE a == Format(heap[v].subs[1], "noraw")
  <2>1. heap[v].class = "conv"
    BY <1>7 DEF Accepts
  <2>2. heap[v].subs[1] \in Values \cup Faults
    BY <2>1 DEF Desc
  <2>3. a \in QuietSteps
    BY <2>2 DEF Format, QuietSteps, Step, OptionMods
  <2>4. Plan(f, v) = <<a>>
    BY <1>7 DEF Plan, PointerPlan, TuplePlan, ConvPlan, BindPlan
  <2> HIDE DEF a
  <2>5. QED
    BY <2>3, <2>4
<1>8. CASE f = "bind"
  <2> DEFINE a == Format(heap[v].subs[1], "functor")
             b == Format(heap[v].subs[2], "noraw")
             c == Do("childs")
  <2>1. heap[v].class = "bind"
    BY <1>8 DEF Accepts
  <2>2. heap[v].subs[1] \in Values \cup Faults /\ heap[v].subs[2] \in Values \cup Faults
    BY <2>1 DEF Desc
  <2>3. a \in QuietSteps /\ b \in QuietSteps /\ c \in QuietSteps
    BY <2>2 DEF Format, Do, QuietSteps, Step, OptionMods
  <2>4. Plan(f, v) = <<a, b, c>>
    BY <1>8 DEF Plan, PointerPlan, TuplePlan, ConvPlan, BindPlan
  <2> HIDE DEF a, b, c
  <2>5. QED
    BY <2>3, <2>4
<1>9. QED
  BY <1>3, <1>4, <1>5, <1>6, <1>7, <1>8 DEF Formatters, CustomFormatters

(* Below the place of the next frame lie all the frames *)
LEMMA BelowAll ==
  ASSUME NEW s \in Seq(Frame)
  PROVE  Below(s, Len(s) + 1) = PushedAt(s)
<1>1. Len(s) + 1 - 1 = Len(s)
  OBVIOUS
<1>2. QED
  BY <1>1 DEF Below, PushedAt

(* The running frame, when it is not the client's, never turns raw data on *)
LEMMA TopQuiet ==
  ASSUME IInv, Quiet(stack), stack # <<>>
  PROVE  /\ Len(stack) \in Nat /\ Len(stack) >= 1 /\ Top = stack[Len(stack)]
         /\ Len(stack) > 1 => Top.by # "client"
         /\ Top.by # "client" => Top.todo \in Seq(QuietSteps)
<1>1. Len(stack) \in Nat /\ Len(stack) >= 1
  BY EmptySeq DEF IInv, TypeOK
<1>2. Len(stack) \in 1 .. Len(stack)
  BY <1>1
<1>3. QED
  BY <1>1, <1>2 DEF Quiet, Top

(* Rewriting the running frame *)
LEMMA HideRewrite ==
  ASSUME HideInv, stack # <<>>, NEW y \in Frame, y.by = Top.by, y.pushed = Top.pushed,
         y.wrap = Top.wrap, y.by # "client" => y.todo \in Seq(QuietSteps),
         NEW t, t = Append(Rest, y)
  PROVE  t \in Seq(Frame) /\ Len(t) = Len(stack) /\ Quiet(t) /\ Covered(t, over, lostPops)
         /\ t[Len(t)] = y
<1>1. /\ stack \in Seq(Frame) /\ over \in Seq(Options) /\ lostPops \in Nat
      /\ Quiet(stack) /\ Covered(stack, over, lostPops) /\ IInv
  BY DEF HideInv, IInv, TypeOK
<1>2. /\ Len(stack) \in Nat /\ Len(stack) >= 1 /\ Top = stack[Len(stack)]
      /\ Len(stack) > 1 => Top.by # "client"
  BY <1>1, TopQuiet
<1>3. /\ t \in Seq(Frame) /\ Len(t) = Len(stack)
      /\ \A i \in 1 .. Len(stack) - 1 : t[i] = stack[i]
      /\ t[Len(stack)] = y
  <2>1. Rest = Front(stack)
    BY DEF Rest, Front
  <2>2. QED
    BY <1>1, <2>1, ReplaceLast
<1>4. \A i \in 1 .. Len(stack) : i \in 1 .. Len(stack) - 1 \/ i = Len(stack)
  BY <1>2
<1>5. Quiet(t)
  BY <1>1, <1>2, <1>3, <1>4 DEF Quiet
<1>6. \A i \in 1 .. Len(t) : /\ t[i].by = stack[i].by /\ t[i].wrap = stack[i].wrap
                             /\ t[i].pushed = stack[i].pushed
  BY <1>2, <1>3, <1>4
<1>7. Len(t) <= Len(stack) /\ Len(over) <= Len(over) /\ lostPops <= lostPops
      /\ \A k \in 1 .. Len(over) : over[k] = over[k]
  BY <1>1, <1>2, <1>3
<1>8. Covered(t, over, lostPops)
  BY <1>1, <1>3, <1>6, <1>7, CoveredAlike
<1>9. QED
  BY <1>3, <1>5, <1>8

(* Popping the running frame, with its entry of the option stack or not *)
LEMMA HidePop ==
  ASSUME HideInv, stack # <<>>, NEW p \in Seq(Options), Len(p) <= Len(over),
         \A k \in 1 .. Len(p) : p[k] = over[k], NEW m \in Nat, lostPops <= m
  PROVE  Quiet(Rest) /\ Covered(Rest, p, m)
<1>1. /\ stack \in Seq(Frame) /\ over \in Seq(Options) /\ lostPops \in Nat
      /\ Quiet(stack) /\ Covered(stack, over, lostPops) /\ IInv
  BY DEF HideInv, IInv, TypeOK
<1>2. Len(stack) \in Nat /\ Len(stack) >= 1
  BY <1>1, TopQuiet
<1>3. /\ Rest \in Seq(Frame) /\ Len(Rest) = Len(stack) - 1
      /\ \A i \in 1 .. Len(stack) - 1 : Rest[i] = stack[i]
  <2>1. Rest = Front(stack)
    BY DEF Rest, Front
  <2>2. QED
    BY <1>1, <2>1, FrontProperties
<1>4. \A i \in 1 .. Len(Rest) : i \in 1 .. Len(stack) /\ Rest[i] = stack[i]
  BY <1>2, <1>3
<1>5. Quiet(Rest)
  BY <1>1, <1>4 DEF Quiet
<1>6. Len(Rest) <= Len(stack)
  BY <1>2, <1>3
<1>7. \A i \in 1 .. Len(Rest) : /\ Rest[i].by = stack[i].by /\ Rest[i].wrap = stack[i].wrap
                                /\ Rest[i].pushed = stack[i].pushed
  BY <1>4
<1>8. QED
  BY <1>1, <1>3, <1>5, <1>6, <1>7, CoveredAlike

(* While a conversion is formatted, the options in force hide raw data *)
LEMMA HiddenOpts ==
  ASSUME HideInv, NEW i \in 2 .. Len(stack), Hides(stack, i)
  PROVE  ~FmtOpts.raw
<1>1. /\ stack \in Seq(Frame) /\ over \in Seq(Options) /\ lostPops \in Nat
      /\ Covered(stack, over, lostPops)
      /\ Len(over) = Cardinality(PushedAt(stack)) + lostPops
  BY DEF HideInv, IInv, TypeOK, OptsBalanced
<1>2. Len(stack) \in Nat /\ i \in 1 .. Len(stack) /\ i \in Nat /\ stack[i].pushed
  BY <1>1 DEF Hides
<1>3. Cardinality(Below(stack, i)) < Cardinality(PushedAt(stack))
  BY <1>1, <1>2, BelowGrows, BelowAll
<1>4. Cardinality(Below(stack, i)) \in Nat /\ Cardinality(PushedAt(stack)) \in Nat
  BY <1>1, <1>2, BelowFinite, PushedIsNat
<1>5. Len(over) > Cardinality(Below(stack, i)) + lostPops /\ Len(over) >= 1 /\ Len(over) \in Nat
  BY <1>1, <1>3, <1>4
<1>6. over # <<>> /\ Len(over) \in 1 .. Len(over)
  BY <1>1, <1>5
<1>7. ~over[Len(over)].raw
  BY <1>1, <1>5, <1>6 DEF Covered
<1>8. QED
  BY <1>6, <1>7 DEF FmtOpts

(* Calling a formatter keeps raw data hidden *)
LEMMA CallHides ==
  ASSUME HideInv, NEW op \in {"format", "raw"}, Call(op)
  PROVE  Quiet(stack') /\ Covered(stack', over', lostPops')
<1> DEFINE v == Head1.sub
           m == Head1.opts
           o == CallOpts
           f == Chosen(op, v, o)
           y == [Top EXCEPT !.todo = Tail(Top.todo)]
           s == WithTodo(Tail(Top.todo))
           x == FrameFor(f, v, op, m, o)
<1>1. /\ Next1(op) /\ v \in Values /\ f # "none"
      /\ stack' = Pushed(s, x)
      /\ over' = IF m = "current" THEN over ELSE Append(over, o)
      /\ lostPops' = lostPops
  BY DEF Call, Pushed
<1>2. /\ IInv /\ Quiet(stack) /\ Covered(stack, over, lostPops)
      /\ over \in Seq(Options) /\ lostPops \in Nat /\ heap \in [Values -> Desc]
      /\ stack \in Seq(Frame)
  BY DEF HideInv, IInv, TypeOK
<1>3. /\ stack # <<>> /\ Top.todo # <<>> /\ Head1 = Top.todo[1] /\ Top.todo[1].op \notin RecordOps
      /\ m \in OptionMods /\ Top \in Frame /\ FrameOK(Top) /\ Top.todo \in Seq(Step)
      /\ Tail(Top.todo) \in Seq(Step)
  BY <1>1, <1>2, HeadFacts, TopFacts DEF Step, RecordOps
<1>4. /\ Len(stack) \in Nat /\ Top = stack[Len(stack)]
      /\ Len(stack) > 1 => Top.by # "client"
      /\ Top.by # "client" => Top.todo \in Seq(QuietSteps)
  BY <1>2, <1>3, TopQuiet
<1>5. Top.by # "client" => m # "raw" /\ Tail(Top.todo) \in Seq(QuietSteps)
  BY <1>3, <1>4 DEF QuietSteps
<1>6. o \in Options /\ FmtOpts \in Options /\ o = With(FmtOpts, m)
  BY <1>2, <1>3, OptsTypes DEF CallOpts
<1>7. f \in Formatters /\ Accepts(f, v, o)
  BY <1>1, ChosenAccepts
<1>8. Plan(f, v) \in Seq(QuietSteps) /\ Plan(f, v) \in Seq(Step)
  BY <1>1, <1>2, <1>7, QuietPlan, PlanOK
<1> HIDE DEF f, v, m, o
<1>9. y \in Frame /\ y.by = Top.by /\ y.pushed = Top.pushed /\ y.wrap = Top.wrap
      /\ y.todo = Tail(Top.todo)
  BY <1>3 DEF Frame
<1>10. s = Append(Rest, y)
  BY DEF WithTodo
<1>11. x \in Frame /\ (x.pushed <=> m # "current") /\ (x.wrap => o.raw) /\ x.by = f
       /\ x.todo = Plan(f, v)
  <2>1. o.raw \in BOOLEAN
    BY <1>6 DEF Options
  <2> DEFINE w == op = "format" /\ f \in CustomFormatters /\ o.raw
             p == m # "current"
  <2>2. x = [by |-> f, val |-> v, wrap |-> w, pushed |-> p, open |-> FALSE, todo |-> Plan(f, v)]
    BY DEF FrameFor
  <2>3. w \in BOOLEAN /\ p \in BOOLEAN /\ (w => o.raw) /\ (p <=> m # "current")
    BY <2>1
  <2> HIDE DEF w, p, x
  <2>4. x \in Frame
    BY <1>1, <1>7, <1>8, <2>2, <2>3 DEF Frame
  <2>5. x.pushed = p /\ x.wrap = w /\ x.by = f /\ x.todo = Plan(f, v)
    BY <2>2
  <2>6. QED
    BY <2>3, <2>4, <2>5, Zenon
<1> HIDE DEF y, s, x
<1>12. /\ s \in Seq(Frame) /\ Len(s) = Len(stack) /\ Quiet(s) /\ Covered(s, over, lostPops)
       /\ s[Len(s)] = y
  BY <1>3, <1>5, <1>9, <1>10, HideRewrite
<1>13. Len(over) = Cardinality(Below(s, Len(s) + 1)) + lostPops
  <2>1. Cardinality(PushedAt(s)) = Cardinality(PushedAt(stack))
    BY <1>1, <1>2, Advance DEF s
  <2>2. Len(over) = Cardinality(PushedAt(stack)) + lostPops
    BY <1>2 DEF IInv, OptsBalanced
  <2>3. Below(s, Len(s) + 1) = PushedAt(s)
    BY <1>12, BelowAll
  <2>4. QED
    BY <2>1, <2>2, <2>3
<1>14. over' = IF x.pushed THEN Append(over, o) ELSE over
  BY <1>1, <1>11
<1>15. m # "raw" /\ (m # "current" \/ ~FmtOpts.raw) => ~o.raw
  BY <1>3, <1>6 DEF With, Options, OptionMods
<1>16. ASSUME NEW i \in 2 .. Len(s), Hides(s, i)
       PROVE  ~o.raw
  <2>1. i \in 2 .. Len(stack) /\ Len(stack) > 1
    BY <1>4, <1>12, <1>16
  <2>2. s[i].pushed = stack[i].pushed /\ s[i - 1].by = stack[i - 1].by
    <3>1. \A k \in 1 .. Len(stack) - 1 : s[k] = stack[k]
      <4>1. s = Append(Front(stack), y)
        BY <1>10 DEF Rest, Front
      <4>2. stack \in Seq(Frame) /\ stack # <<>> /\ y \in Frame
        BY <1>2, <1>3, <1>9
      <4>3. QED
        BY <4>1, <4>2, ReplaceLast
    <3>2. CASE i = Len(stack)
      <4>1. i - 1 \in 1 .. Len(stack) - 1 /\ s[i] = y /\ stack[i] = Top
        BY <1>4, <1>12, <2>1, <3>2
      <4>2. QED
        BY <1>9, <3>1, <4>1
    <3>3. CASE i # Len(stack)
      <4>1. i \in 1 .. Len(stack) - 1 /\ i - 1 \in 1 .. Len(stack) - 1
        BY <1>4, <2>1, <3>3
      <4>2. QED
        BY <3>1, <4>1
    <3>4. QED
      BY <3>2, <3>3
  <2>3. Hides(stack, i)
    BY <1>16, <2>1, <2>2 DEF Hides
  <2>4. ~FmtOpts.raw
    BY <2>1, <2>3, HiddenOpts
  <2>5. m # "raw"
    BY <1>4, <1>5, <2>1
  <2>6. QED
    BY <1>15, <2>4, <2>5
<1>17. s # <<>> /\ s[Len(s)].by \in {"conv", "bind"} /\ x.pushed => ~o.raw
  BY <1>5, <1>9, <1>11, <1>12, <1>15
<1>18. Covered(stack', over', lostPops)
  BY ZenonT(30), <1>1, <1>2, <1>6, <1>11, <1>12, <1>13, <1>14, <1>16, <1>17, CoveredPush
<1>19. Quiet(stack')
  <2>1. /\ stack' \in Seq(Frame) /\ Len(stack') = Len(s) + 1 /\ stack'[Len(s) + 1] = x
        /\ \A i \in 1 .. Len(s) : stack'[i] = s[i]
    BY <1>1, <1>11, <1>12, AppendLast DEF Pushed
  <2>2. Len(s) \in Nat
    BY <1>12
  <2>3. \A i \in 1 .. Len(s) + 1 : i \in 1 .. Len(s) \/ i = Len(s) + 1
    BY <2>2
  <2>4. x.by # "client" /\ x.todo \in Seq(QuietSteps)
    BY <1>7, <1>8, <1>11 DEF Formatters, CustomFormatters
  <2>5. QED
    BY <1>12, <2>1, <2>3, <2>4 DEF Quiet
<1>20. QED
  BY <1>1, <1>18, <1>19

(* A step that rewrites the running frame, quietly, keeps raw data hidden *)
LEMMA RewriteHides ==
  ASSUME HideInv, stack # <<>>, NEW y \in Frame, y.by = Top.by, y.pushed = Top.pushed,
         y.wrap = Top.wrap, y.by # "client" => y.todo \in Seq(QuietSteps),
         stack' = Append(Rest, y), UNCHANGED <<over, lostPops>>
  PROVE  Quiet(stack') /\ Covered(stack', over', lostPops')
BY HideRewrite

(* ... such as consuming the head of what is left of it *)
LEMMA AdvanceHides ==
  ASSUME HideInv, NEW op, Next1(op), NEW todo \in Seq(Step),
         Top.by # "client" => todo \in Seq(QuietSteps)
  PROVE  LET t == WithTodo(todo)
         IN  /\ t \in Seq(Frame) /\ Len(t) = Len(stack) /\ Quiet(t)
             /\ Covered(t, over, lostPops)
             /\ t[Len(t)] = [Top EXCEPT !.todo = todo]
<1> DEFINE y == [Top EXCEPT !.todo = todo]
<1>1. stack # <<>> /\ Top \in Frame
  BY HeadFacts, TopFacts DEF HideInv
<1>2. y \in Frame /\ y.by = Top.by /\ y.pushed = Top.pushed /\ y.wrap = Top.wrap /\ y.todo = todo
  BY <1>1 DEF Frame
<1>3. WithTodo(todo) = Append(Rest, y)
  BY DEF WithTodo
<1> HIDE DEF y
<1>4. QED
  BY <1>1, <1>2, <1>3, HideRewrite DEF y

(* What is left of a quiet frame is quiet *)
LEMMA TailQuiet ==
  ASSUME HideInv, NEW op, Next1(op)
  PROVE  /\ Tail(Top.todo) \in Seq(Step)
         /\ Top.by # "client" => Tail(Top.todo) \in Seq(QuietSteps)
<1>1. stack # <<>> /\ Top.todo # <<>> /\ Tail(Top.todo) \in Seq(Step)
  BY HeadFacts DEF HideInv
<1>2. Top.by # "client" => Top.todo \in Seq(QuietSteps)
  BY <1>1, TopQuiet DEF HideInv
<1>3. QED
  BY <1>1, <1>2

(* Asking for a child keeps raw data hidden *)
LEMMA AskChildHides ==
  ASSUME HideInv, NEW kind \in {"fields", "elements"}, AskChild(kind)
  PROVE  Quiet(stack') /\ Covered(stack', over', lostPops')
<1> DEFINE s == WithTodo(Tail(Top.todo))
           step == Format(Head1.sub, "current")
           x == Root(kind, <<step>>)
           a == [raw |-> FALSE, functor |-> FALSE]
<1>1. Next1(kind) /\ stack' = Pushed(s, x) /\ over' = over /\ lostPops' = lostPops
  BY DEF AskChild, Pushed
<1>2. /\ IInv /\ over \in Seq(Options) /\ lostPops \in Nat
  BY DEF HideInv, IInv, TypeOK
<1>3. step \in QuietSteps /\ step \in Step
  BY <1>1, <1>2, HeadFacts DEF Format, Step, QuietSteps, OptionMods
<1> HIDE DEF step
<1>4. <<step>> \in Seq(QuietSteps) /\ <<step>> \in Seq(Step)
  BY <1>3
<1>5. x = [by |-> kind, val |-> NoValue, wrap |-> FALSE, pushed |-> FALSE,
           open |-> FALSE, todo |-> <<step>>]
  BY DEF Root
<1>6. a \in Options /\ ~a.raw
  BY DEF Options
<1> HIDE DEF x, a
<1>7. x \in Frame /\ x.pushed = FALSE /\ x.wrap = FALSE /\ x.by # "client" /\ x.todo = <<step>>
  <2>1. kind \in Formatters \cup Roots /\ kind # "client"
    BY DEF Roots
  <2>2. QED
    BY <1>4, <1>5, <2>1 DEF Frame
<1>8. s \in Seq(Frame) /\ Len(s) = Len(stack) /\ Quiet(s) /\ Covered(s, over, lostPops)
  BY <1>1, AdvanceHides, TailQuiet
<1>9. Cardinality(PushedAt(s)) = Cardinality(PushedAt(stack))
  BY <1>1, <1>2, Advance
<1> HIDE DEF s
<1>10. Len(over) = Cardinality(Below(s, Len(s) + 1)) + lostPops
  <2>1. Len(over) = Cardinality(PushedAt(stack)) + lostPops
    BY <1>2 DEF IInv, OptsBalanced
  <2>2. Below(s, Len(s) + 1) = PushedAt(s)
    BY <1>8, BelowAll
  <2>3. QED
    BY <1>9, <2>1, <2>2
<1>11. Covered(stack', over, lostPops)
  <2>1. over = IF x.pushed THEN Append(over, a) ELSE over
    BY <1>7
  <2>2. /\ x.wrap => a.raw
        /\ \A i \in 2 .. Len(s) : Hides(s, i) => ~a.raw
        /\ (s # <<>> /\ s[Len(s)].by \in {"conv", "bind"} /\ x.pushed => ~a.raw)
    BY <1>6, <1>7
  <2>3. QED
    BY <1>1, <1>2, <1>6, <1>7, <1>8, <1>10, <2>1, <2>2, CoveredPush
<1>12. Quiet(stack')
  <2>1. /\ stack' \in Seq(Frame) /\ Len(stack') = Len(s) + 1 /\ stack'[Len(s) + 1] = x
        /\ \A i \in 1 .. Len(s) : stack'[i] = s[i]
    BY <1>1, <1>7, <1>8, AppendLast DEF Pushed
  <2>2. Len(s) \in Nat
    BY <1>8
  <2>3. \A i \in 1 .. Len(s) + 1 : i \in 1 .. Len(s) \/ i = Len(s) + 1
    BY <2>2
  <2>4. x.by # "client" /\ x.todo \in Seq(QuietSteps)
    BY <1>4, <1>7
  <2>5. QED
    BY <1>8, <2>1, <2>3, <2>4 DEF Quiet
<1>13. QED
  BY <1>1, <1>11, <1>12

(* Showing a field keeps raw data hidden *)
LEMMA ShowFieldHides ==
  ASSUME HideInv, ShowField
  PROVE  Quiet(stack') /\ Covered(stack', over', lostPops')
<1> DEFINE step == Format(Head1.sub, "current")
           tl == Tail(Top.todo)
           todo == <<step>> \o tl
<1>1. /\ Next1("field") /\ stack' = WithTodo(todo) /\ over' = over /\ lostPops' = lostPops
  BY DEF ShowField
<1>2. step \in QuietSteps /\ step \in Step
  BY <1>1, HeadFacts DEF HideInv, Format, Step, QuietSteps, OptionMods
<1>3. tl \in Seq(Step) /\ (Top.by # "client" => tl \in Seq(QuietSteps))
  BY <1>1, TailQuiet
<1> HIDE DEF step, tl
<1>4. todo \in Seq(Step) /\ (Top.by # "client" => todo \in Seq(QuietSteps))
  BY <1>2, <1>3
<1> HIDE DEF todo
<1>5. QED
  BY <1>1, <1>4, AdvanceHides

(* Skipping the rest of the fields keeps raw data hidden *)
LEMMA SkipFieldsHides ==
  ASSUME HideInv, SkipFields
  PROVE  Quiet(stack') /\ Covered(stack', over', lostPops')
<1> DEFINE step == Do("stop")
<1>1. /\ Next1("field") /\ stack' = WithTodo(<<step>>) /\ over' = over /\ lostPops' = lostPops
  BY DEF SkipFields, AfterSkip
<1>2. step \in QuietSteps /\ step \in Step
  BY DEF Do, Step, QuietSteps, OptionMods
<1> HIDE DEF step
<1>3. <<step>> \in Seq(Step) /\ <<step>> \in Seq(QuietSteps)
  BY <1>2
<1>4. QED
  BY <1>1, <1>3, AdvanceHides

(* Listing the children of a bound call's arguments keeps raw data hidden *)
LEMMA ListChildsHides ==
  ASSUME HideInv, ListChilds
  PROVE  Quiet(stack') /\ Covered(stack', over', lostPops')
<1> DEFINE tl == Tail(Top.todo)
           new == Sub(res.childs, heap[res.of].subs)
           todo == IF res.childs = "none" THEN tl ELSE new \o tl
<1>1. /\ Next1("childs") /\ stack' = WithTodo(todo) /\ over' = over /\ lostPops' = lostPops
  BY DEF ListChilds
<1>2. tl \in Seq(Step) /\ (Top.by # "client" => tl \in Seq(QuietSteps))
  BY <1>1, TailQuiet
<1>3. res.childs # "none" => new \in Seq(QuietSteps) /\ new \in Seq(Step)
  <2> SUFFICES ASSUME res.childs # "none" PROVE new \in Seq(QuietSteps) /\ new \in Seq(Step)
    OBVIOUS
  <2>1. res.childs \in {"fields", "elements"} /\ res.of \in Values
    BY DEF HideInv, IInv, TypeOK, Result, Shape, ResultOK
  <2>2. heap[res.of].subs \in Seq(Values \cup Faults)
    BY <2>1 DEF HideInv, IInv, TypeOK, Desc
  <2>3. QED
    BY <2>1, <2>2, QuietSub, SubSteps
<1> HIDE DEF tl, new
<1>4. todo \in Seq(Step) /\ (Top.by # "client" => todo \in Seq(QuietSteps))
  BY <1>2, <1>3
<1> HIDE DEF todo
<1>5. QED
  BY <1>1, <1>4, AdvanceHides

(* Starting and stopping a record keeps raw data hidden *)
LEMMA RecordHides ==
  ASSUME HideInv, NEW op \in {"start", "stop"}, Next1(op), NEW b \in BOOLEAN,
         stack' = Append(Rest, [Top EXCEPT !.open = b, !.todo = Tail(@)]),
         UNCHANGED <<over, lostPops>>
  PROVE  Quiet(stack') /\ Covered(stack', over', lostPops')
<1> DEFINE y == [Top EXCEPT !.open = b, !.todo = Tail(@)]
<1>1. stack # <<>> /\ Top \in Frame
  BY HeadFacts, TopFacts DEF HideInv
<1>2. Tail(Top.todo) \in Seq(Step) /\ (Top.by # "client" => Tail(Top.todo) \in Seq(QuietSteps))
  BY TailQuiet
<1>3. /\ y \in Frame /\ y.by = Top.by /\ y.pushed = Top.pushed /\ y.wrap = Top.wrap
      /\ y.todo = Tail(Top.todo)
  BY <1>1, <1>2 DEF Frame
<1> HIDE DEF y
<1>4. stack' = Append(Rest, y)
  BY DEF y
<1>5. QED
  BY <1>1, <1>2, <1>3, <1>4, RewriteHides

(* Leaving a call normally keeps raw data hidden *)
LEMMA LeaveHides ==
  ASSUME HideInv, stack # <<>>, stack' = Rest, over' = PopOpts(Top), lostPops' = lostPops
  PROVE  Quiet(stack') /\ Covered(stack', over', lostPops')
<1>1. over \in Seq(Options) /\ lostPops \in Nat /\ IInv
  BY DEF HideInv, IInv, TypeOK
<1>2. /\ PopOpts(Top) \in Seq(Options)
      /\ Len(PopOpts(Top)) = Len(over) - IF Top.pushed THEN 1 ELSE 0
  BY <1>1, PopOptsFacts
<1>3. Len(PopOpts(Top)) <= Len(over)
  BY <1>1, <1>2
<1>4. \A k \in 1 .. Len(PopOpts(Top)) : PopOpts(Top)[k] = over[k]
  <2>1. CASE ~Top.pushed
    BY <2>1 DEF PopOpts
  <2>2. CASE Top.pushed
    <3>1. Len(over) \in Nat /\ Len(over) >= 1
      BY <1>1, <1>2, <2>2
    <3>2. over # <<>>
      BY <1>1, <3>1
    <3>3. PopOpts(Top) = Front(over)
      BY <2>2 DEF PopOpts, Front
    <3>4. QED
      BY <1>1, <3>2, <3>3, FrontProperties
  <2>3. QED
    BY <2>1, <2>2
<1>5. QED
  BY <1>1, <1>2, <1>3, <1>4, HidePop

(* Unwinding a frame keeps raw data hidden: its entry stays *)
LEMMA UnwindHides ==
  ASSUME HideInv, Unwind
  PROVE  Quiet(stack') /\ Covered(stack', over', lostPops')
<1>1. /\ stack # <<>> /\ stack' = Rest /\ over' = over
      /\ lostPops' = IF Top.pushed THEN lostPops + 1 ELSE lostPops
  BY DEF Unwind
<1>2. over \in Seq(Options) /\ lostPops \in Nat
  BY DEF HideInv, IInv, TypeOK
<1>3. lostPops' \in Nat /\ lostPops <= lostPops'
  BY <1>1, <1>2
<1>4. Len(over) <= Len(over) /\ \A k \in 1 .. Len(over) : over[k] = over[k]
  BY <1>2
<1>5. QED
  BY <1>1, <1>2, <1>3, <1>4, HidePop

(* A client's call starts with nothing to hide *)
LEMMA EnterHides ==
  ASSUME HideInv, NEW root \in Frame, Enter(root),
         root.by # "client" => root.todo \in Seq(QuietSteps)
  PROVE  Quiet(stack') /\ Covered(stack', over', lostPops')
<1>1. stack' = <<root>>
  BY DEF Enter
<1>2. Len(stack') = 1 /\ stack'[1] = root
  BY <1>1
<1>3. \A i \in 1 .. 1 : i = 1
  OBVIOUS
<1>4. \A i \in 2 .. 1 : FALSE
  OBVIOUS
<1>5. ~(1 > 1)
  OBVIOUS
<1>6. QED
  BY <1>2, <1>3, <1>4, <1>5 DEF Quiet, Covered

(* The client's calls that enter the engine keep raw data hidden *)
LEMMA ClientHides ==
  ASSUME HideInv, Client
  PROVE  Quiet(stack') /\ Covered(stack', over', lostPops')
<1>0. IInv
  BY DEF HideInv
<1>1. ASSUME NEW v \in Values, NEW m \in {"current", "noraw", "raw"}, ClientFormat(v, m)
      PROVE  Quiet(stack') /\ Covered(stack', over', lostPops')
  <2> DEFINE x == Root("client", <<Format(v, m)>>)
  <2>1. x = Root("client", <<[op |-> "format", sub |-> v, opts |-> m]>>)
    BY DEF Format
  <2>2. Enter(x)
    BY <1>1 DEF ClientFormat
  <2>3. "client" \in Roots /\ m \in OptionMods /\ v \in Values \cup Faults \cup {NoValue}
        /\ "format" \in {"format", "raw"}
    BY DEF Roots, OptionMods
  <2> HIDE DEF x
  <2>4. x \in Frame /\ x.by = "client"
    BY <2>1, <2>3, RootOK
  <2>5. QED
    BY <2>2, <2>4, EnterHides
<1>2. ASSUME NEW r \in held, ExpandRawData(r)
      PROVE  Quiet(stack') /\ Covered(stack', over', lostPops')
  <2> DEFINE st == [op |-> "raw", sub |-> r.raw, opts |-> "current"]
             x == Root("fields", <<st>>)
  <2>1. Enter(x)
    BY <1>2 DEF ExpandRawData
  <2>2. r.raw \in Values \cup Faults \cup {NoValue}
    BY <1>0 DEF IInv, TypeOK, Result
  <2>3. "fields" \in Roots /\ "current" \in OptionMods /\ "raw" \in {"format", "raw"}
    BY DEF Roots, OptionMods
  <2>4. x \in Frame
    BY <2>2, <2>3, RootOK
  <2>5. st \in QuietSteps
    BY <2>2 DEF QuietSteps, Step, OptionMods
  <2>6. x.todo = <<st>>
    BY DEF Root
  <2> HIDE DEF x, st
  <2>7. <<st>> \in Seq(QuietSteps)
    BY <2>5
  <2>8. QED
    BY <2>1, <2>4, <2>6, <2>7, EnterHides
<1>3. ASSUME NEW r \in held, r.childs # "none", NEW i \in 1 .. Len(heap[r.of].subs),
             ExpandChild(r, i)
      PROVE  Quiet(stack') /\ Covered(stack', over', lostPops')
  <2> DEFINE sub == heap[r.of].subs[i]
             st == [op |-> "format", sub |-> sub, opts |-> "current"]
             x == Root(r.childs, <<st>>)
  <2>1. Enter(x)
    BY <1>3 DEF ExpandChild, Format
  <2>2. r.childs \in {"fields", "elements"} /\ r.of \in Values
    BY <1>0, <1>3 DEF IInv, TypeOK, Result, Shape, ResultOK
  <2>3. heap[r.of].subs \in Seq(Values \cup Faults)
    BY <1>0, <2>2 DEF IInv, TypeOK, Desc
  <2>4. sub \in Values \cup Faults \cup {NoValue}
    BY <2>3
  <2> HIDE DEF sub
  <2>5. "current" \in OptionMods /\ "format" \in {"format", "raw"} /\ r.childs \in Roots
        /\ r.childs # "client"
    BY <2>2 DEF Roots, OptionMods
  <2>6. x \in Frame
    BY <2>4, <2>5, RootOK
  <2>7. st \in QuietSteps
    BY <2>4 DEF QuietSteps, Step, OptionMods
  <2>8. x.todo = <<st>>
    BY DEF Root
  <2> HIDE DEF x, st
  <2>9. <<st>> \in Seq(QuietSteps)
    BY <2>7
  <2>10. QED
    BY <2>1, <2>6, <2>8, <2>9, EnterHides
<1>4. ASSUME UNCHANGED <<stack, over, lostPops>>
      PROVE  Quiet(stack') /\ Covered(stack', over', lostPops')
  BY <1>4 DEF HideInv
<1>5. QED
  BY <1>1, <1>2, <1>3, <1>4 DEF Client, SetFmtOpts, SetShowRawData

(* Every step keeps raw data hidden below a conversion *)
LEMMA HideNext == HideInv /\ [Next]_vars => HideInv'
<1> SUFFICES ASSUME HideInv, [Next]_vars PROVE HideInv'
  OBVIOUS
<1> DEFINE Goal == Quiet(stack') /\ Covered(stack', over', lostPops')
<1>1. IInv'
  BY NextIInv DEF HideInv
<1>2. ASSUME UNCHANGED <<stack, over, lostPops>> PROVE Goal
  BY <1>2 DEF HideInv
<1>3. ASSUME NEW op \in {"format", "raw"}, Call(op) PROVE Goal
  BY <1>3, CallHides
<1>4. ASSUME NEW op \in {"format", "raw"}, CallUnformattable(op) PROVE Goal
  <2>1. /\ Next1(op) /\ stack' = WithTodo(Tail(Top.todo)) /\ over' = over /\ lostPops' = lostPops
    BY <1>4 DEF CallUnformattable
  <2>2. QED
    BY <2>1, AdvanceHides, TailQuiet
<1>5. ASSUME StartRecord PROVE Goal
  <2>1. /\ Next1("start") /\ over' = over /\ lostPops' = lostPops
        /\ stack' = Append(Rest, [Top EXCEPT !.open = TRUE, !.todo = Tail(@)])
    BY <1>5 DEF StartRecord
  <2>2. QED
    BY <2>1, RecordHides
<1>6. ASSUME StopRecord PROVE Goal
  <2>1. /\ Next1("stop") /\ over' = over /\ lostPops' = lostPops
        /\ stack' = Append(Rest, [Top EXCEPT !.open = FALSE, !.todo = Tail(@)])
    BY <1>6 DEF StopRecord
  <2>2. QED
    BY <2>1, RecordHides
<1>7. ASSUME ShowField PROVE Goal
  BY <1>7, ShowFieldHides
<1>8. ASSUME SkipFields PROVE Goal
  BY <1>8, SkipFieldsHides
<1>9. ASSUME ListChilds PROVE Goal
  BY <1>9, ListChildsHides
<1>10. ASSUME NEW kind \in {"fields", "elements"}, AskChild(kind) PROVE Goal
  BY <1>10, AskChildHides
<1>11. ASSUME Return PROVE Goal
  BY <1>11, LeaveHides DEF Return, Running, Leave
<1>12. ASSUME Catch PROVE Goal
  BY <1>12, LeaveHides DEF Catch, Leave
<1>13. ASSUME Unwind PROVE Goal
  BY <1>13, UnwindHides
<1>14. ASSUME Client PROVE Goal
  BY <1>14, ClientHides
<1>15. Goal
  <2>1. UNCHANGED vars => UNCHANGED <<stack, over, lostPops>>
    BY DEF vars
  <2>2. Throw => UNCHANGED <<stack, over, lostPops>>
    BY DEF Throw
  <2> HIDE DEF Goal
  <2>3. QED
    BY <1>2, <1>3, <1>4, <1>5, <1>6, <1>7, <1>8, <1>9, <1>10, <1>11, <1>12, <1>13, <1>14,
       <2>1, <2>2 DEF Next, Engine
<1>16. QED
  BY <1>1, <1>15 DEF HideInv

(* While a converted or bound value is being formatted, nothing below it   *)
(* is wrapped in a [Raw Data] proxy, whatever was thrown before.           *)
THEOREM ConversionsHideRawData == Spec => []ConversionHidesRawData
<1>1. Init => HideInv
  <2> SUFFICES ASSUME Init PROVE HideInv
    OBVIOUS
  <2>1. IInv
    BY InitIInv
  <2>2. stack = <<>> /\ Len(stack) = 0
    BY DEF Init
  <2>3. (\A i \in 1 .. 0 : FALSE) /\ (\A i \in 2 .. 0 : FALSE)
    OBVIOUS
  <2>4. QED
    BY <2>1, <2>2, <2>3 DEF HideInv, Quiet, Covered
<1>2. HideInv => ConversionHidesRawData
  BY DEF HideInv, Covered, Hides, ConversionHidesRawData
<1>3. QED
  BY <1>1, <1>2, HideNext, PTL DEF Spec

-----------------------------------------------------------------------------
(* Full budgets.  A record in progress that is not on top of the stack, or *)
(* is about to format a field, has counted that field: its formatter's     *)
(* budget is no longer full.                                               *)

(* What follows a start has no field read ahead of its loop *)
Unstarted(fr) ==
    fr.by \in RecFormatters /\ ~fr.open =>
        \A k \in 2 .. Len(fr.todo) : fr.todo[k].op # "format"

Counted(s, nm) ==
    \A i \in 1 .. Len(s) :
        s[i].by \in RecFormatters /\ s[i].open /\ (i < Len(s) \/ s[i].todo[1].op = "format")
        => nm[s[i].by] < FieldBudget

CountInv ==
    IInv /\ (\A i \in 1 .. Len(stack) : Unstarted(stack[i])) /\ Counted(stack, num)

(* The plan of a record formats nothing by itself *)
LEMMA RecordPlanUnstarted ==
  ASSUME heap \in [Values -> Desc], NEW v \in Values
  PROVE  RecordPlan(v) \in Seq(Step) /\ \A k \in 1 .. Len(RecordPlan(v)) : RecordPlan(v)[k].op # "format"
<1> DEFINE a == Do("start")
           b == Do("stop")
           m == Sub("field", heap[v].subs)
<1>1. a \in Step /\ b \in Step /\ a.op # "format" /\ b.op # "format"
  BY DEF Do, Step, OptionMods
<1>2. m \in Seq(Step) /\ \A i \in 1 .. Len(m) : m[i].op # "format"
  <2>1. heap[v].subs \in Seq(Values \cup Faults)
    BY DEF Desc
  <2>2. QED
    BY <2>1, SubSteps
<1>3. RecordPlan(v) = <<a>> \o m \o <<b>>
  BY DEF RecordPlan
<1> HIDE DEF a, b, m
<1>4. \A st \in {a, b} : st.op # "format"
  BY <1>1
<1>5. /\ <<a>> \o m \o <<b>> \in Seq(Step)
      /\ \A k \in 1 .. Len(<<a>> \o m \o <<b>>) :
            \/ (<<a>> \o m \o <<b>>)[k] \in {a, b}
            \/ \E i \in 1 .. Len(m) : (<<a>> \o m \o <<b>>)[k] = m[i]
  BY <1>1, <1>2
<1>6. QED
  BY <1>2, <1>3, <1>4, <1>5

(* A call that begins reads no field before its record starts *)
LEMMA PlanUnstarted ==
  ASSUME heap \in [Values -> Desc], NEW v \in Values, NEW f \in RecFormatters
  PROVE  \A k \in 2 .. Len(Plan(f, v)) : Plan(f, v)[k].op # "format"
<1>1. CASE f = "record"
  <2>1. Plan(f, v) = RecordPlan(v)
    BY <1>1 DEF Plan
  <2>2. QED
    BY <2>1, RecordPlanUnstarted
<1>2. CASE f \in {"functor", "lambda"}
  <2> DEFINE callop == IF heap[v].callop = NoValue THEN FormatError ELSE heap[v].callop
             a == Format(callop, "current")
             m == RecordPlan(v)
  <2>1. callop \in Values \cup Faults
    BY DEF Desc, Faults
  <2>2. a \in Step
    BY <2>1 DEF Format, Step, OptionMods
  <2>3. Plan(f, v) = <<a>> \o m
    BY <1>2 DEF Plan, PointerPlan, TuplePlan, ConvPlan, BindPlan, FunctorPlan
  <2>4. m \in Seq(Step) /\ \A k \in 1 .. Len(m) : m[k].op # "format"
    BY RecordPlanUnstarted
  <2> HIDE DEF a, m
  <2>5. /\ Len(<<a>> \o m) = Len(m) + 1
        /\ \A k \in 2 .. Len(m) + 1 : (<<a>> \o m)[k] = m[k - 1]
    BY <2>2, <2>4
  <2>6. \A k \in 2 .. Len(m) + 1 : k - 1 \in 1 .. Len(m)
    BY <2>4
  <2>7. QED
    BY <2>3, <2>4, <2>5, <2>6
<1>3. QED
  BY <1>1, <1>2 DEF RecFormatters

(* Rewriting the running frame *)
LEMMA CountRewrite ==
  ASSUME CountInv, stack # <<>>, NEW y \in Frame, Unstarted(y), NEW nm,
         \A i \in 1 .. Len(stack) - 1 :
            stack[i].by \in RecFormatters /\ stack[i].open /\ num[stack[i].by] < FieldBudget
            => nm[stack[i].by] < FieldBudget,
         y.by \in RecFormatters /\ y.open /\ y.todo[1].op = "format" => nm[y.by] < FieldBudget,
         NEW t, t = Append(Rest, y)
  PROVE  (\A i \in 1 .. Len(t) : Unstarted(t[i])) /\ Counted(t, nm) /\ t \in Seq(Frame)
         /\ Len(t) = Len(stack) /\ t[Len(t)] = y
<1>1. stack \in Seq(Frame) /\ Len(stack) \in Nat /\ Len(stack) >= 1
  BY EmptySeq DEF CountInv, IInv, TypeOK
<1>2. /\ t \in Seq(Frame) /\ Len(t) = Len(stack)
      /\ \A i \in 1 .. Len(stack) - 1 : t[i] = stack[i]
      /\ t[Len(stack)] = y
  <2>1. t = Append(Front(stack), y)
    BY DEF Rest, Front
  <2>2. QED
    BY <1>1, <2>1, ReplaceLast
<1>3. \A i \in 1 .. Len(stack) : i = Len(stack) \/ (i \in 1 .. Len(stack) - 1 /\ i < Len(stack))
  BY <1>1
<1>4. \A i \in 1 .. Len(t) : Unstarted(t[i])
  BY <1>2, <1>3 DEF CountInv
<1>5. ~(Len(stack) < Len(stack))
  BY <1>1
<1>6. ASSUME NEW i \in 1 .. Len(t), t[i].by \in RecFormatters, t[i].open,
             i < Len(t) \/ t[i].todo[1].op = "format"
      PROVE  nm[t[i].by] < FieldBudget
  <2>1. CASE i = Len(stack)
    BY <1>2, <1>5, <1>6, <2>1
  <2>2. CASE i \in 1 .. Len(stack) - 1 /\ i < Len(stack)
    <3>1. t[i] = stack[i] /\ i \in 1 .. Len(stack)
      BY <1>2, <1>6, <2>2
    <3>2. num[stack[i].by] < FieldBudget
      BY <1>6, <2>2, <3>1 DEF CountInv, Counted
    <3>3. QED
      BY <1>6, <2>2, <3>1, <3>2
  <2>3. QED
    BY <1>2, <1>3, <1>6, <2>1, <2>2
<1>7. QED
  BY <1>2, <1>4, <1>6 DEF Counted

(* Pushing a frame on one that formats something *)
LEMMA CountPush ==
  ASSUME NEW s \in Seq(Frame), NEW x \in Frame, Unstarted(x), ~x.open, NEW t, t = Pushed(s, x),
         \A i \in 1 .. Len(s) : Unstarted(s[i]), Counted(s, num),
         s # <<>> /\ s[Len(s)].by \in RecFormatters /\ s[Len(s)].open
            => num[s[Len(s)].by] < FieldBudget
  PROVE  (\A i \in 1 .. Len(t) : Unstarted(t[i])) /\ Counted(t, num)
<1>1. /\ t \in Seq(Frame) /\ Len(t) = Len(s) + 1 /\ t[Len(s) + 1] = x
      /\ \A j \in 1 .. Len(s) : t[j] = s[j]
      /\ Len(s) \in Nat
  BY AppendLast DEF Pushed
<1>2. \A i \in 1 .. Len(s) + 1 : i \in 1 .. Len(s) \/ i = Len(s) + 1
  BY <1>1
<1>3. \A i \in 1 .. Len(t) : Unstarted(t[i])
  BY <1>1, <1>2
<1>4. ASSUME NEW i \in 1 .. Len(t), t[i].by \in RecFormatters, t[i].open
      PROVE  num[t[i].by] < FieldBudget
  <2>1. i \in 1 .. Len(s) /\ t[i] = s[i]
    BY <1>1, <1>2, <1>4
  <2>2. CASE i < Len(s)
    BY <1>4, <2>1, <2>2 DEF Counted
  <2>3. CASE i = Len(s)
    <3>1. s # <<>>
      BY <1>1, <2>1, <2>3
    <3>2. QED
      BY <1>4, <2>1, <2>3, <3>1
  <2>4. QED
    BY <1>1, <2>1, <2>2, <2>3
<1>5. QED
  BY <1>3, <1>4 DEF Counted

(* Popping a frame: the one below it had counted its field *)
LEMMA CountPop ==
  ASSUME CountInv, stack # <<>>
  PROVE  (\A i \in 1 .. Len(Rest) : Unstarted(Rest[i])) /\ Counted(Rest, num)
<1>1. stack \in Seq(Frame) /\ Len(stack) \in Nat /\ Len(stack) >= 1
  BY EmptySeq DEF CountInv, IInv, TypeOK
<1>2. /\ Len(Rest) = Len(stack) - 1
      /\ \A i \in 1 .. Len(stack) - 1 : Rest[i] = stack[i]
  <2>1. Rest = Front(stack)
    BY DEF Rest, Front
  <2>2. QED
    BY <1>1, <2>1, FrontProperties
<1>3. \A i \in 1 .. Len(Rest) : i \in 1 .. Len(stack) /\ i < Len(stack) /\ Rest[i] = stack[i]
  BY <1>1, <1>2
<1>4. QED
  BY <1>3 DEF CountInv, Counted

(* The rest of a frame that only advances *)
LEMMA CountAdvance ==
  ASSUME CountInv, NEW op \in {"format", "raw", "childs", "fields", "elements"}, Next1(op)
  PROVE  LET t == WithTodo(Tail(Top.todo))
         IN  /\ \A i \in 1 .. Len(t) : Unstarted(t[i])
             /\ Counted(t, num) /\ t \in Seq(Frame) /\ Len(t) = Len(stack)
             /\ t[Len(t)].by \in RecFormatters /\ t[Len(t)].open
                   => num[t[Len(t)].by] < FieldBudget
<1> DEFINE y == [Top EXCEPT !.todo = Tail(Top.todo)]
<1>1. /\ stack # <<>> /\ Top.todo # <<>> /\ Top.todo[1].op = op /\ Top \in Frame /\ FrameOK(Top)
      /\ Top.todo \in Seq(Step) /\ Tail(Top.todo) \in Seq(Step)
  BY HeadFacts, TopFacts DEF CountInv
<1>2. y \in Frame /\ y.by = Top.by /\ y.open = Top.open /\ y.todo = Tail(Top.todo)
  BY <1>1 DEF Frame
<1>3. Top = stack[Len(stack)] /\ Len(stack) \in 1 .. Len(stack)
  <2>1. Len(stack) \in Nat /\ Len(stack) >= 1
    BY <1>1, EmptySeq DEF CountInv, IInv, TypeOK
  <2>2. QED
    BY <2>1 DEF Top
<1>4. Top.by \in RecFormatters /\ Top.open => num[Top.by] < FieldBudget
  <2> SUFFICES ASSUME Top.by \in RecFormatters, Top.open PROVE num[Top.by] < FieldBudget
    OBVIOUS
  <2>1. LoopLeft(Top.todo)
    BY <1>1 DEF FrameOK, RecordOK
  <2>2. op = "format"
    BY <1>1, <2>1, LoopHead
  <2>3. QED
    BY <1>1, <1>3, <2>2 DEF CountInv, Counted
<1>5. Unstarted(y)
  <2> SUFFICES ASSUME Top.by \in RecFormatters, ~Top.open, NEW k \in 2 .. Len(Tail(Top.todo))
               PROVE  Tail(Top.todo)[k].op # "format"
    BY <1>2 DEF Unstarted
  <2>1. Tail(Top.todo)[k] = Top.todo[k + 1] /\ k + 1 \in 2 .. Len(Top.todo)
    BY <1>1
  <2>2. QED
    BY <1>3, <2>1 DEF CountInv, Unstarted
<1> DEFINE t == WithTodo(Tail(Top.todo))
<1>6. t = Append(Rest, y)
  BY DEF WithTodo
<1> HIDE DEF y, t
<1>7. y.by \in RecFormatters /\ y.open => num[y.by] < FieldBudget
  BY <1>2, <1>4
<1>8. /\ \A i \in 1 .. Len(t) : Unstarted(t[i])
      /\ Counted(t, num) /\ t \in Seq(Frame)
      /\ Len(t) = Len(stack) /\ t[Len(t)] = y
  <2>1. \A i \in 1 .. Len(stack) - 1 :
            stack[i].by \in RecFormatters /\ stack[i].open /\ num[stack[i].by] < FieldBudget
            => num[stack[i].by] < FieldBudget
    OBVIOUS
  <2>2. y.by \in RecFormatters /\ y.open /\ y.todo[1].op = "format" => num[y.by] < FieldBudget
    BY <1>7
  <2>3. QED
    BY <1>1, <1>2, <1>5, <1>6, <2>1, <2>2, CountRewrite, Zenon
<1>9. QED
  BY <1>7, <1>8 DEF t

(* Calling a formatter keeps full budgets for outermost records *)
LEMMA CallCounts ==
  ASSUME CountInv, NEW op \in {"format", "raw"}, Call(op)
  PROVE  (\A i \in 1 .. Len(stack') : Unstarted(stack'[i])) /\ Counted(stack', num')
<1> DEFINE v == Head1.sub
           m == Head1.opts
           o == CallOpts
           f == Chosen(op, v, o)
           s == WithTodo(Tail(Top.todo))
           x == FrameFor(f, v, op, m, o)
<1>1. /\ Next1(op) /\ v \in Values /\ f # "none"
      /\ stack' = Pushed(s, x) /\ num' = num
  BY DEF Call, Pushed
<1>2. IInv /\ heap \in [Values -> Desc]
  BY DEF CountInv, IInv, TypeOK
<1>3. m \in OptionMods
  BY <1>1, <1>2, HeadFacts DEF Step
<1>4. o \in Options
  BY <1>2, <1>3, OptsTypes DEF CallOpts
<1>5. f \in Formatters /\ Accepts(f, v, o)
  BY <1>1, ChosenAccepts
<1>6. Plan(f, v) \in Seq(Step)
  BY <1>1, <1>2, <1>5, PlanOK
<1>7. f \in RecFormatters => \A k \in 2 .. Len(Plan(f, v)) : Plan(f, v)[k].op # "format"
  BY <1>1, <1>2, PlanUnstarted
<1> HIDE DEF f, v, m, o
<1>8. x \in Frame /\ ~x.open /\ Unstarted(x)
  <2>1. o.raw \in BOOLEAN
    BY <1>4 DEF Options
  <2> DEFINE w == op = "format" /\ f \in CustomFormatters /\ o.raw
             p == m # "current"
  <2>2. x = [by |-> f, val |-> v, wrap |-> w, pushed |-> p, open |-> FALSE, todo |-> Plan(f, v)]
    BY DEF FrameFor
  <2>3. w \in BOOLEAN /\ p \in BOOLEAN
    BY <2>1
  <2> HIDE DEF w, p, x
  <2>4. x \in Frame
    BY <1>1, <1>5, <1>6, <2>2, <2>3 DEF Frame
  <2>5. x.open = FALSE /\ x.by = f /\ x.todo = Plan(f, v)
    BY <2>2
  <2>6. Unstarted(x)
    BY <1>7, <2>5 DEF Unstarted
  <2>7. QED
    BY <2>4, <2>5, <2>6
<1> HIDE DEF x
<1>9. /\ \A i \in 1 .. Len(s) : Unstarted(s[i])
      /\ Counted(s, num) /\ s \in Seq(Frame)
      /\ s[Len(s)].by \in RecFormatters /\ s[Len(s)].open => num[s[Len(s)].by] < FieldBudget
  BY <1>1, CountAdvance
<1> HIDE DEF s
<1>10. QED
  BY <1>1, <1>8, <1>9, CountPush

(* Asking for a child keeps full budgets for outermost records *)
LEMMA AskChildCounts ==
  ASSUME CountInv, NEW kind \in {"fields", "elements"}, AskChild(kind)
  PROVE  (\A i \in 1 .. Len(stack') : Unstarted(stack'[i])) /\ Counted(stack', num')
<1> DEFINE s == WithTodo(Tail(Top.todo))
           x == Root(kind, <<Format(Head1.sub, "current")>>)
<1>1. Next1(kind) /\ stack' = Pushed(s, x) /\ num' = num
  BY DEF AskChild, Pushed
<1>2. Head1.sub \in Values \cup Faults \cup {NoValue}
  BY <1>1, HeadFacts DEF Step, CountInv
<1>3. x \in Frame /\ ~x.open /\ x.by = kind
  <2>1. kind \in Roots /\ "format" \in {"format", "raw"} /\ "current" \in OptionMods
        /\ (kind = "client" => "format" = "format" /\ Head1.sub \in Values)
    BY DEF Roots, OptionMods
  <2>2. x = Root(kind, <<[op |-> "format", sub |-> Head1.sub, opts |-> "current"]>>)
    BY DEF Format
  <2> HIDE DEF x
  <2>3. QED
    BY <1>2, <2>1, <2>2, RootOK
<1> HIDE DEF x
<1>4. Unstarted(x)
  BY <1>3 DEF Unstarted, RecFormatters
<1>5. /\ \A i \in 1 .. Len(s) : Unstarted(s[i])
      /\ Counted(s, num) /\ s \in Seq(Frame)
      /\ s[Len(s)].by \in RecFormatters /\ s[Len(s)].open => num[s[Len(s)].by] < FieldBudget
  BY <1>1, CountAdvance
<1> HIDE DEF s
<1>6. QED
  BY <1>1, <1>3, <1>4, <1>5, CountPush

(* A record starts: its formatter's budget is full when none is in progress *)
LEMMA StartCounts ==
  ASSUME CountInv, StartRecord
  PROVE  (\A i \in 1 .. Len(stack') : Unstarted(stack'[i])) /\ Counted(stack', num')
<1> DEFINE f == Top.by
           y == [Top EXCEPT !.open = TRUE, !.todo = Tail(@)]
<1>1. /\ Next1("start") /\ stack' = Append(Rest, y)
      /\ num' = IF NeedsRefill(f) THEN [num EXCEPT ![f] = FieldBudget] ELSE num
  BY DEF StartRecord
<1>2. /\ stack # <<>> /\ Top \in Frame /\ Top.todo # <<>> /\ Tail(Top.todo) \in Seq(Step)
      /\ Top.todo \in Seq(Step) /\ IInv
  BY <1>1, HeadFacts, TopFacts DEF CountInv
<1>3. f \in RecFormatters /\ ~Top.open /\ LoopLeft(Tail(Top.todo))
  BY <1>1, <1>2, RecordHead DEF RecordOps
<1>4. y \in Frame /\ y.by = f /\ y.open /\ y.todo = Tail(Top.todo)
  BY <1>2 DEF Frame
<1>5. Top = stack[Len(stack)] /\ Len(stack) \in 1 .. Len(stack) /\ Len(stack) \in Nat
  <2>1. Len(stack) \in Nat /\ Len(stack) >= 1
    BY <1>2, EmptySeq DEF CountInv, IInv, TypeOK
  <2>2. QED
    BY <2>1 DEF Top
<1>6. Tail(Top.todo)[1].op # "format"
  <2>1. Len(Tail(Top.todo)) \in Nat /\ Len(Tail(Top.todo)) >= 1
    BY <1>2, <1>3, EmptySeq DEF LoopLeft
  <2>2. Tail(Top.todo)[1] = Top.todo[2] /\ 2 \in 2 .. Len(Top.todo)
    BY <1>2, <2>1
  <2>3. Unstarted(Top)
    BY <1>5 DEF CountInv
  <2>4. QED
    BY <1>3, <2>2, <2>3 DEF Unstarted
<1>7. Unstarted(y)
  BY <1>4 DEF Unstarted
<1>8. ASSUME NEW i \in 1 .. Len(stack) - 1, stack[i].by \in RecFormatters, stack[i].open,
             num[stack[i].by] < FieldBudget
      PROVE  num'[stack[i].by] < FieldBudget
  <2>1. CASE stack[i].by = f
    <3>1. i \in OpenAt(f, stack)
      BY <1>5, <1>8, <2>1 DEF OpenAt
    <3>2. ~NeedsRefill(f)
      <4> SUFFICES ASSUME NeedsRefill(f) PROVE FALSE
        OBVIOUS
      <4>1. depth[f] = 0 /\ depth[f] = Cardinality(OpenAt(f, stack)) + lostStops[f]
        BY <1>2, <1>3 DEF NeedsRefill, IInv, DepthBalanced
      <4>2. stack \in Seq(Frame) /\ lostStops[f] \in Nat
        BY <1>2, <1>3 DEF IInv, TypeOK
      <4>3. IsFiniteSet(OpenAt(f, stack)) /\ Cardinality(OpenAt(f, stack)) \in Nat
        BY <4>2, AtFinite, OpenAtDef
      <4>4. Cardinality(OpenAt(f, stack)) = 0
        BY <4>1, <4>2, <4>3
      <4>5. QED
        BY <3>1, <4>3, <4>4, FS_EmptySet
    <3>3. QED
      BY <1>1, <1>8, <3>2
  <2>2. CASE stack[i].by # f
    <3>1. num \in [RecFormatters -> 0 .. FieldBudget]
      BY <1>2 DEF IInv, TypeOK
    <3>2. num'[stack[i].by] = num[stack[i].by]
      BY <1>1, <1>3, <1>8, <2>2, <3>1
    <3>3. QED
      BY <1>8, <3>2
  <2>3. QED
    BY <2>1, <2>2
<1> HIDE DEF y, f
<1>9. ~(y.by \in RecFormatters /\ y.open /\ y.todo[1].op = "format")
  BY <1>4, <1>6
<1>10. QED
  BY <1>1, <1>2, <1>4, <1>7, <1>8, <1>9, CountRewrite

(* A field is shown: the budget of its record is no longer full *)
LEMMA ShowCounts ==
  ASSUME CountInv, ShowField
  PROVE  (\A i \in 1 .. Len(stack') : Unstarted(stack'[i])) /\ Counted(stack', num')
<1> DEFINE f == Top.by
           step == Format(Head1.sub, "current")
           todo == <<step>> \o Tail(Top.todo)
           y == [Top EXCEPT !.todo = todo]
<1>1. /\ Next1("field") /\ stack' = Append(Rest, y)
      /\ num' = [num EXCEPT ![f] = IF @ > 0 THEN @ - 1 ELSE @]
  BY DEF ShowField, WithTodo
<1>2. /\ stack # <<>> /\ Top \in Frame /\ Tail(Top.todo) \in Seq(Step) /\ IInv
      /\ Head1.sub \in Values \cup Faults \cup {NoValue}
  BY <1>1, HeadFacts, TopFacts DEF CountInv, Step
<1>3. f \in RecFormatters /\ Top.open
  BY <1>1, <1>2, RecordHead DEF RecordOps
<1>4. step \in Step
  BY <1>2 DEF Format, Step, OptionMods
<1> HIDE DEF step
<1>5. todo \in Seq(Step)
  BY <1>2, <1>4
<1> HIDE DEF todo
<1>6. y \in Frame /\ y.by = f /\ y.open
  BY <1>2, <1>3, <1>5 DEF Frame
<1>7. /\ num \in [RecFormatters -> 0 .. FieldBudget] /\ FieldBudget \in Nat \ {0}
      /\ num[f] \in 0 .. FieldBudget
  BY <1>2, <1>3, ConstantsAssumption DEF IInv, TypeOK
<1>8. num'[f] < FieldBudget /\ \A g \in RecFormatters : num[g] < FieldBudget => num'[g] < FieldBudget
  <2>1. num'[f] = (IF num[f] > 0 THEN num[f] - 1 ELSE num[f])
        /\ \A g \in RecFormatters : g # f => num'[g] = num[g]
    BY <1>1, <1>3, <1>7
  <2>2. num'[f] < FieldBudget
    BY <1>7, <2>1
  <2>3. QED
    BY <2>1, <2>2
<1>9. Unstarted(y)
  BY <1>6 DEF Unstarted
<1> HIDE DEF y, f
<1>10. \A i \in 1 .. Len(stack) - 1 :
            stack[i].by \in RecFormatters /\ stack[i].open /\ num[stack[i].by] < FieldBudget
            => num'[stack[i].by] < FieldBudget
  BY <1>8
<1>11. y.by \in RecFormatters /\ y.open /\ y.todo[1].op = "format" => num'[y.by] < FieldBudget
  BY <1>6, <1>8
<1>12. QED
  BY <1>1, <1>2, <1>6, <1>9, <1>10, <1>11, CountRewrite

(* The steps that rewrite the running frame and keep the budgets *)
LEMMA RewriteCounts ==
  ASSUME CountInv, stack # <<>>, NEW y \in Frame, Unstarted(y),
         ~(y.by \in RecFormatters /\ y.open /\ y.todo[1].op = "format"),
         stack' = Append(Rest, y), num' = num
  PROVE  (\A i \in 1 .. Len(stack') : Unstarted(stack'[i])) /\ Counted(stack', num')
<1>1. \A i \in 1 .. Len(stack) - 1 :
            stack[i].by \in RecFormatters /\ stack[i].open /\ num[stack[i].by] < FieldBudget
            => num'[stack[i].by] < FieldBudget
  OBVIOUS
<1>2. y.by \in RecFormatters /\ y.open /\ y.todo[1].op = "format" => num'[y.by] < FieldBudget
  OBVIOUS
<1>3. QED
  BY <1>1, <1>2, CountRewrite

(* Skipping fields and stopping a record keep full budgets *)
LEMMA SkipStopCounts ==
  ASSUME CountInv, SkipFields \/ StopRecord
  PROVE  (\A i \in 1 .. Len(stack') : Unstarted(stack'[i])) /\ Counted(stack', num')
<1>1. CASE SkipFields
  <2> DEFINE step == Do("stop")
             y == [Top EXCEPT !.todo = <<step>>]
  <2>1. Next1("field") /\ stack' = Append(Rest, y) /\ num' = num
    BY <1>1 DEF SkipFields, WithTodo, AfterSkip
  <2>2. stack # <<>> /\ Top \in Frame
    BY <2>1, HeadFacts, TopFacts DEF CountInv
  <2>3. Top.open
    BY <2>1, RecordHead DEF RecordOps, CountInv
  <2>4. step \in Step /\ step.op # "format"
    BY DEF Do, Step, OptionMods
  <2> HIDE DEF step
  <2>5. <<step>> \in Seq(Step) /\ <<step>>[1] = step
    BY <2>4
  <2>6. y \in Frame /\ y.by = Top.by /\ y.open /\ y.todo = <<step>>
    BY <2>2, <2>3, <2>5 DEF Frame
  <2> HIDE DEF y
  <2>7. Unstarted(y) /\ y.todo[1].op # "format"
    BY <2>4, <2>5, <2>6 DEF Unstarted
  <2>8. QED
    BY <2>1, <2>2, <2>6, <2>7, RewriteCounts
<1>2. CASE StopRecord
  <2> DEFINE y == [Top EXCEPT !.open = FALSE, !.todo = Tail(@)]
  <2>1. Next1("stop") /\ stack' = Append(Rest, y) /\ num' = num
    BY <1>2 DEF StopRecord
  <2>2. stack # <<>> /\ Top \in Frame /\ Top.todo \in Seq(Step) /\ Tail(Top.todo) \in Seq(Step)
    BY <2>1, HeadFacts, TopFacts DEF CountInv
  <2>3. Len(Top.todo) = 1
    BY <2>1, RecordHead DEF RecordOps, CountInv
  <2>4. y \in Frame /\ y.by = Top.by /\ ~y.open /\ y.todo = Tail(Top.todo)
    BY <2>2 DEF Frame
  <2>5. Len(y.todo) = 0
    BY <2>2, <2>3, <2>4
  <2> HIDE DEF y
  <2>6. Unstarted(y)
    BY <2>5 DEF Unstarted
  <2>7. QED
    BY <2>1, <2>2, <2>4, <2>6, RewriteCounts
<1>3. QED
  BY <1>1, <1>2

(* Listing the children of a bound call's arguments keeps full budgets *)
LEMMA ListChildsCounts ==
  ASSUME CountInv, ListChilds
  PROVE  (\A i \in 1 .. Len(stack') : Unstarted(stack'[i])) /\ Counted(stack', num')
<1> DEFINE tl == Tail(Top.todo)
           new == Sub(res.childs, heap[res.of].subs)
           todo == IF res.childs = "none" THEN tl ELSE new \o tl
           y == [Top EXCEPT !.todo = todo]
<1>1. Next1("childs") /\ stack' = Append(Rest, y) /\ num' = num
  BY DEF ListChilds, WithTodo
<1>2. /\ stack # <<>> /\ Top \in Frame /\ FrameOK(Top) /\ Top.todo # <<>> /\ Top.todo[1].op = "childs"
      /\ Top.todo \in Seq(Step) /\ tl \in Seq(Step)
  BY <1>1, HeadFacts, TopFacts DEF CountInv
<1>3. Top.by \notin RecFormatters
  <2> SUFFICES ASSUME Top.by \in RecFormatters PROVE FALSE
    OBVIOUS
  <2>1. RecordOK(Top)
    BY <1>2 DEF FrameOK
  <2>2. QED
    BY <1>2, <2>1, LoopHead DEF RecordOK
<1>4. res.childs # "none" => new \in Seq(Step)
  <2> SUFFICES ASSUME res.childs # "none" PROVE new \in Seq(Step)
    OBVIOUS
  <2>1. res.childs \in {"fields", "elements"} /\ res.of \in Values
    BY DEF CountInv, IInv, TypeOK, Result, Shape, ResultOK
  <2>2. heap[res.of].subs \in Seq(Values \cup Faults)
    BY <2>1 DEF CountInv, IInv, TypeOK, Desc
  <2>3. QED
    BY <2>1, <2>2, SubSteps
<1> HIDE DEF tl, new
<1>5. todo \in Seq(Step)
  BY <1>2, <1>4
<1> HIDE DEF todo
<1>6. y \in Frame /\ y.by = Top.by
  BY <1>2, <1>5 DEF Frame
<1> HIDE DEF y
<1>7. Unstarted(y)
  BY <1>3, <1>6 DEF Unstarted
<1>8. QED
  BY <1>1, <1>2, <1>3, <1>6, <1>7, RewriteCounts

(* A client's call starts with full or counted budgets alike *)
LEMMA EnterCounts ==
  ASSUME NEW kind \in Roots, NEW todo, stack' = <<Root(kind, todo)>>
  PROVE  (\A i \in 1 .. Len(stack') : Unstarted(stack'[i])) /\ Counted(stack', num')
<1> DEFINE x == Root(kind, todo)
<1>1. x.by \notin RecFormatters
  BY DEF Root, Roots, RecFormatters
<1> HIDE DEF x
<1>2. stack' = <<x>>
  BY DEF x
<1>3. Len(stack') = 1 /\ stack'[1] = x
  BY <1>2
<1>4. \A i \in 1 .. 1 : i = 1
  OBVIOUS
<1>5. QED
  BY <1>1, <1>3, <1>4 DEF Unstarted, Counted

(* Every step keeps the budgets of the records in progress counted *)
LEMMA CountNext == CountInv /\ [Next]_vars => CountInv'
<1> SUFFICES ASSUME CountInv, [Next]_vars PROVE CountInv'
  OBVIOUS
<1> DEFINE Goal == (\A i \in 1 .. Len(stack') : Unstarted(stack'[i])) /\ Counted(stack', num')
<1>1. IInv'
  BY NextIInv DEF CountInv
<1>2. ASSUME UNCHANGED <<stack, num>> PROVE Goal
  BY <1>2 DEF CountInv
<1>3. ASSUME NEW op \in {"format", "raw"}, Call(op) PROVE Goal
  BY <1>3, CallCounts
<1>4. ASSUME NEW op \in {"format", "raw"}, CallUnformattable(op) PROVE Goal
  <2>1. Next1(op) /\ stack' = WithTodo(Tail(Top.todo)) /\ num' = num
    BY <1>4 DEF CallUnformattable
  <2>2. QED
    BY <2>1, CountAdvance
<1>5. ASSUME StartRecord PROVE Goal
  BY <1>5, StartCounts
<1>6. ASSUME ShowField PROVE Goal
  BY <1>6, ShowCounts
<1>7. ASSUME SkipFields \/ StopRecord PROVE Goal
  BY <1>7, SkipStopCounts
<1>8. ASSUME ListChilds PROVE Goal
  BY <1>8, ListChildsCounts
<1>9. ASSUME NEW kind \in {"fields", "elements"}, AskChild(kind) PROVE Goal
  BY <1>9, AskChildCounts
<1>10. ASSUME stack # <<>>, stack' = Rest, num' = num PROVE Goal
  BY <1>10, CountPop
<1>11. Return \/ Catch \/ Unwind => stack # <<>> /\ stack' = Rest /\ num' = num
  BY DEF Return, Catch, Unwind, Leave, Running
<1>12. ASSUME NEW v \in Values, NEW m \in {"current", "noraw", "raw"}, ClientFormat(v, m)
       PROVE  Goal
  BY <1>12, EnterCounts DEF ClientFormat, Enter, Roots
<1>13. ASSUME NEW r \in held, ExpandRawData(r) PROVE Goal
  BY <1>13, EnterCounts DEF ExpandRawData, Enter, Roots
<1>14. ASSUME NEW r \in held, r.childs # "none", NEW i \in 1 .. Len(heap[r.of].subs),
              ExpandChild(r, i)
       PROVE  Goal
  <2>1. r.childs \in Roots
    BY <1>14 DEF CountInv, IInv, TypeOK, Result, Roots
  <2>2. QED
    BY <1>14, <2>1, EnterCounts DEF ExpandChild, Enter
<1>15. ASSUME Client PROVE Goal
  <2>1. ASSUME NEW o \in Options, SetFmtOpts(o) PROVE Goal
    BY <1>2, <2>1 DEF SetFmtOpts
  <2>2. ASSUME NEW b \in BOOLEAN, SetShowRawData(b) PROVE Goal
    BY <1>2, <2>2 DEF SetShowRawData, SetFmtOpts
  <2> HIDE DEF Goal
  <2>3. QED
    BY <1>12, <1>13, <1>14, <1>15, <2>1, <2>2 DEF Client
<1>16. Goal
  <2>1. UNCHANGED vars => UNCHANGED <<stack, num>>
    BY DEF vars
  <2>2. Throw => UNCHANGED <<stack, num>>
    BY DEF Throw
  <2> HIDE DEF Goal
  <2>3. QED
    BY <1>2, <1>3, <1>4, <1>5, <1>6, <1>7, <1>8, <1>9, <1>10, <1>11, <1>15, <2>1, <2>2
       DEF Next, Engine
<1>17. QED
  BY <1>1, <1>16 DEF CountInv

(* A record that starts gets a full field budget exactly when no other     *)
(* record of its formatter is in progress, as long as no exception has cut *)
(* a record of that formatter short.                                       *)
THEOREM BudgetsAreFresh == Spec => BudgetFresh
<1> DEFINE A == \A f \in RecFormatters :
                   depth'[f] > depth[f] /\ lostStops[f] = 0
                   => (OpenAt(f, stack) = {} <=> num'[f] = FieldBudget)
<1>1. Init => CountInv
  <2> SUFFICES ASSUME Init PROVE CountInv
    OBVIOUS
  <2>1. IInv
    BY InitIInv
  <2>2. Len(stack) = 0
    BY DEF Init
  <2>3. \A i \in 1 .. 0 : FALSE
    OBVIOUS
  <2>4. QED
    BY <2>1, <2>2, <2>3 DEF CountInv, Counted
<1>2. CountInv /\ [Next]_vars => [A]_vars
  <2> SUFFICES ASSUME CountInv, [Next]_vars, NEW g \in RecFormatters,
                      depth'[g] > depth[g], lostStops[g] = 0
               PROVE  OpenAt(g, stack) = {} <=> num'[g] = FieldBudget
    OBVIOUS
  <2>1. /\ depth \in [RecFormatters -> Nat] /\ IInv /\ num \in [RecFormatters -> 0 .. FieldBudget]
        /\ stack \in Seq(Frame) /\ FieldBudget \in Nat
    BY ConstantsAssumption DEF CountInv, IInv, TypeOK
  <2>2. [Next]_vars => StartRecord \/ StopRecord \/ depth' = depth
    BY DEF Next, Engine, Client, vars, Call, CallUnformattable, Throw, ShowField, SkipFields,
           ListChilds, AskChild, Return, Catch, Unwind, ClientFormat, ExpandChild, ExpandRawData,
           Enter, SetFmtOpts, SetShowRawData
  <2>3. depth' # depth
    BY <2>1
  <2>4. ~StopRecord
    <3> SUFFICES ASSUME StopRecord PROVE FALSE
      OBVIOUS
    <3>1. Top.by \in RecFormatters /\ depth' = [depth EXCEPT ![Top.by] = @ - 1]
      BY <2>1, RecordHead DEF StopRecord, RecordOps
    <3>2. depth'[g] = depth[g] \/ depth'[g] = depth[g] - 1
      BY <2>1, <3>1
    <3>3. depth[g] \in Nat
      BY <2>1
    <3>4. QED
      BY <3>2, <3>3
  <2>5. StartRecord
    BY <2>2, <2>3, <2>4
  <2>6. /\ Next1("start") /\ depth' = [depth EXCEPT ![Top.by] = Deeper(@)]
        /\ num' = IF NeedsRefill(Top.by) THEN [num EXCEPT ![Top.by] = FieldBudget] ELSE num
    BY <2>5 DEF StartRecord
  <2>7. g = Top.by
    <3>1. depth \in [RecFormatters -> Nat] /\ depth[g] \in Nat
      BY <2>1
    <3>2. g # Top.by => depth'[g] = depth[g]
      BY <2>6, <3>1
    <3>3. QED
      BY <3>1, <3>2
  <2>8. ~Top.open /\ stack # <<>>
    BY <2>1, <2>6, RecordHead, HeadFacts DEF RecordOps
  <2>9. depth[g] = Cardinality(OpenAt(g, stack))
    <3>1. depth[g] = Cardinality(OpenAt(g, stack)) + lostStops[g]
      BY <2>1 DEF IInv, DepthBalanced
    <3>2. Cardinality(OpenAt(g, stack)) \in Nat
      BY <2>1, OpenIsNat
    <3>3. QED
      BY <3>1, <3>2
  <2>10. IsFiniteSet(OpenAt(g, stack))
    BY <2>1, AtFinite, OpenAtDef
  <2>11. OpenAt(g, stack) = {} <=> NeedsRefill(g)
    BY <2>9, <2>10, FS_EmptySet DEF NeedsRefill
  <2>12. CASE NeedsRefill(g)
    BY <2>1, <2>6, <2>7, <2>11, <2>12
  <2>13. CASE ~NeedsRefill(g)
    <3>1. PICK i \in 1 .. Len(stack) : stack[i].by = g /\ stack[i].open
      BY <2>11, <2>13 DEF OpenAt
    <3>2. i < Len(stack)
      <4>1. Len(stack) \in Nat /\ i # Len(stack)
        BY <2>1, <2>8, <3>1 DEF Top
      <4>2. QED
        BY <4>1
    <3>3. num[g] < FieldBudget
      BY <3>1, <3>2 DEF CountInv, Counted
    <3>4. num'[g] = num[g] /\ num[g] \in 0 .. FieldBudget
      BY <2>1, <2>6, <2>7, <2>13
    <3>5. QED
      BY <2>1, <2>11, <2>13, <3>3, <3>4
  <2>14. QED
    BY <2>12, <2>13
<1> HIDE DEF A
<1>3. Spec => [][A]_vars
  BY <1>1, <1>2, CountNext, PTL DEF Spec
<1>4. QED
  BY <1>3 DEF A, BudgetFresh
=============================================================================
