------------------------- MODULE Components_proofs -------------------------
(***************************************************************************)
(* TLAPS proofs about Components, for every protoc request: any number of  *)
(* messages, any fields, nesting, options and names.                       *)
(***************************************************************************)
EXTENDS Components, SequenceTheorems, FiniteSetTheorems, WellFoundedInduction, TLAPS

-----------------------------------------------------------------------------
(* Sequences as worklists *)

\* A non-empty worklist is its head and its tail.
LEMMA HeadTail ==
  ASSUME NEW S, NEW s \in Seq(S), s # <<>>
  PROVE  /\ Head(s) \in S
         /\ Tail(s) \in Seq(S)
         /\ Range(s) = {Head(s)} \cup Range(Tail(s))
<1>1. Len(s) \in Nat \ {0} /\ Head(s) = s[1]
  OBVIOUS
<1>2. Tail(s) \in Seq(S) /\ Len(Tail(s)) = Len(s) - 1
  BY <1>1
<1>3. \A i \in 1 .. Len(s) - 1 : Tail(s)[i] = s[i + 1]
  BY <1>1
<1>4. Range(s) = {s[i] : i \in 1 .. Len(s)}
  BY DEF Range
<1>5. Range(Tail(s)) = {s[i + 1] : i \in 1 .. Len(s) - 1}
  <2>1. Range(Tail(s)) = {Tail(s)[i] : i \in 1 .. Len(Tail(s))}
    BY <1>2, RangeEquality
  <2>. QED
    BY <1>2, <1>3, <2>1
<1>6. Range(s) \subseteq {Head(s)} \cup Range(Tail(s))
  <2>1. SUFFICES ASSUME NEW i \in 1 .. Len(s)
                 PROVE  s[i] \in {Head(s)} \cup Range(Tail(s))
    BY <1>4
  <2>2. CASE i = 1
    BY <2>2, <1>1
  <2>3. CASE i # 1
    <3>1. i - 1 \in 1 .. Len(s) - 1 /\ s[i] = s[(i - 1) + 1]
      BY <2>3, <1>1
    <3>. QED
      BY <3>1, <1>5
  <2>. QED
    BY <2>2, <2>3
<1>7. {Head(s)} \cup Range(Tail(s)) \subseteq Range(s)
  BY <1>1, <1>4, <1>5
<1>. QED
  BY <1>1, <1>2, <1>6, <1>7

\* The walk's worklist after a visit.
LEMMA Visit ==
  ASSUME NEW S, NEW s \in Seq(S), s # <<>>, NEW t \in Seq(S)
  PROVE  /\ t \o Tail(s) \in Seq(S)
         /\ Range(t \o Tail(s)) = Range(t) \cup Range(Tail(s))
<1>1. Tail(s) \in Seq(S)
  BY HeadTail
<1>. QED
  BY <1>1, RangeConcatenation, ConcatProperties

LEMMA VisitNothing ==
  ASSUME NEW S, NEW s \in Seq(S), s # <<>>
  PROVE  <<>> \o Tail(s) = Tail(s)
<1>1. Tail(s) \in Seq(S)
  BY HeadTail
<1>. QED
  BY <1>1

LEMMA AppendRange ==
  ASSUME NEW S, NEW s \in Seq(S), NEW x \in S
  PROVE  /\ Append(s, x) \in Seq(S)
         /\ Len(Append(s, x)) = Len(s) + 1
         /\ \A i \in 1 .. Len(s) : Append(s, x)[i] = s[i]
         /\ Append(s, x)[Len(s) + 1] = x
         /\ Range(Append(s, x)) = Range(s) \cup {x}
<1>1. /\ Append(s, x) \in Seq(S)
      /\ Len(Append(s, x)) = Len(s) + 1
      /\ \A i \in 1 .. Len(s) : Append(s, x)[i] = s[i]
      /\ Append(s, x)[Len(s) + 1] = x
  BY AppendProperties
<1>2. Range(Append(s, x)) = {Append(s, x)[i] : i \in 1 .. Len(s) + 1}
  BY <1>1, RangeEquality
<1>3. Range(s) = {s[i] : i \in 1 .. Len(s)}
  BY RangeEquality
<1>4. Len(s) \in Nat
  OBVIOUS
<1>5. 1 .. Len(s) + 1 = (1 .. Len(s)) \cup {Len(s) + 1}
  BY <1>4
<1>. QED
  BY <1>1, <1>2, <1>3, <1>5

LEMMA EmptyRange == Range(<<>>) = {}
BY DEF Range

\* What a sequence of fields points to, as FollowFields lists it.
LEMMA FieldTargets ==
  ASSUME NEW fields \in Seq(Field)
  PROVE  LET to == [i \in DOMAIN fields |-> fields[i].to]
         IN  to \in Seq(Messages) /\ Range(to) = {f.to : f \in Range(fields)}
<1> DEFINE to == [i \in DOMAIN fields |-> fields[i].to]
<1>1. DOMAIN fields = 1 .. Len(fields) /\ Len(fields) \in Nat
  OBVIOUS
<1>2. \A i \in 1 .. Len(fields) : fields[i] \in Field
  BY ElementOfSeq
<1>3. to \in [1 .. Len(fields) -> Messages]
  BY <1>1, <1>2 DEF Field
<1>4. to \in Seq(Messages)
  BY <1>1, <1>3, IsASeq
<1>5. Range(to) = {fields[i].to : i \in 1 .. Len(fields)}
  BY <1>1 DEF Range
<1>6. Range(fields) = {fields[i] : i \in 1 .. Len(fields)}
  BY RangeEquality
<1>. QED
  BY <1>4, <1>5, <1>6

\* What InputOK says of one message.
LEMMA MessageOptions ==
  ASSUME InputOK(in), NEW m \in Messages
  PROVE  /\ in.fields[m] \in Seq(Field)
         /\ in.nested[m] \in Seq(Messages)
         /\ in.omitted \subseteq Messages
         /\ Targets(m) \subseteq Messages
<1>1. in.fields[m] \in Seq(Field) /\ in.nested[m] \in Seq(Messages)
      /\ in.omitted \subseteq Messages
  BY DEF InputOK
<1>2. Range(in.fields[m]) \subseteq Field
  BY <1>1, RangeOfSeq
<1>. QED
  BY <1>1, <1>2 DEF Targets, Field

\* A $ref that a call begins with is written by hand.
LEMMA EnterRefsByHand ==
  ASSUME InputOK(in), NEW m \in Messages
  PROVE  EnterRefs(m) \subseteq [name: Names, to: {ByHand}]
<1>1. in.extra[m] \in Names \cup {NoName}
  BY DEF InputOK
<1>. QED
  BY <1>1 DEF EnterRefs

\* The messages of the operations, as pathsObject goes through them.
LEMMA OpMessages ==
  ASSUME InputOK(in)
  PROVE  /\ [i \in DOMAIN in.ops |-> in.ops[i].msg] \in Seq(Messages)
         /\ Len([i \in DOMAIN in.ops |-> in.ops[i].msg]) = Len(in.ops)
         /\ Len(in.ops) \in Nat
<1>1. in.ops \in Seq(Op)
  BY DEF InputOK
<1>2. Len(in.ops) \in Nat /\ DOMAIN in.ops = 1 .. Len(in.ops)
      /\ \A i \in 1 .. Len(in.ops) : in.ops[i] \in Op
  BY <1>1
<1>3. \A o \in Op : o.msg \in Messages
  BY DEF Op
<1>4. [i \in 1 .. Len(in.ops) |-> in.ops[i].msg] \in Seq(Messages)
  BY <1>2, <1>3
<1>. QED
  BY <1>2, <1>4

-----------------------------------------------------------------------------
(* The inductive invariant: collecting *)

LEMMA Initially == Init => ComponentsInv
<1>. SUFFICES ASSUME Init PROVE ComponentsInv
  OBVIOUS
<1>1. InputOK(in)
  BY ComponentsAssumption DEF Init
<1>2. Named = {} /\ Range(out) = {} /\ frames = <<>> /\ refs = {}
  BY EmptyRange DEF Init, Named
<1>3. todo \in Seq(Messages) /\ out = <<>> /\ phase = "collect" /\ pos = 1
  BY <1>1 DEF Init, InputOK
<1>4. NamesDistinct /\ NameInv
  BY <1>2, <1>3 DEF NamesDistinct, NameInv
<1>5. CollectInv
  BY <1>2, <1>3 DEF CollectInv
<1>6. RenderInv
  BY <1>2, <1>3 DEF RenderInv
<1>7. PosBound
  BY <1>3 DEF PosBound
<1>8. out \in Seq(Messages) /\ frames \in Seq(Frame)
  BY <1>2, <1>3
<1>. QED
  BY <1>1, <1>2, <1>3, <1>4, <1>5, <1>6, <1>7, <1>8 DEF ComponentsInv

LEMMA SkipMessageStep == ComponentsInv /\ SkipMessage => ComponentsInv'
<1>. SUFFICES ASSUME ComponentsInv, SkipMessage PROVE ComponentsInv'
  OBVIOUS
<1>1. phase = "collect" /\ todo # <<>> /\ todo' = Tail(todo)
      /\ Head(todo) \in in.omitted \cup Range(out)
      /\ todo \in Seq(Messages)
  BY VisitNothing DEF SkipMessage, Running, VisitThen, ComponentsInv
<1>2. UNCHANGED <<in, phase, out, pos, names, suffix, frames, refs, schemas>>
  BY DEF SkipMessage
<1>3. todo' \in Seq(Messages) /\ Range(todo) = {Head(todo)} \cup Range(todo')
  BY <1>1, HeadTail
<1>4. CollectInv'
  BY <1>1, <1>2, <1>3 DEF ComponentsInv, CollectInv, Pending, Targets
<1>5. NamesDistinct' /\ NameInv'
  BY <1>1, <1>2 DEF ComponentsInv, NamesDistinct, NameInv, Named
<1>6. RenderInv'
  BY <1>1, <1>2 DEF ComponentsInv, RenderInv, Named, Described, Targets
<1>. QED
  BY <1>2, <1>3, <1>4, <1>5, <1>6 DEF ComponentsInv, PosBound

LEMMA AppendMessageStep == ComponentsInv /\ AppendMessage => ComponentsInv'
<1>. SUFFICES ASSUME ComponentsInv, AppendMessage PROVE ComponentsInv'
  OBVIOUS
<1> DEFINE m == Head(todo)
<1>1. /\ phase = "collect" /\ todo # <<>> /\ todo \in Seq(Messages)
      /\ out \in Seq(Messages) /\ InputOK(in)
      /\ m \notin in.omitted \cup Range(out)
      /\ out' = Append(out, m) /\ todo' = in.nested[m] \o Tail(todo)
  BY DEF AppendMessage, Running, VisitThen, ComponentsInv
<1>2. UNCHANGED <<in, phase, pos, names, suffix, frames, refs, schemas>>
  BY DEF AppendMessage
<1>3. m \in Messages /\ Range(todo) = {m} \cup Range(Tail(todo))
  BY <1>1, HeadTail
<1>4. in.nested[m] \in Seq(Messages)
  BY <1>1, <1>3, MessageOptions
<1>5. /\ todo' \in Seq(Messages)
      /\ Range(todo') = Range(in.nested[m]) \cup Range(Tail(todo))
  BY <1>1, <1>4, Visit
<1>6. /\ out' \in Seq(Messages) /\ Len(out') = Len(out) + 1
      /\ \A i \in 1 .. Len(out) : out'[i] = out[i]
      /\ Range(out') = Range(out) \cup {m}
  BY <1>1, <1>3, AppendRange
<1>7. CollectInv'
  <2>1. Range(out)' \cap in.omitted' = {}
    BY <1>1, <1>2, <1>6 DEF ComponentsInv, CollectInv
  <2>2. Pending' = Range(todo') /\ Pending = Range(todo)
    BY <1>1, <1>2 DEF Pending
  <2>3. \A x \in Range(out') :
          Range(in.nested[x]) \ in.omitted \subseteq Range(out') \cup Pending'
    BY <2>2, <1>3, <1>5, <1>6 DEF ComponentsInv, CollectInv
  <2>4. ASSUME NEW i \in 1 .. Len(out'), i < pos
        PROVE  Targets(out'[i]) \ in.omitted \subseteq Range(out') \cup Pending'
    <3>1. CASE i \in 1 .. Len(out)
      <4>1. Targets(out[i]) \ in.omitted \subseteq Range(out) \cup Pending
        BY <3>1, <2>4 DEF ComponentsInv, CollectInv
      <4>2. out'[i] = out[i]
        BY <3>1, <1>6
      <4>. QED
        BY <4>1, <4>2, <2>2, <1>3, <1>5, <1>6
    <3>2. CASE i = Len(out) + 1
      BY <3>2, <2>4, <1>1, <1>6 DEF ComponentsInv, PosBound
    <3>. QED
      BY <3>1, <3>2, <1>6
  <2>. QED
    BY <2>1, <2>3, <2>4, <1>1, <1>2 DEF CollectInv, Targets
<1>8. NamesDistinct' /\ NameInv'
  BY <1>1, <1>2, <1>6 DEF ComponentsInv, NamesDistinct, NameInv, Named
<1>9. RenderInv'
  BY <1>1, <1>2 DEF ComponentsInv, RenderInv, Named, Described, Targets
<1>. QED
  BY <1>2, <1>5, <1>6, <1>7, <1>8, <1>9 DEF ComponentsInv, PosBound

LEMMA FollowFieldsStep == ComponentsInv /\ FollowFields => ComponentsInv'
<1>. SUFFICES ASSUME ComponentsInv, FollowFields PROVE ComponentsInv'
  OBVIOUS
<1> DEFINE fields == in.fields[out[pos]]
<1>1. /\ phase = "collect" /\ todo = <<>> /\ pos <= Len(out) /\ pos' = pos + 1
      /\ todo' = [i \in DOMAIN fields |-> fields[i].to]
      /\ UNCHANGED <<in, phase, out, names, suffix, frames, refs, schemas>>
  BY DEF FollowFields, Running
<1>2. pos \in 1 .. Len(out) /\ out \in Seq(Messages) /\ InputOK(in)
  BY <1>1 DEF ComponentsInv, PosBound
<1>3. out[pos] \in Messages
  BY <1>2, ElementOfSeq
<1>4. fields \in Seq(Field)
  BY <1>2, <1>3, MessageOptions
<1>5. todo' \in Seq(Messages) /\ Range(todo') = Targets(out[pos])
  BY <1>1, <1>4, FieldTargets DEF Targets
<1>6. Pending' = Targets(out[pos]) /\ Pending = {}
  BY <1>1, <1>5, EmptyRange DEF Pending
<1>7. CollectInv'
  <2>1. ASSUME NEW i \in 1 .. Len(out), i < pos + 1
        PROVE  Targets(out[i]) \ in.omitted \subseteq Range(out) \cup Pending'
    <3>1. CASE i < pos
      <4>1. Targets(out[i]) \ in.omitted \subseteq Range(out) \cup Pending
        BY <3>1 DEF ComponentsInv, CollectInv
      <4>. QED
        BY <4>1, <1>6
    <3>2. CASE i = pos
      BY <3>2, <1>6
    <3>. QED
      BY <3>1, <3>2, <2>1, <1>2
  <2>2. \A x \in Range(out) :
          Range(in.nested[x]) \ in.omitted \subseteq Range(out) \cup Pending'
    BY <1>6 DEF ComponentsInv, CollectInv
  <2>3. Range(out) \cap in.omitted = {}
    BY DEF ComponentsInv, CollectInv
  <2>. QED
    BY <2>1, <2>2, <2>3, <1>1 DEF CollectInv, Targets
<1>8. NamesDistinct' /\ NameInv'
  BY <1>1 DEF ComponentsInv, NamesDistinct, NameInv, Named
<1>9. RenderInv'
  BY <1>1 DEF ComponentsInv, RenderInv, Named, Described, Targets
<1>. QED
  BY <1>1, <1>2, <1>5, <1>7, <1>8, <1>9 DEF ComponentsInv, PosBound

LEMMA CollectedStep == ComponentsInv /\ Collected => ComponentsInv'
<1>. SUFFICES ASSUME ComponentsInv, Collected PROVE ComponentsInv'
  OBVIOUS
<1>1. /\ phase = "collect" /\ todo = <<>> /\ pos > Len(out) /\ phase' = "name"
      /\ todo' = out /\ frames = <<>>
      /\ UNCHANGED <<in, out, pos, names, suffix, frames, refs, schemas>>
  BY DEF Collected, Running
<1>2. Pending' = {} /\ Pending = {}
  BY <1>1, EmptyRange DEF Pending
<1>3. pos = Len(out) + 1 /\ out \in Seq(Messages)
  BY <1>1 DEF ComponentsInv, PosBound
<1>4. CollectInv'
  <2>1. \A i \in 1 .. Len(out) :
          Targets(out[i]) \ in.omitted \subseteq Range(out) \cup Pending
    BY <1>3 DEF ComponentsInv, CollectInv
  <2>. QED
    BY <2>1, <1>1, <1>2 DEF ComponentsInv, CollectInv, Targets
<1>5. NamesDistinct' /\ NameInv'
  BY <1>1 DEF ComponentsInv, NamesDistinct, NameInv, Named
<1>6. RenderInv'
  BY <1>1 DEF ComponentsInv, RenderInv, Named, Described, Targets
<1>. QED
  BY <1>1, <1>4, <1>5, <1>6 DEF ComponentsInv, PosBound

-----------------------------------------------------------------------------
(* The inductive invariant: naming *)

LEMMA NameSkipStep == ComponentsInv /\ NameSkip => ComponentsInv'
<1>. SUFFICES ASSUME ComponentsInv, NameSkip PROVE ComponentsInv'
  OBVIOUS
<1>1. /\ phase = "name" /\ todo # <<>> /\ todo' = Tail(todo)
      /\ Head(todo) \in in.omitted \cup Named /\ todo \in Seq(Messages)
      /\ UNCHANGED <<in, phase, out, pos, names, suffix, frames, refs, schemas>>
  BY VisitNothing DEF NameSkip, Running, VisitThen, ComponentsInv
<1>2. todo' \in Seq(Messages) /\ Range(todo) = {Head(todo)} \cup Range(todo')
  BY <1>1, HeadTail
<1>3. CollectInv'
  BY <1>1 DEF ComponentsInv, CollectInv, Pending, Targets
<1>4. NamesDistinct'
  BY <1>1 DEF ComponentsInv, NamesDistinct, Named
<1>5. NameInv'
  BY <1>1, <1>2 DEF ComponentsInv, NameInv, CollectInv, Named
<1>6. RenderInv'
  BY <1>1 DEF ComponentsInv, RenderInv, Named, Described, Targets
<1>. QED
  BY <1>1, <1>2, <1>3, <1>4, <1>5, <1>6 DEF ComponentsInv, PosBound

LEMMA NameTryStep == ComponentsInv /\ NameTry => ComponentsInv'
<1>. SUFFICES ASSUME ComponentsInv, NameTry PROVE ComponentsInv'
  OBVIOUS
<1>1. UNCHANGED <<in, phase, todo, out, pos, names, frames, refs, schemas>>
  BY DEF NameTry
<1>. QED
  BY <1>1 DEF ComponentsInv, PosBound, NamesDistinct, CollectInv, NameInv,
              RenderInv, Pending, Named, Described, Targets

\* The candidate is new, so the names stay distinct; the messages of the walk
\* that are not named yet are still on it.
LEMMA NameTakeStep == ComponentsInv /\ NameTake => ComponentsInv'
<1>. SUFFICES ASSUME ComponentsInv, NameTake PROVE ComponentsInv'
  OBVIOUS
<1> DEFINE m == Head(todo)
<1>1. /\ phase = "name" /\ todo # <<>> /\ todo \in Seq(Messages)
      /\ m \notin in.omitted \cup Named /\ Candidate(m) \notin Used
      /\ names' = [x \in Named \cup {m} |->
                     IF x = m THEN Candidate(x) ELSE names[x]]
      /\ todo' = in.nested[m] \o Tail(todo)
      /\ UNCHANGED <<in, phase, out, pos, frames, refs, schemas>>
  BY DEF NameTake, Running, VisitThen, Unnamed, ComponentsInv
<1>2. m \in Messages /\ Range(todo) = {m} \cup Range(Tail(todo))
  BY <1>1, HeadTail
<1>3. in.nested[m] \in Seq(Messages)
  BY <1>2, MessageOptions DEF ComponentsInv
<1>4. /\ todo' \in Seq(Messages)
      /\ Range(todo') = Range(in.nested[m]) \cup Range(Tail(todo))
  BY <1>1, <1>3, Visit
<1>5. /\ Named' = Named \cup {m} /\ names'[m] = Candidate(m)
      /\ \A x \in Named : names'[x] = names[x]
  BY <1>1 DEF Named
<1>6. CollectInv'
  BY <1>1 DEF ComponentsInv, CollectInv, Pending, Targets
<1>7. NamesDistinct'
  BY <1>1, <1>5 DEF ComponentsInv, NamesDistinct, Used
<1>8. m \in Range(out)
  BY <1>1, <1>2 DEF ComponentsInv, NameInv
<1>9. NameInv'
  <2>1. Range(in.nested[m]) \ in.omitted \subseteq Range(out)
    BY <1>1, <1>8 DEF ComponentsInv, CollectInv, Pending
  <2>. QED
    BY <2>1, <1>1, <1>2, <1>4, <1>5, <1>8 DEF ComponentsInv, NameInv
<1>10. RenderInv'
  BY <1>1, <1>5 DEF ComponentsInv, RenderInv, Described, Targets
<1>. QED
  BY <1>1, <1>4, <1>6, <1>7, <1>9, <1>10 DEF ComponentsInv, PosBound

LEMMA NamesDoneStep == ComponentsInv /\ NamesDone => ComponentsInv'
<1>. SUFFICES ASSUME ComponentsInv, NamesDone PROVE ComponentsInv'
  OBVIOUS
<1>1. /\ phase = "name" /\ todo = <<>> /\ phase' = "paths"
      /\ todo' = [i \in DOMAIN in.ops |-> in.ops[i].msg] /\ frames = <<>>
      /\ UNCHANGED <<in, out, pos, names, suffix, frames, refs, schemas>>
  BY DEF NamesDone, Running
<1>2. todo' \in Seq(Messages)
  BY <1>1, OpMessages DEF ComponentsInv
<1>3. CollectInv'
  BY <1>1 DEF ComponentsInv, CollectInv, Pending, Targets
<1>4. NamesDistinct' /\ NameInv'
  BY <1>1, EmptyRange DEF ComponentsInv, NamesDistinct, NameInv, Named
<1>5. RenderInv'
  BY <1>1 DEF ComponentsInv, RenderInv, Named, Described, Targets
<1>. QED
  BY <1>1, <1>2, <1>3, <1>4, <1>5 DEF ComponentsInv, PosBound

-----------------------------------------------------------------------------
(* The inductive invariant: rendering *)

\* The call on top of the stack, and the stack once its next field is done.
LEMMA TopFrame ==
  ASSUME frames \in Seq(Frame), frames # <<>>, Top.left # <<>>
  PROVE  /\ Len(frames) \in 1 .. Len(frames)
         /\ Top \in Frame
         /\ Head(Top.left) \in Range(Top.left) /\ Head(Top.left) \in Field
         /\ TopNext \in Seq(Frame) /\ Len(TopNext) = Len(frames)
         /\ \A k \in 1 .. Len(frames) :
              /\ TopNext[k].msg = frames[k].msg
              /\ Range(TopNext[k].left) \subseteq Range(frames[k].left)
<1> DEFINE n == Len(frames)
<1>1. n \in Nat \ {0} /\ n \in 1 .. n /\ DOMAIN frames = 1 .. n
  OBVIOUS
<1>2. Top \in Frame
  BY <1>1, ElementOfSeq DEF Top
<1>3. Top.left \in Seq(Field) /\ Top.msg \in Messages
  BY <1>2 DEF Frame
<1>4. /\ Head(Top.left) \in Field /\ Tail(Top.left) \in Seq(Field)
      /\ Range(Top.left) = {Head(Top.left)} \cup Range(Tail(Top.left))
  BY <1>3, HeadTail
<1>5. [Top EXCEPT !.left = Tail(@)] \in Frame
  BY <1>2, <1>4 DEF Frame
<1>6. TopNext = [frames EXCEPT ![n] = [Top EXCEPT !.left = Tail(@)]]
  BY <1>1 DEF TopNext, Top
<1>7. TopNext \in Seq(Frame) /\ Len(TopNext) = n
  BY <1>1, <1>5, <1>6, ExceptSeq
<1>8. ASSUME NEW k \in 1 .. n
      PROVE  /\ TopNext[k].msg = frames[k].msg
             /\ Range(TopNext[k].left) \subseteq Range(frames[k].left)
  <2>1. CASE k = n
    <3>1. TopNext[k] = [Top EXCEPT !.left = Tail(@)] /\ frames[k] = Top
      BY <2>1, <1>1, <1>6 DEF Top
    <3>2. TopNext[k].msg = Top.msg /\ TopNext[k].left = Tail(Top.left)
      BY <3>1, <1>2 DEF Frame
    <3>. QED
      BY <3>1, <3>2, <1>4
  <2>2. CASE k # n
    BY <2>2, <1>1, <1>6
  <2>. QED
    BY <2>1, <2>2
<1>. QED
  BY <1>1, <1>2, <1>4, <1>7, <1>8

\* A step that only finishes a field of the call on top.
LEMMA TopNextStep ==
  ASSUME ComponentsInv, AtField, frames' = TopNext,
         \A r \in refs' : r.to # ByHand => r.to \in Named /\ r.name = names[r.to],
         UNCHANGED <<in, phase, todo, out, pos, names, suffix, schemas>>
  PROVE  ComponentsInv'
<1>1. frames \in Seq(Frame) /\ frames # <<>> /\ Top.left # <<>>
      /\ phase \in {"paths", "emit"}
  BY DEF ComponentsInv, AtField
<1>2. /\ frames' \in Seq(Frame) /\ Len(frames') = Len(frames)
      /\ \A k \in 1 .. Len(frames) :
           /\ frames'[k].msg = frames[k].msg
           /\ Range(frames'[k].left) \subseteq Range(frames[k].left)
      /\ Len(frames) \in Nat \ {0}
  <2>1. /\ TopNext \in Seq(Frame) /\ Len(TopNext) = Len(frames)
        /\ \A k \in 1 .. Len(frames) :
             /\ TopNext[k].msg = frames[k].msg
             /\ Range(TopNext[k].left) \subseteq Range(frames[k].left)
    BY <1>1, TopFrame
  <2>2. Len(frames) \in Nat \ {0}
    BY <1>1
  <2>. QED
    BY <2>1, <2>2
<1>3. CollectInv'
  BY DEF ComponentsInv, CollectInv, Pending, Targets
<1>4. NamesDistinct' /\ NameInv'
  BY DEF ComponentsInv, NamesDistinct, NameInv, Named
<1>5. \A k \in 1 .. Len(frames') :
        {f.to : f \in Range(frames'[k].left)} \subseteq Targets(frames'[k].msg)
  <2>1. SUFFICES ASSUME NEW k \in 1 .. Len(frames)
                 PROVE  {f.to : f \in Range(frames'[k].left)}
                          \subseteq Targets(frames[k].msg)
    BY <1>2
  <2>2. {f.to : f \in Range(frames[k].left)} \subseteq Targets(frames[k].msg)
    BY DEF ComponentsInv, RenderInv
  <2>3. Range(frames'[k].left) \subseteq Range(frames[k].left)
    BY <1>2
  <2>. QED
    BY <2>2, <2>3
<1>6. Len(frames') > 1 => frames'[2].msg \in Targets(frames'[1].msg) \ Named
  BY <1>2 DEF ComponentsInv, RenderInv
<1>7. phase = "emit" =>
        todo # <<>> /\ frames'[1].msg = Head(todo) /\ Head(todo) \in Named
  BY <1>1, <1>2 DEF ComponentsInv, RenderInv
<1>8. RenderInv'
  BY <1>1, <1>5, <1>6, <1>7
     DEF ComponentsInv, RenderInv, Named, Described, Targets
<1>. QED
  BY <1>2, <1>3, <1>4, <1>8 DEF ComponentsInv, PosBound

LEMMA FieldSkipStep == ComponentsInv /\ FieldSkip => ComponentsInv'
<1>. SUFFICES ASSUME ComponentsInv, FieldSkip PROVE ComponentsInv'
  OBVIOUS
<1>1. \A r \in refs' : r.to # ByHand => r.to \in Named /\ r.name = names[r.to]
  BY DEF FieldSkip, ComponentsInv, RenderInv
<1>. QED
  BY <1>1, TopNextStep DEF FieldSkip

LEMMA FieldRefStep == ComponentsInv /\ FieldRef => ComponentsInv'
<1>. SUFFICES ASSUME ComponentsInv, FieldRef PROVE ComponentsInv'
  OBVIOUS
<1>1. Shown \in Named /\ refs' = refs \cup {Ref(Shown)}
  BY DEF FieldRef
<1>2. \A r \in refs' : r.to # ByHand => r.to \in Named /\ r.name = names[r.to]
  BY <1>1 DEF ComponentsInv, RenderInv, Ref
<1>. QED
  BY <1>2, TopNextStep DEF FieldRef

LEMMA OverflowStep == ComponentsInv /\ Overflow => ComponentsInv'
<1>. SUFFICES ASSUME ComponentsInv, Overflow PROVE ComponentsInv'
  OBVIOUS
<1>1. /\ phase \in {"paths", "emit"} /\ phase' = "overflow"
      /\ UNCHANGED <<in, todo, out, pos, names, suffix, frames, refs, schemas>>
  BY DEF Overflow, AtField
<1>2. CollectInv'
  BY <1>1 DEF ComponentsInv, CollectInv, Pending, Targets
<1>3. NamesDistinct' /\ NameInv'
  BY <1>1 DEF ComponentsInv, NamesDistinct, NameInv, Named
<1>4. RenderInv'
  BY <1>1 DEF ComponentsInv, RenderInv, Named, Described, Targets
<1>. QED
  BY <1>1, <1>2, <1>3, <1>4 DEF ComponentsInv, PosBound

LEMMA FieldInlineStep == ComponentsInv /\ FieldInline => ComponentsInv'
<1>. SUFFICES ASSUME ComponentsInv, FieldInline PROVE ComponentsInv'
  OBVIOUS
<1> DEFINE n == Len(frames)
<1>1. /\ frames \in Seq(Frame) /\ frames # <<>> /\ Top.left # <<>>
      /\ phase \in {"paths", "emit"} /\ Shown \notin Named
      /\ frames' = Append(TopNext, Enter(Shown))
      /\ refs' = refs \cup EnterRefs(Shown)
      /\ UNCHANGED <<in, phase, todo, out, pos, names, suffix, schemas>>
  BY DEF ComponentsInv, FieldInline, AtField
<1>2. /\ n \in 1 .. n /\ n \in Nat /\ Top \in Frame
      /\ Head(Top.left) \in Range(Top.left) /\ Head(Top.left) \in Field
      /\ TopNext \in Seq(Frame) /\ Len(TopNext) = n
      /\ \A k \in 1 .. n :
           /\ TopNext[k].msg = frames[k].msg
           /\ Range(TopNext[k].left) \subseteq Range(frames[k].left)
  <2>1. n \in Nat
    BY <1>1
  <2>. QED
    BY <2>1, <1>1, TopFrame
<1>3. Shown \in Messages
  BY <1>2 DEF Shown, Field
<1>4. Enter(Shown) \in Frame
  BY <1>3, MessageOptions DEF Enter, Frame, ComponentsInv
<1>5. /\ frames' \in Seq(Frame) /\ Len(frames') = n + 1
      /\ \A k \in 1 .. n : frames'[k] = TopNext[k]
      /\ frames'[n + 1] = Enter(Shown)
  BY <1>1, <1>2, <1>4, AppendProperties
<1>6. Shown \in Targets(Top.msg)
  <2>1. {f.to : f \in Range(Top.left)} \subseteq Targets(Top.msg)
    BY <1>2 DEF ComponentsInv, RenderInv, Top
  <2>. QED
    BY <2>1, <1>2 DEF Shown
<1>7. CollectInv'
  BY <1>1 DEF ComponentsInv, CollectInv, Pending, Targets
<1>8. NamesDistinct' /\ NameInv'
  BY <1>1 DEF ComponentsInv, NamesDistinct, NameInv, Named
<1>9. ASSUME NEW k \in 1 .. n + 1
      PROVE  {f.to : f \in Range(frames'[k].left)} \subseteq Targets(frames'[k].msg)
  <2>1. CASE k \in 1 .. n
    <3>1. {f.to : f \in Range(frames[k].left)} \subseteq Targets(frames[k].msg)
      BY <2>1 DEF ComponentsInv, RenderInv
    <3>2. /\ frames'[k].msg = frames[k].msg
          /\ Range(frames'[k].left) \subseteq Range(frames[k].left)
      BY <2>1, <1>2, <1>5
    <3>. QED
      BY <3>1, <3>2
  <2>2. CASE k = n + 1
    BY <2>2, <1>5 DEF Enter, Targets
  <2>. QED
    BY <2>1, <2>2, <1>2
<1>10. n + 1 > 1 => frames'[2].msg \in Targets(frames'[1].msg) \ Named
  <2>1. frames'[1].msg = frames[1].msg
    BY <1>2, <1>5
  <2>2. CASE n = 1
    <3>1. frames'[2].msg = Shown /\ Top = frames[1]
      BY <2>2, <1>5 DEF Enter, Top
    <3>. QED
      BY <3>1, <2>1, <1>1, <1>6
  <2>3. CASE n > 1
    <3>1. frames'[2].msg = frames[2].msg
      BY <2>3, <1>2, <1>5
    <3>. QED
      BY <3>1, <2>1, <2>3 DEF ComponentsInv, RenderInv
  <2>. QED
    BY <2>2, <2>3, <1>2
<1>11. phase = "emit" =>
         todo # <<>> /\ frames'[1].msg = Head(todo) /\ Head(todo) \in Named
  BY <1>1, <1>2, <1>5 DEF ComponentsInv, RenderInv
<1>13. \A r \in refs' : r.to # ByHand => r.to \in Named /\ r.name = names[r.to]
  BY <1>1, <1>3, EnterRefsByHand DEF ComponentsInv, RenderInv
<1>12. RenderInv'
  BY <1>1, <1>5, <1>9, <1>10, <1>11, <1>13
     DEF ComponentsInv, RenderInv, Named, Described, Targets
<1>. QED
  BY <1>1, <1>5, <1>7, <1>8, <1>12 DEF ComponentsInv, PosBound

\* Returning from a call leaves the calls below it as they were.
LEMMA InlineDoneStep == ComponentsInv /\ InlineDone => ComponentsInv'
<1>. SUFFICES ASSUME ComponentsInv, InlineDone PROVE ComponentsInv'
  OBVIOUS
<1> DEFINE n == Len(frames)
<1>1. /\ frames \in Seq(Frame) /\ n > 1 /\ phase \in {"paths", "emit"}
      /\ frames' = SubSeq(frames, 1, n - 1)
      /\ UNCHANGED <<in, phase, todo, out, pos, names, suffix, refs, schemas>>
  BY DEF ComponentsInv, InlineDone, Front
<1>2. n \in Nat
  BY <1>1
<1>3. /\ frames' \in Seq(Frame) /\ Len(frames') = n - 1
      /\ \A k \in 1 .. n - 1 : frames'[k] = frames[k]
  BY <1>1, <1>2, SubSeqProperties
<1>4. CollectInv'
  BY <1>1 DEF ComponentsInv, CollectInv, Pending, Targets
<1>5. NamesDistinct' /\ NameInv'
  BY <1>1 DEF ComponentsInv, NamesDistinct, NameInv, Named
<1>6. \A k \in 1 .. Len(frames') :
        {f.to : f \in Range(frames'[k].left)} \subseteq Targets(frames'[k].msg)
  <2>1. ASSUME NEW k \in 1 .. n - 1
        PROVE  {f.to : f \in Range(frames[k].left)}
                 \subseteq Targets(frames[k].msg)
    <3>1. k \in 1 .. Len(frames)
      BY <1>2
    <3>. QED
      BY <3>1 DEF ComponentsInv, RenderInv
  <2>. QED
    BY <2>1, <1>3
<1>7. Len(frames') > 1 => frames'[2].msg \in Targets(frames'[1].msg) \ Named
  BY <1>1, <1>2, <1>3 DEF ComponentsInv, RenderInv
<1>8. /\ todo # <<>>
      /\ phase = "emit" =>
           frames'[1].msg = Head(todo) /\ Head(todo) \in Named
  <2>1. frames # <<>> /\ frames'[1] = frames[1]
    BY <1>1, <1>2, <1>3
  <2>. QED
    BY <2>1 DEF ComponentsInv, RenderInv
<1>9. RenderInv'
  BY <1>1, <1>6, <1>7, <1>8
     DEF ComponentsInv, RenderInv, Named, Described, Targets
<1>. QED
  BY <1>1, <1>3, <1>4, <1>5, <1>9 DEF ComponentsInv, PosBound

\* A stack of one call.
LEMMA OneFrame ==
  ASSUME InputOK(in), NEW m \in Messages
  PROVE  /\ <<Enter(m)>> \in Seq(Frame) /\ Len(<<Enter(m)>>) = 1
         /\ {f.to : f \in Range(Enter(m).left)} \subseteq Targets(m)
         /\ Enter(m).msg = m
<1>1. Enter(m) \in Frame
  BY MessageOptions DEF Enter, Frame
<1>. QED
  BY <1>1 DEF Enter, Targets

-----------------------------------------------------------------------------
(* The inductive invariant: the operations *)

LEMMA PathWrittenStep == ComponentsInv /\ PathWritten => ComponentsInv'
<1>. SUFFICES ASSUME ComponentsInv, PathWritten PROVE ComponentsInv'
  OBVIOUS
<1>1. /\ phase = "paths" /\ todo # <<>> /\ todo' = Tail(todo)
      /\ todo \in Seq(Messages) /\ frames = <<>>
      /\ refs' = refs \cup {[name |-> AtOp.ref, to |-> ByHand]}
      /\ UNCHANGED <<in, phase, out, pos, names, suffix, frames, schemas>>
  BY VisitNothing DEF PathWritten, Running, VisitThen, ComponentsInv
<1>2. todo' \in Seq(Messages)
  BY <1>1, HeadTail
<1>3. CollectInv'
  BY <1>1 DEF ComponentsInv, CollectInv, Pending, Targets
<1>4. NamesDistinct' /\ NameInv'
  BY <1>1 DEF ComponentsInv, NamesDistinct, NameInv, Named
<1>5. \A r \in refs' : r.to # ByHand => r.to \in Named /\ r.name = names[r.to]
  BY <1>1 DEF ComponentsInv, RenderInv
<1>6. RenderInv'
  BY <1>1, <1>5 DEF ComponentsInv, RenderInv, Named, Described, Targets
<1>. QED
  BY <1>1, <1>2, <1>3, <1>4, <1>6 DEF ComponentsInv, PosBound

LEMMA PathRefStep == ComponentsInv /\ PathRef => ComponentsInv'
<1>. SUFFICES ASSUME ComponentsInv, PathRef PROVE ComponentsInv'
  OBVIOUS
<1>1. /\ phase = "paths" /\ todo # <<>> /\ todo' = Tail(todo)
      /\ todo \in Seq(Messages) /\ Head(todo) \in Named
      /\ refs' = refs \cup {Ref(Head(todo))} /\ frames = <<>>
      /\ UNCHANGED <<in, phase, out, pos, names, suffix, frames, schemas>>
  BY VisitNothing DEF PathRef, Running, VisitThen, ComponentsInv
<1>2. todo' \in Seq(Messages)
  BY <1>1, HeadTail
<1>3. CollectInv'
  BY <1>1 DEF ComponentsInv, CollectInv, Pending, Targets
<1>4. NamesDistinct' /\ NameInv'
  BY <1>1 DEF ComponentsInv, NamesDistinct, NameInv, Named
<1>5. \A r \in refs' : r.to # ByHand => r.to \in Named /\ r.name = names[r.to]
  BY <1>1 DEF ComponentsInv, RenderInv, Ref
<1>6. RenderInv'
  BY <1>1, <1>5 DEF ComponentsInv, RenderInv, Named, Described, Targets
<1>. QED
  BY <1>1, <1>2, <1>3, <1>4, <1>6 DEF ComponentsInv, PosBound

LEMMA PathInlineStep == ComponentsInv /\ PathInline => ComponentsInv'
<1>. SUFFICES ASSUME ComponentsInv, PathInline PROVE ComponentsInv'
  OBVIOUS
<1>1. /\ phase = "paths" /\ todo # <<>> /\ todo \in Seq(Messages)
      /\ frames' = <<Enter(Head(todo))>> /\ InputOK(in)
      /\ refs' = refs \cup EnterRefs(Head(todo))
      /\ UNCHANGED <<in, phase, todo, out, pos, names, suffix, schemas>>
  BY DEF PathInline, Running, ComponentsInv
<1>2. Head(todo) \in Messages
  BY <1>1, HeadTail
<1>3. /\ frames' \in Seq(Frame) /\ Len(frames') = 1
      /\ frames'[1] = Enter(Head(todo)) /\ frames'[1].msg = Head(todo)
      /\ {f.to : f \in Range(frames'[1].left)} \subseteq Targets(frames'[1].msg)
  BY <1>1, <1>2, OneFrame
<1>4. CollectInv'
  BY <1>1 DEF ComponentsInv, CollectInv, Pending, Targets
<1>5. NamesDistinct' /\ NameInv'
  BY <1>1 DEF ComponentsInv, NamesDistinct, NameInv, Named
<1>6. \A k \in 1 .. Len(frames') :
        {f.to : f \in Range(frames'[k].left)} \subseteq Targets(frames'[k].msg)
  BY <1>3
<1>7. RenderInv'
  <2>1. /\ \A r \in refs' : r.to # ByHand => r.to \in Named' /\ r.name = names'[r.to]
        /\ phase' \notin {"collect", "name", "emit", "done"}
    BY <1>1, <1>2, EnterRefsByHand DEF ComponentsInv, RenderInv, Named
  <2>2. ~(Len(frames') > 1) /\ todo' # <<>>
    BY <1>1, <1>3
  <2>. QED
    BY <2>1, <2>2, <1>1, <1>6 DEF RenderInv, Targets
<1>. QED
  BY <1>1, <1>3, <1>4, <1>5, <1>7 DEF ComponentsInv, PosBound

LEMMA PathInlineDoneStep == ComponentsInv /\ PathInlineDone => ComponentsInv'
<1>. SUFFICES ASSUME ComponentsInv, PathInlineDone PROVE ComponentsInv'
  OBVIOUS
<1>1. /\ phase = "paths" /\ frames' = <<>> /\ todo' = <<>> \o Tail(todo)
      /\ todo # <<>> /\ todo \in Seq(Messages)
      /\ UNCHANGED <<in, phase, out, pos, names, suffix, refs, schemas>>
  <2>1. frames # <<>>
    BY DEF PathInlineDone
  <2>. QED
    BY <2>1 DEF PathInlineDone, VisitThen, ComponentsInv, RenderInv
<1>2. todo' \in Seq(Messages)
  BY <1>1, HeadTail, VisitNothing
<1>3. CollectInv'
  BY <1>1 DEF ComponentsInv, CollectInv, Pending, Targets
<1>4. NamesDistinct' /\ NameInv'
  BY <1>1 DEF ComponentsInv, NamesDistinct, NameInv, Named
<1>5. frames' \in Seq(Frame) /\ Len(frames') = 0
  BY <1>1
<1>6. RenderInv'
  BY <1>1, <1>5 DEF ComponentsInv, RenderInv, Named, Described, Targets
<1>. QED
  BY <1>1, <1>2, <1>3, <1>4, <1>5, <1>6 DEF ComponentsInv, PosBound

LEMMA PathsDoneStep == ComponentsInv /\ PathsDone => ComponentsInv'
<1>. SUFFICES ASSUME ComponentsInv, PathsDone PROVE ComponentsInv'
  OBVIOUS
<1>1. /\ phase = "paths" /\ todo = <<>> /\ phase' = "emit" /\ todo' = out
      /\ frames = <<>>
      /\ UNCHANGED <<in, out, pos, names, suffix, frames, refs, schemas>>
  BY DEF PathsDone, Running
<1>2. CollectInv'
  BY <1>1 DEF ComponentsInv, CollectInv, Pending, Targets
<1>3. NamesDistinct' /\ NameInv'
  BY <1>1 DEF ComponentsInv, NamesDistinct, NameInv, Named
<1>4. RenderInv'
  BY <1>1 DEF ComponentsInv, RenderInv, Named, Described, Targets
<1>. QED
  BY <1>1, <1>2, <1>3, <1>4 DEF ComponentsInv, PosBound

-----------------------------------------------------------------------------
(* The inductive invariant: the schemas *)

LEMMA EmitSkipStep == ComponentsInv /\ EmitSkip => ComponentsInv'
<1>. SUFFICES ASSUME ComponentsInv, EmitSkip PROVE ComponentsInv'
  OBVIOUS
<1>1. /\ phase = "emit" /\ frames = <<>> /\ todo # <<>> /\ todo' = Tail(todo)
      /\ todo \in Seq(Messages) /\ Head(todo) \in in.omitted
      /\ UNCHANGED <<in, phase, out, pos, names, suffix, frames, refs, schemas>>
  BY VisitNothing DEF EmitSkip, Running, VisitThen, ComponentsInv
<1>2. todo' \in Seq(Messages) /\ Range(todo) = {Head(todo)} \cup Range(todo')
  BY <1>1, HeadTail
<1>3. CollectInv'
  BY <1>1 DEF ComponentsInv, CollectInv, Pending, Targets
<1>4. NamesDistinct' /\ NameInv'
  BY <1>1, <1>2 DEF ComponentsInv, NamesDistinct, NameInv, Named
<1>5. \A m \in Range(out) : Described(m) \/ m \in Range(todo')
  BY <1>1, <1>2 DEF ComponentsInv, RenderInv, CollectInv
<1>6. RenderInv'
  BY <1>1, <1>5 DEF ComponentsInv, RenderInv, Named, Described, Targets
<1>. QED
  BY <1>1, <1>2, <1>3, <1>4, <1>6 DEF ComponentsInv, PosBound

LEMMA EmitBeginStep == ComponentsInv /\ EmitBegin => ComponentsInv'
<1>. SUFFICES ASSUME ComponentsInv, EmitBegin PROVE ComponentsInv'
  OBVIOUS
<1>1. /\ phase = "emit" /\ todo # <<>> /\ todo \in Seq(Messages)
      /\ frames' = <<Enter(Head(todo))>> /\ InputOK(in) /\ Head(todo) \in Named
      /\ refs' = refs \cup EnterRefs(Head(todo))
      /\ UNCHANGED <<in, phase, todo, out, pos, names, suffix, schemas>>
  BY DEF EmitBegin, Running, ComponentsInv
<1>2. Head(todo) \in Messages
  BY <1>1, HeadTail
<1>3. /\ frames' \in Seq(Frame) /\ Len(frames') = 1
      /\ frames'[1] = Enter(Head(todo)) /\ frames'[1].msg = Head(todo)
      /\ {f.to : f \in Range(frames'[1].left)} \subseteq Targets(frames'[1].msg)
  BY <1>1, <1>2, OneFrame
<1>4. CollectInv'
  BY <1>1 DEF ComponentsInv, CollectInv, Pending, Targets
<1>5. NamesDistinct' /\ NameInv'
  BY <1>1 DEF ComponentsInv, NamesDistinct, NameInv, Named
<1>6. \A k \in 1 .. Len(frames') :
        {f.to : f \in Range(frames'[k].left)} \subseteq Targets(frames'[k].msg)
  BY <1>3
<1>7. RenderInv'
  <2>1. /\ \A r \in refs' : r.to # ByHand => r.to \in Named' /\ r.name = names'[r.to]
        /\ phase' = "emit"
        /\ \A m \in Range(out') : Described(m)' \/ m \in Range(todo')
    BY <1>1, <1>2, EnterRefsByHand DEF ComponentsInv, RenderInv, Named, Described
  <2>2. ~(Len(frames') > 1) /\ todo' # <<>> /\ Named' = Named
    BY <1>1, <1>3 DEF Named
  <2>. QED
    BY <2>1, <2>2, <1>1, <1>3, <1>6 DEF RenderInv, Targets
<1>. QED
  BY <1>1, <1>3, <1>4, <1>5, <1>7 DEF ComponentsInv, PosBound

\* The schema written under a message's name is that message's, and because
\* the names are distinct it replaces no other message's schema.
LEMMA EmitDoneStep == ComponentsInv /\ EmitDone => ComponentsInv'
<1>. SUFFICES ASSUME ComponentsInv, EmitDone PROVE ComponentsInv'
  OBVIOUS
<1> DEFINE m == Top.msg
<1>1. /\ phase = "emit" /\ Len(frames) = 1 /\ frames' = <<>>
      /\ schemas' = [n \in DOMAIN schemas \cup {names[m]} |->
                       IF n = names[m] THEN m ELSE schemas[n]]
      /\ todo' = in.nested[m] \o Tail(todo)
      /\ UNCHANGED <<in, phase, out, pos, names, suffix, refs>>
  BY DEF EmitDone, VisitThen
<1>2. frames # <<>>
  BY <1>1
<1>3. /\ todo # <<>> /\ todo \in Seq(Messages)
      /\ m = Head(todo) /\ m \in Named
  BY <1>1, <1>2 DEF ComponentsInv, RenderInv, Top
<1>4. m \in Messages /\ Range(todo) = {m} \cup Range(Tail(todo))
  BY <1>3, HeadTail
<1>5. in.nested[m] \in Seq(Messages)
  BY <1>4, MessageOptions DEF ComponentsInv
<1>6. /\ todo' \in Seq(Messages)
      /\ Range(todo') = Range(in.nested[m]) \cup Range(Tail(todo))
  BY <1>1, <1>3, <1>5, Visit
<1>7. CollectInv'
  BY <1>1 DEF ComponentsInv, CollectInv, Pending, Targets
<1>8. m \in Range(out)
  BY <1>3 DEF ComponentsInv, NameInv
<1>9. NamesDistinct' /\ NameInv'
  <2>1. Range(in.nested[m]) \ in.omitted \subseteq Range(out)
    BY <1>1, <1>8 DEF ComponentsInv, CollectInv, Pending
  <2>2. Range(todo') \ in.omitted \subseteq Range(out)
    BY <2>1, <1>1, <1>4, <1>6 DEF ComponentsInv, NameInv
  <2>. QED
    BY <2>2, <1>1 DEF ComponentsInv, NamesDistinct, NameInv, Named
<1>10. ASSUME NEW x \in Range(out)
       PROVE  Described(x)' \/ x \in Range(todo')
  <2>1. x \in Named
    BY <1>1 DEF ComponentsInv, NameInv
  <2>2. CASE x = m
    BY <2>2, <1>1 DEF Described
  <2>3. CASE x # m
    <3>1. names[x] # names[m]
      BY <2>1, <2>3, <1>3 DEF ComponentsInv, NamesDistinct
    <3>2. Described(x) \/ x \in Range(todo)
      BY <1>1 DEF ComponentsInv, RenderInv
    <3>3. CASE Described(x)
      BY <3>1, <3>3, <1>1 DEF Described
    <3>4. CASE x \in Range(todo)
      BY <3>4, <2>3, <1>4, <1>6
    <3>. QED
      BY <3>2, <3>3, <3>4
  <2>. QED
    BY <2>2, <2>3
<1>11. frames' \in Seq(Frame) /\ Len(frames') = 0
  BY <1>1
<1>12. RenderInv'
  BY <1>1, <1>10, <1>11 DEF ComponentsInv, RenderInv, Named, Targets
<1>. QED
  BY <1>1, <1>6, <1>7, <1>9, <1>11, <1>12 DEF ComponentsInv, PosBound

LEMMA EmittedStep == ComponentsInv /\ Emitted => ComponentsInv'
<1>. SUFFICES ASSUME ComponentsInv, Emitted PROVE ComponentsInv'
  OBVIOUS
<1>1. /\ phase = "emit" /\ todo = <<>> /\ frames = <<>> /\ phase' = "done"
      /\ UNCHANGED <<in, todo, out, pos, names, suffix, frames, refs, schemas>>
  BY DEF Emitted, Running
<1>2. CollectInv'
  BY <1>1 DEF ComponentsInv, CollectInv, Pending, Targets
<1>3. NamesDistinct' /\ NameInv'
  BY <1>1 DEF ComponentsInv, NamesDistinct, NameInv, Named
<1>4. RenderInv'
  BY <1>1 DEF ComponentsInv, RenderInv, Named, Described, Targets
<1>. QED
  BY <1>1, <1>2, <1>3, <1>4 DEF ComponentsInv, PosBound

LEMMA Stuttering == ComponentsInv /\ UNCHANGED vars => ComponentsInv'
BY DEF vars, ComponentsInv, PosBound, NamesDistinct, CollectInv, NameInv,
       RenderInv, Pending, Named, Described, Targets

LEMMA NextStep == ComponentsInv /\ [Next]_vars => ComponentsInv'
<1>1. ComponentsInv /\ Collect => ComponentsInv'
  BY SkipMessageStep, AppendMessageStep, FollowFieldsStep, CollectedStep
     DEF Collect
<1>2. ComponentsInv /\ Name => ComponentsInv'
  BY NameSkipStep, NameTryStep, NameTakeStep, NamesDoneStep DEF Name
<1>3. ComponentsInv /\ Render => ComponentsInv'
  BY FieldSkipStep, FieldRefStep, FieldInlineStep, OverflowStep, InlineDoneStep
     DEF Render
<1>4. ComponentsInv /\ Paths => ComponentsInv'
  BY PathWrittenStep, PathRefStep, PathInlineStep, PathInlineDoneStep, PathsDoneStep DEF Paths
<1>5. ComponentsInv /\ Emit => ComponentsInv'
  BY EmitSkipStep, EmitBeginStep, EmitDoneStep, EmittedStep DEF Emit
<1>. QED
  BY <1>1, <1>2, <1>3, <1>4, <1>5, Stuttering DEF Next, Terminated

-----------------------------------------------------------------------------
(* The theorems *)

\* The walks of bundleMessages, collectComponentNames, objectSchema and
\* appendSchemas keep the invariant for every request.
THEOREM ComponentsInvariant == Spec => []ComponentsInv
<1>. QED
  BY Initially, NextStep, PTL DEF Spec

\* uniqueComponentName never gives two messages one name.
THEOREM NamesAreDistinct == Spec => []NamesDistinct
<1>1. ComponentsInv => NamesDistinct
  BY DEF ComponentsInv
<1>. QED
  BY <1>1, ComponentsInvariant, PTL

\* collectComponentNames names exactly what bundleMessages collected.
THEOREM NamesTheCollected == Spec => []NamesWhatItCollects
<1>1. ComponentsInv => NamesWhatItCollects
  BY DEF ComponentsInv, NameInv, NamesWhatItCollects
<1>. QED
  BY <1>1, ComponentsInvariant, PTL

\* In the finished document every $ref that the generator makes from a message
\* leads to the schema of that message.
THEOREM RefsAlwaysResolve == Spec => []RefsResolve
<1>1. ComponentsInv => RefsResolve
  <2>. SUFFICES ASSUME ComponentsInv, phase = "done" PROVE RefsResolve
    BY DEF RefsResolve
  <2>1. Named = Range(out)
    BY DEF ComponentsInv, NameInv
  <2>2. \A m \in Range(out) : Described(m)
    BY EmptyRange DEF ComponentsInv, RenderInv
  <2>3. \A r \in refs : r.to # ByHand => r.to \in Named /\ r.name = names[r.to]
    BY DEF ComponentsInv, RenderInv
  <2>. QED
    BY <2>1, <2>2, <2>3 DEF RefsResolve, Described
<1>. QED
  BY <1>1, ComponentsInvariant, PTL

-----------------------------------------------------------------------------
(* The function that the numbers of names are shifted by *)

\* A set of naturals that is not empty has a least element.
LEMMA LeastNatural ==
  ASSUME NEW T \in SUBSET Nat, T # {}
  PROVE  \E n \in T : \A m \in T : n <= m
<1>1. PICK n \in T : \A m \in T : ~ (<<m, n>> \in OpToRel(<, Nat))
  BY NatLessThanWellFounded, WFMin
<1>2. \A m \in T : ~ (m < n)
  BY <1>1 DEF OpToRel
<1>. QED
  BY <1>2

\* The recursion of Shift goes down to smaller numbers.
LEMMA DivSmaller ==
  ASSUME NEW i \in Nat, i >= 10
  PROVE  i \div 10 \in Nat /\ i \div 10 < i
OBVIOUS

\* So it has a solution, and Shift is one; its values are numbers.
LEMMA ShiftType == \A i \in Nat : Shift[i] \in Nat
<1>. DEFINE Def(g, i) == IF i < 10 THEN 10 ELSE 10 * g[i \div 10]
            Good(f, n) == f \in [0 .. n -> Nat] /\ \A i \in 0 .. n : f[i] = Def(f, i)
<1>1. \A n \in Nat : \E f : Good(f, n)
  <2>. DEFINE T == {n \in Nat : ~ \E f : Good(f, n)}
  <2>1. SUFFICES ASSUME T # {} PROVE FALSE
    OBVIOUS
  <2>2. PICK n \in T : \A m \in T : n <= m
    BY <2>1, LeastNatural
  <2>3. CASE n = 0
    <3>. DEFINE f0 == [i \in 0 .. n |-> 10]
    <3>1. Good(f0, n)
      BY <2>3
    <3>. QED
      BY <3>1
  <2>4. CASE n # 0
    <3>1. n - 1 \in Nat /\ n - 1 \notin T
      <4>1. n \in Nat /\ n - 1 \in Nat /\ ~ (n <= n - 1)
        BY <2>2, <2>4
      <4>. HIDE DEF T
      <4>. QED
        BY <2>2, <4>1
    <3>2. PICK f : Good(f, n - 1)
      BY <3>1
    <3>. DEFINE g == [i \in 0 .. n |-> IF i = n THEN Def(f, n) ELSE f[i]]
    <3>3. Def(f, n) \in Nat
      <4>1. CASE n < 10
        BY <4>1
      <4>2. CASE n >= 10
        BY <4>2, <3>2, <2>4, DivSmaller
      <4>. QED
        BY <4>1, <4>2
    <3>4. g \in [0 .. n -> Nat]
      BY <3>2, <3>3
    <3>5. ASSUME NEW i \in 0 .. n PROVE g[i] = Def(g, i)
      <4>1. i >= 10 => g[i \div 10] = f[i \div 10]
        BY DivSmaller
      <4>2. g[i] = Def(f, i)
        BY <3>2
      <4>. QED
        BY <4>1, <4>2
    <3>6. Good(g, n)
      BY <3>4, <3>5
    <3>. QED
      BY <3>6
  <2>. QED
    BY <2>3, <2>4
<1>2. ASSUME NEW n \in Nat, NEW m \in Nat, NEW f, NEW g, Good(f, n), Good(g, m)
      PROVE  \A i \in Nat : i <= n /\ i <= m => f[i] = g[i]
  <2>. DEFINE T == {i \in Nat : i <= n /\ i <= m /\ f[i] # g[i]}
  <2>1. SUFFICES ASSUME T # {} PROVE FALSE
    OBVIOUS
  <2>2. PICK i \in T : \A j \in T : i <= j
    BY <2>1, LeastNatural
  <2>3. i \in 0 .. n /\ i \in 0 .. m /\ f[i] = Def(f, i) /\ g[i] = Def(g, i)
    BY <1>2
  <2>4. i >= 10
    BY <2>3
  <2>5. f[i \div 10] = g[i \div 10]
    BY <2>2, <2>4, DivSmaller
  <2>. QED
    BY <2>3, <2>5
<1>. DEFINE Sol(n) == CHOOSE f : Good(f, n)
            F == [i \in Nat |-> Sol(i)[i]]
<1>3. F = [i \in Nat |-> Def(F, i)]
  <2>1. \A n \in Nat : Good(Sol(n), n)
    BY <1>1
  <2>. HIDE DEF Sol
  <2>2. ASSUME NEW i \in Nat PROVE Sol(i)[i] = Def(F, i)
    <3>1. Sol(i)[i] = Def(Sol(i), i)
      BY <2>1
    <3>2. ASSUME i >= 10 PROVE Sol(i)[i \div 10] = F[i \div 10]
      <4>. DEFINE j == i \div 10
      <4>1. j \in Nat /\ j <= i
        BY <3>2, DivSmaller
      <4>2. Good(Sol(i), i) /\ Good(Sol(j), j)
        BY <2>1, <4>1
      <4>3. Sol(i)[j] = Sol(j)[j]
        <5>. HIDE DEF Good, j
        <5>. QED
          BY <1>2, <4>1, <4>2
      <4>. QED
        BY <4>1, <4>3
    <3>. QED
      BY <3>1, <3>2
  <2>3. F = [i \in Nat |-> Sol(i)[i]]
    OBVIOUS
  <2>. HIDE DEF F
  <2>. QED
    BY <2>2, <2>3, Zenon
<1>4. Shift = [i \in Nat |-> Def(Shift, i)]
  <2>. HIDE DEF F
  <2>. QED
    BY <1>3 DEF Shift
<1>5. \A i \in Nat : Shift[i] = Def(Shift, i)
  BY <1>4
<1>. DEFINE T == {i \in Nat : Shift[i] \notin Nat}
<1>6. SUFFICES ASSUME T # {} PROVE FALSE
  OBVIOUS
<1>7. PICK i \in T : \A j \in T : i <= j
  BY <1>6, LeastNatural
<1>8. CASE i < 10
  BY <1>5, <1>7, <1>8
<1>9. CASE i >= 10
  <2>1. Shift[i \div 10] \in Nat
    BY <1>7, <1>9, DivSmaller
  <2>. QED
    BY <1>5, <1>7, <1>9, <2>1
<1>. QED
  BY <1>8, <1>9

-----------------------------------------------------------------------------
(* Nothing is collected that need not be, nothing twice *)

\* Once the messages are collected they stay as they are.
LEMMA AfterCollecting ==
  ASSUME ComponentsInv, [Next]_vars, phase # "collect"
  PROVE  UNCHANGED <<in, out>> /\ phase' # "collect"
<1>1. ~ Collect
  BY DEF Collect, SkipMessage, AppendMessage, FollowFields, Collected, Running
<1>2. Name => UNCHANGED <<in, out>> /\ phase' # "collect"
  BY DEF Name, NameSkip, NameTry, NameTake, NamesDone
<1>3. Render => UNCHANGED <<in, out>> /\ phase' # "collect"
  BY DEF Render, FieldSkip, FieldRef, FieldInline, Overflow, InlineDone
<1>4. Paths => UNCHANGED <<in, out>> /\ phase' # "collect"
  BY DEF Paths, PathWritten, PathRef, PathInline, PathInlineDone, PathsDone
<1>5. Emit => UNCHANGED <<in, out>> /\ phase' # "collect"
  BY DEF Emit, EmitSkip, EmitBegin, EmitDone, Emitted
<1>. QED
  BY <1>1, <1>2, <1>3, <1>4, <1>5 DEF Next, Terminated, vars

\* While they are, only bundleMessages runs.
LEMMA OnlyCollecting ==
  ASSUME ComponentsInv, [Next]_vars, phase = "collect"
  PROVE  Collect \/ UNCHANGED vars
<1>1. ~ Name
  BY DEF Name, NameSkip, NameTry, NameTake, NamesDone, Running
<1>2. ~ Render
  BY DEF Render, FieldSkip, FieldRef, FieldInline, Overflow, InlineDone, AtField
<1>3. ~ Paths
  BY DEF Paths, PathWritten, PathRef, PathInline, PathInlineDone, PathsDone, Running
<1>4. ~ Emit
  BY DEF Emit, EmitSkip, EmitBegin, EmitDone, Emitted, Running
<1>. QED
  BY <1>1, <1>2, <1>3, <1>4 DEF Next, Terminated

LEMMA LeastInitially == Init => LeastInv
<1>. SUFFICES ASSUME Init PROVE LeastInv
  OBVIOUS
<1>1. out = <<>> /\ Range(out) = {} /\ Pending = Range(in.roots)
  BY EmptyRange DEF Init, Pending
<1>. QED
  BY <1>1 DEF LeastInv, Closed

\* A step that leaves what is collected and what is pending.
LEMMA LeastKept ==
  ASSUME LeastInv, UNCHANGED <<in, out>>, Pending' = Pending
  PROVE  LeastInv'
BY DEF LeastInv, Closed

LEMMA LeastSkip == ComponentsInv /\ LeastInv /\ SkipMessage => LeastInv'
<1>. SUFFICES ASSUME ComponentsInv, LeastInv, SkipMessage PROVE LeastInv'
  OBVIOUS
<1>1. phase = "collect" /\ todo # <<>> /\ todo' = Tail(todo)
      /\ Head(todo) \in in.omitted \cup Range(out)
      /\ todo \in Seq(Messages) /\ UNCHANGED <<in, phase, out>>
  BY VisitNothing DEF SkipMessage, Running, VisitThen, ComponentsInv
<1>2. Range(todo) = {Head(todo)} \cup Range(todo')
  BY <1>1, HeadTail
<1>3. Pending = Range(todo) /\ Pending' = Range(todo')
  BY <1>1 DEF Pending
<1>4. \A S \in SUBSET Messages : Closed(S)' => Closed(S)
  BY <1>1 DEF Closed
<1>. QED
  BY <1>1, <1>2, <1>3, <1>4 DEF LeastInv

LEMMA LeastAppend == ComponentsInv /\ LeastInv /\ AppendMessage => LeastInv'
<1>. SUFFICES ASSUME ComponentsInv, LeastInv, AppendMessage PROVE LeastInv'
  OBVIOUS
<1> DEFINE m == Head(todo)
<1>1. /\ phase = "collect" /\ todo # <<>> /\ todo \in Seq(Messages)
      /\ out \in Seq(Messages) /\ InputOK(in)
      /\ m \notin in.omitted \cup Range(out)
      /\ out' = Append(out, m) /\ todo' = in.nested[m] \o Tail(todo)
      /\ UNCHANGED <<in, phase>>
  BY DEF AppendMessage, Running, VisitThen, ComponentsInv
<1>2. m \in Messages /\ Range(todo) = {m} \cup Range(Tail(todo))
  BY <1>1, HeadTail
<1>3. in.nested[m] \in Seq(Messages)
  BY <1>1, <1>2, MessageOptions
<1>4. Range(todo') = Range(in.nested[m]) \cup Range(Tail(todo))
  BY <1>1, <1>3, Visit
<1>5. /\ Len(out') = Len(out) + 1 /\ Len(out) \in Nat
      /\ \A i \in 1 .. Len(out) : out'[i] = out[i]
      /\ out'[Len(out) + 1] = m
      /\ Range(out') = Range(out) \cup {m}
  BY <1>1, <1>2, AppendRange
<1>6. Pending = Range(todo) /\ Pending' = Range(todo')
  BY <1>1 DEF Pending
<1>7. \A i \in 1 .. Len(out) : out[i] # m
  BY <1>1, RangeEquality
<1>8. \A i, j \in 1 .. Len(out') : out'[i] = out'[j] => i = j
  BY <1>5, <1>7 DEF LeastInv
<1>9. ASSUME NEW S \in SUBSET Messages, Closed(S)'
      PROVE  (Range(out') \cup Pending') \ in.omitted \subseteq S
  <2>1. Closed(S)
    BY <1>1, <1>9 DEF Closed
  <2>2. (Range(out) \cup Range(todo)) \ in.omitted \subseteq S
    BY <2>1, <1>6 DEF LeastInv
  <2>3. m \in S
    BY <2>2, <1>1, <1>2
  <2>4. Range(in.nested[m]) \ in.omitted \subseteq S
    BY <2>1, <2>3 DEF Closed
  <2>. QED
    BY <2>2, <2>3, <2>4, <1>2, <1>4, <1>5, <1>6
<1>10. Range(in.roots) \ in.omitted \subseteq Range(out') \cup Pending'
  BY <1>2, <1>4, <1>5, <1>6 DEF LeastInv
<1>. QED
  BY <1>1, <1>8, <1>9, <1>10 DEF LeastInv

LEMMA LeastFollow == ComponentsInv /\ LeastInv /\ FollowFields => LeastInv'
<1>. SUFFICES ASSUME ComponentsInv, LeastInv, FollowFields PROVE LeastInv'
  OBVIOUS
<1> DEFINE fields == in.fields[out[pos]]
<1>1. /\ phase = "collect" /\ todo = <<>> /\ pos <= Len(out)
      /\ todo' = [i \in DOMAIN fields |-> fields[i].to]
      /\ UNCHANGED <<in, phase, out>>
  BY DEF FollowFields, Running
<1>2. pos \in 1 .. Len(out) /\ out \in Seq(Messages) /\ InputOK(in)
  BY <1>1 DEF ComponentsInv, PosBound
<1>3. out[pos] \in Messages /\ out[pos] \in Range(out)
  BY <1>2, ElementOfSeq, RangeEquality
<1>4. fields \in Seq(Field)
  BY <1>2, <1>3, MessageOptions
<1>5. Range(todo') = Targets(out[pos])
  BY <1>1, <1>4, FieldTargets DEF Targets
<1>6. Pending' = Targets(out[pos]) /\ Pending = {}
  BY <1>1, <1>5, EmptyRange DEF Pending
<1>7. ASSUME NEW S \in SUBSET Messages, Closed(S)'
      PROVE  (Range(out') \cup Pending') \ in.omitted \subseteq S
  <2>1. Closed(S)
    BY <1>1, <1>7 DEF Closed
  <2>2. Range(out) \ in.omitted \subseteq S
    BY <2>1, <1>6 DEF LeastInv
  <2>3. out[pos] \in S
    BY <2>2, <1>3 DEF ComponentsInv, CollectInv
  <2>4. Targets(out[pos]) \ in.omitted \subseteq S
    BY <2>1, <2>3 DEF Closed, Targets
  <2>. QED
    BY <2>2, <2>4, <1>1, <1>6
<1>. QED
  BY <1>1, <1>6, <1>7 DEF LeastInv

LEMMA LeastStep == ComponentsInv /\ LeastInv /\ [Next]_vars => LeastInv'
<1>. SUFFICES ASSUME ComponentsInv, LeastInv, [Next]_vars PROVE LeastInv'
  OBVIOUS
<1>1. CASE phase # "collect"
  BY <1>1, AfterCollecting, LeastKept DEF Pending
<1>2. CASE Collected
  <2>1. Pending = {} /\ Pending' = {} /\ UNCHANGED <<in, out>>
    BY <1>2, EmptyRange DEF Collected, Running, Pending
  <2>. QED
    BY <2>1, LeastKept
<1>3. CASE UNCHANGED vars
  BY <1>3, LeastKept DEF vars, Pending
<1>. QED
  BY <1>1, <1>2, <1>3, OnlyCollecting, LeastSkip, LeastAppend, LeastFollow DEF Collect

\* What is collected at the end is closed, and the least closed set.
LEMMA CollectsTheLeast == ComponentsInv /\ LeastInv => CollectsReachable
<1>. SUFFICES ASSUME ComponentsInv, LeastInv, phase # "collect"
              PROVE  Range(out) = Reachable /\ Len(out) = Cardinality(Reachable)
  BY DEF CollectsReachable
<1>1. Pending = {} /\ out \in Seq(Messages) /\ Range(out) \cap in.omitted = {}
  BY DEF Pending, ComponentsInv, CollectInv
<1>2. Range(out) \in SUBSET Messages
  BY <1>1, RangeOfSeq
<1>3. Closed(Range(out))
  <2>1. ASSUME NEW m \in Range(out)
        PROVE  /\ Range(in.nested[m]) \ in.omitted \subseteq Range(out)
               /\ Targets(m) \ in.omitted \subseteq Range(out)
    <3>1. PICK i \in 1 .. Len(out) : out[i] = m
      BY <1>1, RangeEquality
    <3>. QED
      BY <3>1, <1>1 DEF ComponentsInv, CollectInv
  <2>. QED
    BY <2>1, <1>1 DEF Closed, LeastInv, Targets
<1>4. \A S \in SUBSET Messages : Closed(S) => Range(out) \subseteq S
  BY <1>1 DEF LeastInv
<1>5. Range(out) = Reachable
  BY <1>2, <1>3, <1>4 DEF Reachable
<1>6. Len(out) = Cardinality(Range(out))
  <2>1. Len(out) \in Nat /\ out \in [1 .. Len(out) -> Range(out)]
    BY <1>1, RangeEquality
  <2>2. \A y \in Range(out) : \E i \in 1 .. Len(out) : out[i] = y
    BY <1>1, RangeEquality
  <2>3. out \in Bijection(1 .. Len(out), Range(out))
    BY <2>1, <2>2 DEF Bijection, Injection, Surjection, IsInjective, LeastInv
  <2>4. ExistsBijection(1 .. Len(out), Range(out))
    BY <2>3 DEF ExistsBijection
  <2>. QED
    BY <2>1, <2>4, FS_CountingElements
<1>. QED
  BY <1>5, <1>6

\* bundleMessages collects exactly what the marked files lead to, each message
\* once: the set of the messages is the least one that is closed.
THEOREM CollectsTheReachable == Spec => []CollectsReachable
<1>. QED
  BY Initially, LeastInitially, NextStep, LeastStep, CollectsTheLeast, PTL DEF Spec

-----------------------------------------------------------------------------
(* The two walks visit in one order *)

\* A message that a walk has still to visit, when it has visited the first n
\* messages of the list o.
Visited(o, n) == {o[i] : i \in 1 .. n}

New(r, o, n, m) == m \notin r.omitted \cup Visited(o, n)

\* What visiting the i-th message of o adds to the walk; 0 is its beginning.
Added(r, o, base, i) == IF i = 0 THEN base ELSE r.nested[o[i]]

\* The worklist w has what is new of all that was added, later additions
\* first: its j-th message is at[j]-th of what the src[j]-th visit added.
Walk(r, w, o, n, base, src, at) ==
  /\ src \in [1 .. Len(w) -> 0 .. n] /\ at \in [1 .. Len(w) -> Nat]
  /\ \A j \in 1 .. Len(w) :
       /\ at[j] \in 1 .. Len(Added(r, o, base, src[j]))
       /\ w[j] = Added(r, o, base, src[j])[at[j]]
  /\ \A j, k \in 1 .. Len(w) :
       j < k => src[k] < src[j] \/ (src[k] = src[j] /\ at[j] < at[k])
  /\ \A i \in 0 .. n : \A p \in 1 .. Len(Added(r, o, base, i)) :
       New(r, o, n, Added(r, o, base, i)[p]) =>
         \E j \in 1 .. Len(w) : src[j] = i /\ at[j] = p

\* Of what is nested in the first n messages and new, m is the p-th of the
\* i-th message, and the first in the order of a walk.
First(r, o, n, m, i, p) ==
  /\ i \in 1 .. n /\ p \in 1 .. Len(r.nested[o[i]]) /\ r.nested[o[i]][p] = m
  /\ \A k \in 1 .. n : \A q \in 1 .. Len(r.nested[o[k]]) :
       New(r, o, n, r.nested[o[k]][q]) => k < i \/ (k = i /\ p <= q)

\* The list has each message's new nested messages right behind it.
NestedFollow(r, o, n) ==
  (\E k \in 1 .. n : \E q \in 1 .. Len(r.nested[o[k]]) :
     New(r, o, n, r.nested[o[k]][q]))
    => \E i, p : First(r, o, n, o[n + 1], i, p)

\* A walk passes over what is not new.
LEMMA WalkSkip ==
  ASSUME NEW r, NEW o, NEW n \in Nat, NEW base, NEW S, NEW w \in Seq(S), w # <<>>,
         NEW src, NEW at, Walk(r, w, o, n, base, src, at), ~ New(r, o, n, Head(w))
  PROVE  \E s, a : Walk(r, Tail(w), o, n, base, s, a)
<1> DEFINE v == Tail(w)
           s == [j \in 1 .. Len(v) |-> src[j + 1]]
           a == [j \in 1 .. Len(v) |-> at[j + 1]]
<1>1. /\ Len(w) \in Nat \ {0} /\ Len(v) = Len(w) - 1 /\ Head(w) = w[1]
      /\ \A j \in 1 .. Len(w) - 1 : v[j] = w[j + 1]
  OBVIOUS
<1>2. s \in [1 .. Len(v) -> 0 .. n] /\ a \in [1 .. Len(v) -> Nat]
  BY <1>1 DEF Walk
<1>3. \A j \in 1 .. Len(v) : s[j] = src[j + 1] /\ a[j] = at[j + 1] /\ j + 1 \in 1 .. Len(w)
  BY <1>1
<1>. HIDE DEF s, a, v
<1>4. ASSUME NEW i \in 0 .. n, NEW p \in 1 .. Len(Added(r, o, base, i)),
             New(r, o, n, Added(r, o, base, i)[p])
      PROVE  \E j \in 1 .. Len(v) : s[j] = i /\ a[j] = p
  <2>1. PICK j \in 1 .. Len(w) : src[j] = i /\ at[j] = p
    BY <1>4 DEF Walk
  <2>2. j # 1
    BY <2>1, <1>1, <1>4 DEF Walk
  <2>3. j - 1 \in 1 .. Len(v) /\ (j - 1) + 1 = j
    BY <2>2, <1>1
  <2>. QED
    BY <2>1, <2>3, <1>3
<1>5. ASSUME NEW j \in 1 .. Len(v)
      PROVE  /\ a[j] \in 1 .. Len(Added(r, o, base, s[j]))
             /\ v[j] = Added(r, o, base, s[j])[a[j]]
  <2>1. v[j] = w[j + 1] /\ s[j] = src[j + 1] /\ a[j] = at[j + 1] /\ j + 1 \in 1 .. Len(w)
    BY <1>1, <1>3
  <2>. QED
    BY <2>1 DEF Walk
<1>6. ASSUME NEW j \in 1 .. Len(v), NEW k \in 1 .. Len(v), j < k
      PROVE  s[k] < s[j] \/ (s[k] = s[j] /\ a[j] < a[k])
  <2>1. /\ j + 1 \in 1 .. Len(w) /\ k + 1 \in 1 .. Len(w) /\ j + 1 < k + 1
        /\ s[j] = src[j + 1] /\ a[j] = at[j + 1] /\ s[k] = src[k + 1] /\ a[k] = at[k + 1]
    BY <1>3, <1>6
  <2>. QED
    BY <2>1 DEF Walk
<1>7. Walk(r, v, o, n, base, s, a)
  BY <1>2, <1>4, <1>5, <1>6 DEF Walk
<1>. QED
  BY <1>7 DEF v

\* A walk that visits the next message of the list goes on with what is added.
LEMMA WalkTake ==
  ASSUME NEW r, NEW o, NEW n \in Nat, NEW base, NEW S, NEW w \in Seq(S), w # <<>>,
         NEW src, NEW at, Walk(r, w, o, n, base, src, at),
         NEW o2, \A i \in 1 .. n : o2[i] = o[i], o2[n + 1] = Head(w),
         NEW t \in Seq(S), t = r.nested[Head(w)]
  PROVE  \E s, a : Walk(r, t \o Tail(w), o2, n + 1, base, s, a)
<1> DEFINE m == Head(w)
           l == Len(t)
           v == t \o Tail(w)
           s == [j \in 1 .. Len(v) |-> IF j <= l THEN n + 1 ELSE src[j - l + 1]]
           a == [j \in 1 .. Len(v) |-> IF j <= l THEN j ELSE at[j - l + 1]]
<1>. HIDE DEF m, l, v, s, a
<1>1. /\ Len(w) \in Nat \ {0} /\ m = w[1] /\ l \in Nat
      /\ Tail(w) \in Seq(S) /\ Len(Tail(w)) = Len(w) - 1
      /\ \A j \in 1 .. Len(w) - 1 : Tail(w)[j] = w[j + 1]
  BY DEF m, l
<1>2. /\ v \in Seq(S) /\ Len(v) = l + Len(w) - 1
      /\ \A j \in 1 .. l : v[j] = t[j]
      /\ \A j \in l + 1 .. Len(v) : v[j] = w[j - l + 1] /\ j - l + 1 \in 2 .. Len(w)
  <2>1. /\ v \in Seq(S) /\ Len(v) = l + (Len(w) - 1)
        /\ \A j \in 1 .. Len(v) : v[j] = IF j <= l THEN t[j] ELSE Tail(w)[j - l]
    BY <1>1, ConcatProperties DEF v, l
  <2>2. ASSUME NEW j \in l + 1 .. Len(v)
        PROVE  v[j] = w[j - l + 1] /\ j - l + 1 \in 2 .. Len(w)
    <3>1. j - l \in 1 .. Len(w) - 1 /\ v[j] = Tail(w)[j - l]
      BY <1>1, <2>1
    <3>. QED
      BY <3>1, <1>1, j - l + 1 = (j - l) + 1
  <2>3. \A j \in 1 .. l : v[j] = t[j]
    BY <1>1, <2>1
  <2>. QED
    BY <2>1, <2>2, <2>3, <1>1
<1>3. \A j \in 1 .. l : j \in 1 .. Len(v) /\ s[j] = n + 1 /\ a[j] = j
  BY <1>1, <1>2 DEF s, a
<1>4. \A j \in l + 1 .. Len(v) : s[j] = src[j - l + 1] /\ a[j] = at[j - l + 1]
  BY <1>1, <1>2 DEF s, a
<1>5. \A j \in 1 .. Len(v) : j \in 1 .. l \/ j \in l + 1 .. Len(v)
  BY <1>1, <1>2
<1>6. s \in [1 .. Len(v) -> 0 .. n + 1] /\ a \in [1 .. Len(v) -> Nat]
  <2>1. ASSUME NEW j \in 1 .. Len(v)
        PROVE  /\ (IF j <= l THEN n + 1 ELSE src[j - l + 1]) \in 0 .. n + 1
               /\ (IF j <= l THEN j ELSE at[j - l + 1]) \in Nat
    <3>1. CASE j <= l
      BY <3>1, <1>1
    <3>2. CASE j > l
      <4>1. j - l + 1 \in 1 .. Len(w)
        BY <3>2, <1>1, <1>2
      <4>2. src[j - l + 1] \in 0 .. n /\ at[j - l + 1] \in Nat
        BY <4>1 DEF Walk
      <4>. QED
        BY <4>2, <3>2, <1>1
    <3>. QED
      BY <3>1, <3>2, <1>1, <1>2
  <2>. QED
    BY <2>1 DEF s, a
<1>7. /\ \A i \in 0 .. n : Added(r, o2, base, i) = Added(r, o, base, i)
      /\ Added(r, o2, base, n + 1) = t
  BY DEF Added, m
<1>8. \A x : New(r, o2, n + 1, x) => New(r, o, n, x) /\ x # m
  BY DEF New, Visited, m
<1>w. /\ \A j \in 1 .. Len(w) :
           /\ at[j] \in 1 .. Len(Added(r, o, base, src[j]))
           /\ w[j] = Added(r, o, base, src[j])[at[j]]
      /\ \A j, k \in 1 .. Len(w) :
           j < k => src[k] < src[j] \/ (src[k] = src[j] /\ at[j] < at[k])
  BY DEF Walk
<1>x. \A j \in 1 .. Len(w) : src[j] \in 0 .. n /\ at[j] \in Nat
  BY DEF Walk
<1>u. \A j \in l + 1 .. Len(v) : j - l + 1 \in 1 .. Len(w) /\ src[j - l + 1] \in 0 .. n
  <2>. TAKE j \in l + 1 .. Len(v)
  <2>1. j - l + 1 \in 1 .. Len(w)
    BY <1>1, <1>2
  <2>. QED
    BY <2>1, <1>x
<1>9. ASSUME NEW j \in 1 .. Len(v)
      PROVE  /\ a[j] \in 1 .. Len(Added(r, o2, base, s[j]))
             /\ v[j] = Added(r, o2, base, s[j])[a[j]]
  <2>1. CASE j \in 1 .. l
    <3>1. s[j] = n + 1 /\ a[j] = j /\ v[j] = t[j] /\ Added(r, o2, base, s[j]) = t
      BY <2>1, <1>2, <1>3, <1>7
    <3>. QED
      BY <2>1, <3>1 DEF l
  <2>2. CASE j \in l + 1 .. Len(v)
    <3>1. j - l + 1 \in 1 .. Len(w) /\ src[j - l + 1] \in 0 .. n
      BY <2>2, <1>u
    <3>2. /\ s[j] = src[j - l + 1] /\ a[j] = at[j - l + 1]
          /\ Added(r, o2, base, s[j]) = Added(r, o, base, src[j - l + 1])
      BY <3>1, <2>2, <1>4, <1>7
    <3>3. v[j] = w[j - l + 1]
      BY <2>2, <1>2
    <3>. QED
      BY <3>1, <3>2, <3>3, <1>w
  <2>. QED
    BY <2>1, <2>2, <1>5
<1>10. ASSUME NEW j \in 1 .. Len(v), NEW k \in 1 .. Len(v), j < k
       PROVE  s[k] < s[j] \/ (s[k] = s[j] /\ a[j] < a[k])
  <2>1. CASE k \in 1 .. l
    BY <2>1, <1>1, <1>3, <1>10
  <2>2. CASE k \in l + 1 .. Len(v)
    <3>1. k - l + 1 \in 1 .. Len(w) /\ src[k - l + 1] \in 0 .. n
      BY <2>2, <1>u
    <3>2. CASE j \in 1 .. l
      <4>1. s[j] = n + 1 /\ s[k] = src[k - l + 1]
        BY <3>2, <2>2, <1>3, <1>4
      <4>. QED
        BY <4>1, <3>1
    <3>3. CASE j \in l + 1 .. Len(v)
      <4>1. j - l + 1 \in 1 .. Len(w) /\ j - l + 1 < k - l + 1
        BY <3>3, <2>2, <1>1, <1>u, <1>10
      <4>2. /\ s[j] = src[j - l + 1] /\ a[j] = at[j - l + 1]
            /\ s[k] = src[k - l + 1] /\ a[k] = at[k - l + 1]
        BY <3>3, <2>2, <1>4
      <4>. QED
        BY <4>1, <4>2, <3>1, <1>w
    <3>. QED
      BY <3>2, <3>3, <1>5
  <2>. QED
    BY <2>1, <2>2, <1>5
<1>11. ASSUME NEW i \in 0 .. n + 1, NEW p \in 1 .. Len(Added(r, o2, base, i)),
              New(r, o2, n + 1, Added(r, o2, base, i)[p])
       PROVE  \E j \in 1 .. Len(v) : s[j] = i /\ a[j] = p
  <2>1. CASE i = n + 1
    <3>1. p \in 1 .. l
      BY <2>1, <1>7 DEF l
    <3>. QED
      BY <2>1, <3>1, <1>3
  <2>2. CASE i \in 0 .. n
    <3>1. /\ p \in 1 .. Len(Added(r, o, base, i))
          /\ New(r, o, n, Added(r, o, base, i)[p]) /\ Added(r, o, base, i)[p] # m
      BY <2>2, <1>7, <1>8, <1>11
    <3>2. PICK j \in 1 .. Len(w) : src[j] = i /\ at[j] = p
      BY <2>2, <3>1 DEF Walk
    <3>3. j # 1
      BY <3>1, <3>2, <1>1 DEF Walk
    <3>4. j + l - 1 \in l + 1 .. Len(v) /\ (j + l - 1) - l + 1 = j
      BY <3>3, <1>1, <1>2
    <3>5. s[j + l - 1] = i /\ a[j + l - 1] = p
      BY <3>2, <3>4, <1>4
    <3>. QED
      BY <3>4, <3>5, <1>1
  <2>. QED
    BY <2>1, <2>2
<1>12. Walk(r, v, o2, n + 1, base, s, a)
  BY <1>6, <1>9, <1>10, <1>11 DEF Walk
<1>. QED
  BY <1>12 DEF v

\* If any nested message is new, a walk comes to the first of them next.
LEMMA WalkFirst ==
  ASSUME NEW r, NEW o, NEW n \in Nat, NEW base, NEW S, NEW w \in Seq(S), w # <<>>,
         NEW src, NEW at, Walk(r, w, o, n, base, src, at),
         NEW k \in 1 .. n, NEW q \in 1 .. Len(r.nested[o[k]]),
         New(r, o, n, r.nested[o[k]][q])
  PROVE  First(r, o, n, Head(w), src[1], at[1])
<1>1. Len(w) \in Nat \ {0} /\ Head(w) = w[1] /\ 1 \in 1 .. Len(w)
  OBVIOUS
<1>2. \A i \in 1 .. n : Added(r, o, base, i) = r.nested[o[i]]
  BY DEF Added
<1>3. src[1] \in 0 .. n /\ at[1] \in Nat
  BY <1>1 DEF Walk
<1>w. \A i \in 0 .. n : \A p \in 1 .. Len(Added(r, o, base, i)) :
        New(r, o, n, Added(r, o, base, i)[p]) =>
          \E j \in 1 .. Len(w) : src[j] = i /\ at[j] = p
  BY DEF Walk
<1>4. ASSUME NEW i \in 1 .. n, NEW p \in 1 .. Len(r.nested[o[i]]),
             New(r, o, n, r.nested[o[i]][p])
      PROVE  i < src[1] \/ (i = src[1] /\ at[1] <= p)
  <2>1. PICK j \in 1 .. Len(w) : src[j] = i /\ at[j] = p
    <3>1. i \in 0 .. n /\ Added(r, o, base, i) = r.nested[o[i]]
      BY <1>2
    <3>. QED
      BY <3>1, <1>4, <1>w
  <2>2. CASE j = 1
    BY <2>1, <2>2, <1>3
  <2>3. CASE j # 1
    <3>1. 1 < j /\ at[j] \in Nat
      BY <2>3, <1>1 DEF Walk
    <3>2. src[j] < src[1] \/ (src[j] = src[1] /\ at[1] < at[j])
      BY <3>1, <1>1 DEF Walk
    <3>. QED
      BY <3>1, <3>2, <2>1, <1>3
  <2>. QED
    BY <2>2, <2>3
<1>5. src[1] \in 1 .. n
  BY <1>3, <1>4
<1>. QED
  BY <1>1, <1>2, <1>4, <1>5 DEF First, Walk

\* The walk that names comes to the collected messages in their order.
LEMMA NextNamed ==
  ASSUME NEW r, NEW S, NEW o \in Seq(S), NEW n \in 0 .. Len(o), NEW w \in Seq(S), w # <<>>,
         NEW src, NEW at, Walk(r, w, o, n, o, src, at),
         n \in 1 .. Len(o) - 1 => NestedFollow(r, o, n),
         \A i, j \in 1 .. Len(o) : o[i] = o[j] => i = j,
         \A i \in 1 .. Len(o) : o[i] \notin r.omitted,
         New(r, o, n, Head(w)), Head(w) \in Range(o)
  PROVE  n + 1 \in 1 .. Len(o) /\ Head(w) = o[n + 1]
<1>1. Len(w) \in Nat \ {0} /\ Head(w) = w[1] /\ 1 \in 1 .. Len(w) /\ Len(o) \in Nat
  OBVIOUS
<1>2. PICK x \in 1 .. Len(o) : o[x] = Head(w)
  BY RangeEquality
<1>3. x > n
  BY <1>2 DEF New, Visited
<1>4. n + 1 \in 1 .. Len(o)
  BY <1>1, <1>2, <1>3
<1>5. New(r, o, n, o[n + 1])
  BY <1>1, <1>4 DEF New, Visited
<1>6. src[1] \in 0 .. n /\ at[1] \in Nat
  BY <1>1 DEF Walk
<1>7. CASE src[1] = 0
  <2>1. at[1] \in 1 .. Len(o) /\ Head(w) = o[at[1]]
    BY <1>1, <1>7 DEF Walk, Added
  <2>2. at[1] = x
    BY <2>1, <1>2
  <2>3. PICK j \in 1 .. Len(w) : src[j] = 0 /\ at[j] = n + 1
    BY <1>1, <1>4, <1>5 DEF Walk, Added
  <2>4. CASE j = 1
    BY <2>1, <2>3, <2>4, <1>4
  <2>5. CASE j # 1
    <3>1. 1 < j
      BY <2>5, <1>1
    <3>2. src[j] < src[1] \/ (src[j] = src[1] /\ at[1] < at[j])
      BY <3>1, <1>1 DEF Walk
    <3>. QED
      BY <3>2, <2>2, <2>3, <1>3, <1>7
  <2>. QED
    BY <2>4, <2>5
<1>8. CASE src[1] # 0
  <2>1. /\ src[1] \in 1 .. n /\ at[1] \in 1 .. Len(r.nested[o[src[1]]])
        /\ New(r, o, n, r.nested[o[src[1]]][at[1]])
    BY <1>1, <1>6, <1>8 DEF Walk, Added
  <2>2. NestedFollow(r, o, n)
    BY <2>1, <1>1, <1>4
  <2>3. PICK i, p : First(r, o, n, o[n + 1], i, p)
    BY <2>1, <2>2 DEF NestedFollow
  <2>4. PICK j \in 1 .. Len(w) : src[j] = i /\ at[j] = p
    <3>1. /\ i \in 1 .. n /\ p \in 1 .. Len(r.nested[o[i]])
          /\ New(r, o, n, r.nested[o[i]][p])
      BY <2>3, <1>5 DEF First
    <3>2. i \in 0 .. n /\ Added(r, o, o, i) = r.nested[o[i]]
      BY <3>1 DEF Added
    <3>3. \A m \in 0 .. n : \A q \in 1 .. Len(Added(r, o, o, m)) :
            New(r, o, n, Added(r, o, o, m)[q]) =>
              \E k \in 1 .. Len(w) : src[k] = m /\ at[k] = q
      BY DEF Walk
    <3>. QED
      BY <3>1, <3>2, <3>3
  <2>5. src[1] < i \/ (src[1] = i /\ p <= at[1])
    BY <2>1, <2>3 DEF First
  <2>6. CASE j = 1
    <3>1. w[1] = r.nested[o[i]][p]
      BY <2>1, <2>4, <2>6, <1>1 DEF Walk, Added
    <3>. QED
      BY <3>1, <2>3, <1>1, <1>4 DEF First
  <2>7. CASE j # 1
    <3>1. 1 < j /\ i \in 1 .. n /\ at[j] \in Nat
      BY <2>3, <2>7, <1>1 DEF First, Walk
    <3>2. src[j] < src[1] \/ (src[j] = src[1] /\ at[1] < at[j])
      BY <3>1, <1>1 DEF Walk
    <3>. QED
      BY <3>1, <3>2, <2>4, <2>5, <1>6
  <2>. QED
    BY <2>6, <2>7
<1>. QED
  BY <1>4, <1>7, <1>8

\* A walk that begins where nothing nested is new has its worklist as base.
LEMMA WalkBegins ==
  ASSUME NEW r, NEW o, NEW n \in Nat, NEW S, NEW w \in Seq(S),
         \A k \in 1 .. n : \A q \in 1 .. Len(r.nested[o[k]]) :
           ~ New(r, o, n, r.nested[o[k]][q])
  PROVE  \E src, at : Walk(r, w, o, n, w, src, at)
<1> DEFINE src == [j \in 1 .. Len(w) |-> 0]
           at == [j \in 1 .. Len(w) |-> j]
<1>1. /\ Len(w) \in Nat
      /\ \A i \in 0 .. n : i = 0 \/ i \in 1 .. n
  OBVIOUS
<1>2. \A j \in 1 .. Len(w) : src[j] = 0 /\ at[j] = j
  OBVIOUS
<1>3. src \in [1 .. Len(w) -> 0 .. n] /\ at \in [1 .. Len(w) -> Nat]
  BY <1>1
<1>. HIDE DEF src, at
<1>4. \A i \in 0 .. n : \A p \in 1 .. Len(Added(r, o, w, i)) :
        New(r, o, n, Added(r, o, w, i)[p]) => i = 0 /\ p \in 1 .. Len(w)
  BY <1>1 DEF Added
<1>5. \A j \in 1 .. Len(w) : Added(r, o, w, src[j]) = w
  BY <1>2 DEF Added
<1>6. Walk(r, w, o, n, w, src, at)
  BY <1>1, <1>2, <1>3, <1>4, <1>5 DEF Walk
<1>. QED
  BY <1>6

\* Where nothing is visited yet, any list of messages can be walked.
LEMMA WalkStarts ==
  ASSUME NEW r, NEW o, NEW S, NEW w \in Seq(S)
  PROVE  \E src, at : Walk(r, w, o, 0, w, src, at)
<1>1. \A k \in 1 .. 0 : FALSE
  OBVIOUS
<1>2. \A k \in 1 .. 0 : \A q \in 1 .. Len(r.nested[o[k]]) :
        ~ New(r, o, 0, r.nested[o[k]][q])
  BY <1>1
<1>3. 0 \in Nat
  OBVIOUS
<1>. QED
  BY <1>2, <1>3, WalkBegins

\* A walk that has nothing left to visit has left nothing nested unvisited.
LEMMA WalkEnds ==
  ASSUME NEW r, NEW o, NEW n \in Nat, NEW base, NEW src, NEW at,
         Walk(r, <<>>, o, n, base, src, at)
  PROVE  \A k \in 1 .. n : \A q \in 1 .. Len(r.nested[o[k]]) :
           ~ New(r, o, n, r.nested[o[k]][q])
<1>1. ASSUME NEW k \in 1 .. n, NEW q \in 1 .. Len(r.nested[o[k]]),
             New(r, o, n, r.nested[o[k]][q])
      PROVE  FALSE
  <2>1. k \in 0 .. n /\ Added(r, o, base, k) = r.nested[o[k]]
    BY DEF Added
  <2>2. \A i \in 0 .. n : \A p \in 1 .. Len(Added(r, o, base, i)) :
          New(r, o, n, Added(r, o, base, i)[p]) =>
            \E j \in 1 .. Len(<<>>) : src[j] = i /\ at[j] = p
    BY DEF Walk
  <2>3. \E j \in 1 .. Len(<<>>) : src[j] = k /\ at[j] = q
    BY <1>1, <2>1, <2>2
  <2>. QED
    BY <2>3
<1>. QED
  BY <1>1

\* What is new, and the first of it, depends on the first n messages only.
LEMMA SameBeginning ==
  ASSUME NEW r, NEW n \in Nat, NEW o, NEW o2, \A i \in 1 .. n : o2[i] = o[i]
  PROVE  /\ \A m : New(r, o2, n, m) <=> New(r, o, n, m)
         /\ \A m, i, p : First(r, o, n, m, i, p) => First(r, o2, n, m, i, p)
         /\ o2[n + 1] = o[n + 1] /\ NestedFollow(r, o, n) => NestedFollow(r, o2, n)
<1>1. \A m : New(r, o2, n, m) <=> New(r, o, n, m)
  BY DEF New, Visited
<1>2. ASSUME NEW m, NEW i, NEW p, First(r, o, n, m, i, p)
      PROVE  First(r, o2, n, m, i, p)
  <2>1. /\ i \in 1 .. n /\ p \in 1 .. Len(r.nested[o[i]]) /\ r.nested[o[i]][p] = m
        /\ \A k \in 1 .. n : \A q \in 1 .. Len(r.nested[o[k]]) :
             New(r, o, n, r.nested[o[k]][q]) => k < i \/ (k = i /\ p <= q)
    BY <1>2 DEF First
  <2>2. /\ p \in 1 .. Len(r.nested[o2[i]]) /\ r.nested[o2[i]][p] = m
    BY <2>1
  <2>3. \A k \in 1 .. n : \A q \in 1 .. Len(r.nested[o2[k]]) :
          New(r, o2, n, r.nested[o2[k]][q]) => k < i \/ (k = i /\ p <= q)
    BY <2>1, <1>1
  <2>. QED
    BY <2>1, <2>2, <2>3 DEF First
<1>3. ASSUME o2[n + 1] = o[n + 1], NestedFollow(r, o, n),
             NEW k \in 1 .. n, NEW q \in 1 .. Len(r.nested[o2[k]]),
             New(r, o2, n, r.nested[o2[k]][q])
      PROVE  \E i, p : First(r, o2, n, o2[n + 1], i, p)
  <2>1. New(r, o, n, r.nested[o[k]][q]) /\ q \in 1 .. Len(r.nested[o[k]])
    BY <1>1, <1>3
  <2>2. PICK i, p : First(r, o, n, o[n + 1], i, p)
    BY <2>1, <1>3 DEF NestedFollow
  <2>3. First(r, o2, n, o[n + 1], i, p)
    BY <2>2, <1>2
  <2>. QED
    BY <2>3, <1>3
<1>. QED
  BY <1>1, <1>2, <1>3 DEF NestedFollow

\* The walk that collects, the list it makes, and the walk that names, which
\* has always named just the first messages of that list.
CollectWalks ==
  phase = "collect" => \E base, src, at : Walk(in, todo, out, Len(out), base, src, at)

ListFollows == \A n \in 1 .. Len(out) - 1 : NestedFollow(in, out, n)

NameWalks ==
  phase = "name" =>
    \E n \in 0 .. Len(out) :
      Named = Visited(out, n) /\ \E src, at : Walk(in, todo, out, n, out, src, at)

OrderInv == CollectWalks /\ ListFollows /\ NameWalks

LEMMA OrderInitially == Init => OrderInv
<1>. SUFFICES ASSUME Init PROVE OrderInv
  OBVIOUS
<1>1. out = <<>> /\ phase = "collect" /\ Len(out) = 0 /\ todo \in Seq(Messages)
  BY Initially DEF Init, ComponentsInv
<1>2. \E src, at : Walk(in, todo, out, 0, todo, src, at)
  BY <1>1, WalkStarts
<1>. QED
  BY <1>1, <1>2 DEF OrderInv, CollectWalks, ListFollows, NameWalks

\* A step that changes neither walk nor list keeps it.
LEMMA OrderKept ==
  ASSUME OrderInv, UNCHANGED <<in, out>>,
         phase' = "collect" => phase = "collect" /\ todo' = todo,
         phase' = "name" => phase = "name" /\ UNCHANGED <<todo, names>>
  PROVE  OrderInv'
BY DEF OrderInv, CollectWalks, ListFollows, NameWalks, Named

LEMMA OrderSkip == ComponentsInv /\ OrderInv /\ SkipMessage => OrderInv'
<1>. SUFFICES ASSUME ComponentsInv, OrderInv, SkipMessage PROVE OrderInv'
  OBVIOUS
<1>. DEFINE n == Len(out)
<1>1. /\ todo \in Seq(Messages) /\ todo # <<>> /\ out \in Seq(Messages) /\ n \in Nat
      /\ phase = "collect" /\ todo' = Tail(todo) /\ UNCHANGED <<in, phase, out>>
      /\ Head(todo) \in in.omitted \cup Range(out)
  BY VisitNothing DEF ComponentsInv, SkipMessage, Running, VisitThen
<1>2. ~ New(in, out, n, Head(todo))
  BY <1>1, RangeEquality DEF New, Visited
<1>3. PICK base, src, at : Walk(in, todo, out, n, base, src, at)
  BY <1>1 DEF OrderInv, CollectWalks
<1>4. \E s, a : Walk(in, Tail(todo), out, n, base, s, a)
  BY <1>1, <1>2, <1>3, WalkSkip
<1>. QED
  BY <1>1, <1>4 DEF OrderInv, CollectWalks, ListFollows, NameWalks

LEMMA OrderAppend == ComponentsInv /\ OrderInv /\ AppendMessage => OrderInv'
<1>. SUFFICES ASSUME ComponentsInv, OrderInv, AppendMessage PROVE OrderInv'
  OBVIOUS
<1>. DEFINE n == Len(out)
            m == Head(todo)
<1>1. /\ todo \in Seq(Messages) /\ todo # <<>> /\ out \in Seq(Messages) /\ n \in Nat
      /\ m \in Messages
      /\ phase = "collect" /\ todo' = in.nested[m] \o Tail(todo)
      /\ UNCHANGED <<in, phase>> /\ out' = Append(out, m)
  BY HeadTail DEF ComponentsInv, AppendMessage, Running, VisitThen
<1>2. in.nested[m] \in Seq(Messages)
  BY <1>1, MessageOptions DEF ComponentsInv
<1>3. /\ Len(out') = n + 1 /\ out'[n + 1] = m
      /\ \A i \in 1 .. n : out'[i] = out[i]
  BY <1>1
<1>4. PICK base, src, at : Walk(in, todo, out, n, base, src, at)
  BY <1>1 DEF OrderInv, CollectWalks
<1>. HIDE DEF n, m
<1>5. \E s, a : Walk(in, in.nested[m] \o Tail(todo), out', n + 1, base, s, a)
  <2>1. PICK t \in Seq(Messages) : t = in.nested[m]
    BY <1>2
  <2>2. \E s, a : Walk(in, t \o Tail(todo), out', n + 1, base, s, a)
    <3>1. out'[n + 1] = Head(todo) /\ t = in.nested[Head(todo)]
      BY <2>1, <1>3 DEF m
    <3>2. /\ n \in Nat /\ todo \in Seq(Messages) /\ todo # <<>>
          /\ Walk(in, todo, out, n, base, src, at) /\ t \in Seq(Messages)
          /\ \A i \in 1 .. n : out'[i] = out[i]
      BY <1>1, <1>3, <1>4
    <3>3. ASSUME NEW o2, \A i \in 1 .. n : o2[i] = out[i], o2[n + 1] = Head(todo)
          PROVE  \E s, a : Walk(in, t \o Tail(todo), o2, n + 1, base, s, a)
      BY <3>1, <3>2, <3>3, WalkTake
    <3>. QED
      BY <3>1, <3>2, <3>3
  <2>. QED
    BY <2>1, <2>2
<1>6. ASSUME NEW x \in 1 .. n PROVE NestedFollow(in, out', x)
  <2>1. CASE x < n
    <3>1. NestedFollow(in, out, x) /\ x \in Nat /\ out'[x + 1] = out[x + 1]
      BY <2>1, <1>1, <1>3 DEF OrderInv, ListFollows, n
    <3>2. \A i \in 1 .. x : out'[i] = out[i]
      BY <1>3, <1>1
    <3>. QED
      BY <3>1, <3>2, SameBeginning
  <2>2. CASE x = n
    <3>1. ASSUME NEW k \in 1 .. n, NEW q \in 1 .. Len(in.nested[out'[k]]),
                 New(in, out', n, in.nested[out'[k]][q])
          PROVE  \E i, p : First(in, out', n, m, i, p)
      <4>1. /\ q \in 1 .. Len(in.nested[out[k]])
            /\ New(in, out, n, in.nested[out[k]][q])
        BY <3>1, <1>1, <1>3, SameBeginning
      <4>2. First(in, out, n, m, src[1], at[1])
        BY <4>1, <1>1, <1>4, WalkFirst DEF m
      <4>3. First(in, out', n, m, src[1], at[1])
        BY <4>2, <1>1, <1>3, SameBeginning
      <4>. QED
        BY <4>3
    <3>. QED
      BY <3>1, <2>2, <1>3 DEF NestedFollow
  <2>. QED
    BY <2>1, <2>2, <1>1
<1>. QED
  BY <1>1, <1>3, <1>5, <1>6 DEF OrderInv, CollectWalks, ListFollows, NameWalks

\* A walk over new fields, or over the list, begins where nothing is new.
LEMMA OrderFollow == ComponentsInv /\ OrderInv /\ FollowFields => OrderInv'
<1>. SUFFICES ASSUME ComponentsInv, OrderInv, FollowFields PROVE OrderInv'
  OBVIOUS
<1>1. /\ todo = <<>> /\ Len(out) \in Nat /\ phase = "collect" /\ phase' = "collect"
      /\ UNCHANGED <<in, out>> /\ todo' \in Seq(Messages)
  BY FollowFieldsStep DEF ComponentsInv, FollowFields, Running
<1>2. PICK base, src, at : Walk(in, <<>>, out, Len(out), base, src, at)
  BY <1>1 DEF OrderInv, CollectWalks
<1>3. \A k \in 1 .. Len(out) : \A q \in 1 .. Len(in.nested[out[k]]) :
        ~ New(in, out, Len(out), in.nested[out[k]][q])
  BY <1>1, <1>2, WalkEnds
<1>4. \E s, a : Walk(in, todo', out, Len(out), todo', s, a)
  BY <1>1, <1>3, WalkBegins
<1>. QED
  BY <1>1, <1>4 DEF OrderInv, CollectWalks, ListFollows, NameWalks

LEMMA OrderCollected == ComponentsInv /\ OrderInv /\ Collected => OrderInv'
<1>. SUFFICES ASSUME ComponentsInv, OrderInv, Collected PROVE OrderInv'
  OBVIOUS
<1>1. /\ out \in Seq(Messages) /\ Len(out) \in Nat /\ phase = "collect" /\ phase' = "name"
      /\ UNCHANGED <<in, out, names>> /\ todo' = out /\ Named = {}
  BY DEF ComponentsInv, NameInv, Collected, Running
<1>2. \E s, a : Walk(in, out, out, 0, out, s, a)
  BY <1>1, WalkStarts
<1>3. Visited(out, 0) = {} /\ Named' = {} /\ 0 \in 0 .. Len(out)
  BY <1>1 DEF Visited, Named
<1>. QED
  BY <1>1, <1>2, <1>3 DEF OrderInv, CollectWalks, ListFollows, NameWalks

LEMMA OrderNameSkip == ComponentsInv /\ OrderInv /\ NameSkip => OrderInv'
<1>. SUFFICES ASSUME ComponentsInv, OrderInv, NameSkip PROVE OrderInv'
  OBVIOUS
<1>1. /\ todo \in Seq(Messages) /\ todo # <<>> /\ Len(out) \in Nat
      /\ phase = "name" /\ todo' = Tail(todo) /\ UNCHANGED <<in, phase, out, names>>
      /\ Head(todo) \in in.omitted \cup Named
  BY VisitNothing DEF ComponentsInv, NameSkip, Running, VisitThen
<1>2. PICK n \in 0 .. Len(out) :
        Named = Visited(out, n) /\ \E src, at : Walk(in, todo, out, n, out, src, at)
  BY <1>1 DEF OrderInv, NameWalks
<1>3. PICK src, at : Walk(in, todo, out, n, out, src, at)
  BY <1>2
<1>4. ~ New(in, out, n, Head(todo)) /\ n \in Nat
  BY <1>1, <1>2 DEF New
<1>5. \E s, a : Walk(in, Tail(todo), out, n, out, s, a)
  BY <1>1, <1>3, <1>4, WalkSkip
<1>. QED
  BY <1>1, <1>2, <1>5 DEF OrderInv, CollectWalks, ListFollows, NameWalks, Named

\* The message that gets its name is the one collected next to the last that
\* did.
LEMMA TakesInOrder ==
  ASSUME ComponentsInv, LeastInv, OrderInv, NameTake
  PROVE  \E n \in 0 .. Len(out) :
           /\ n + 1 \in 1 .. Len(out) /\ Head(todo) = out[n + 1]
           /\ Named = Visited(out, n) /\ Named' = Visited(out, n + 1)
           /\ \E src, at : Walk(in, todo', out, n + 1, out, src, at)
<1>. DEFINE m == Head(todo)
<1>1. /\ todo \in Seq(Messages) /\ todo # <<>> /\ out \in Seq(Messages) /\ Len(out) \in Nat
      /\ m \in Messages /\ m \in Range(todo) /\ phase = "name"
      /\ todo' = in.nested[m] \o Tail(todo) /\ m \notin in.omitted \cup Named
      /\ Named' = Named \cup {m}
  BY HeadTail DEF ComponentsInv, NameTake, Running, VisitThen, Unnamed, Named
<1>2. in.nested[m] \in Seq(Messages)
  BY <1>1, MessageOptions DEF ComponentsInv
<1>3. m \in Range(out)
  BY <1>1 DEF ComponentsInv, NameInv
<1>4. PICK n \in 0 .. Len(out) :
        Named = Visited(out, n) /\ \E src, at : Walk(in, todo, out, n, out, src, at)
  BY <1>1 DEF OrderInv, NameWalks
<1>5. PICK src, at : Walk(in, todo, out, n, out, src, at)
  BY <1>4
<1>6. New(in, out, n, m) /\ n \in Nat
  BY <1>1, <1>4 DEF New
<1>7. \A i, j \in 1 .. Len(out) : out[i] = out[j] => i = j
  BY DEF LeastInv
<1>8. \A i \in 1 .. Len(out) : out[i] \notin in.omitted
  BY <1>1, RangeEquality DEF ComponentsInv, CollectInv
<1>9. n \in 1 .. Len(out) - 1 => NestedFollow(in, out, n)
  BY DEF OrderInv, ListFollows
<1>10. n + 1 \in 1 .. Len(out) /\ m = out[n + 1]
  BY <1>1, <1>3, <1>5, <1>6, <1>7, <1>8, <1>9, NextNamed
<1>11. \E s, a : Walk(in, in.nested[m] \o Tail(todo), out, n + 1, out, s, a)
  BY <1>1, <1>2, <1>5, <1>6, <1>10, WalkTake
<1>12. Visited(out, n + 1) = Visited(out, n) \cup {out[n + 1]}
  BY <1>6 DEF Visited
<1>. QED
  BY <1>1, <1>4, <1>10, <1>11, <1>12

LEMMA OrderTake == ComponentsInv /\ LeastInv /\ OrderInv /\ NameTake => OrderInv'
<1>. SUFFICES ASSUME ComponentsInv, LeastInv, OrderInv, NameTake PROVE OrderInv'
  OBVIOUS
<1>1. UNCHANGED <<in, phase, out>> /\ phase = "name"
  BY DEF NameTake, Running
<1>2. PICK n \in 0 .. Len(out) :
        /\ n + 1 \in 1 .. Len(out) /\ Named' = Visited(out, n + 1)
        /\ \E src, at : Walk(in, todo', out, n + 1, out, src, at)
  BY TakesInOrder
<1>3. n + 1 \in 0 .. Len(out)
  BY <1>2
<1>. QED
  BY <1>1, <1>2, <1>3 DEF OrderInv, CollectWalks, ListFollows, NameWalks

LEMMA OrderStep == ComponentsInv /\ LeastInv /\ OrderInv /\ [Next]_vars => OrderInv'
<1>. SUFFICES ASSUME ComponentsInv, LeastInv, OrderInv, [Next]_vars PROVE OrderInv'
  OBVIOUS
<1>1. CASE Collect
  BY <1>1, OrderSkip, OrderAppend, OrderFollow, OrderCollected DEF Collect
<1>2. CASE NameSkip
  BY <1>2, OrderNameSkip
<1>3. CASE NameTry
  BY <1>3, OrderKept DEF NameTry, Running
<1>4. CASE NameTake
  BY <1>4, OrderTake
<1>5. CASE NamesDone
  BY <1>5, OrderKept DEF NamesDone, Running
<1>6. CASE Render
  BY <1>6, OrderKept DEF Render, FieldSkip, FieldRef, FieldInline, Overflow, InlineDone, AtField
<1>7. CASE Paths
  BY <1>7, OrderKept DEF Paths, PathWritten, PathRef, PathInline, PathInlineDone, PathsDone, Running
<1>8. CASE Emit
  BY <1>8, OrderKept DEF Emit, EmitSkip, EmitBegin, EmitDone, Emitted, Running
<1>9. CASE UNCHANGED vars
  BY <1>9, OrderKept DEF vars
<1>. QED
  BY <1>1, <1>2, <1>3, <1>4, <1>5, <1>6, <1>7, <1>8, <1>9 DEF Next, Name, Terminated

-----------------------------------------------------------------------------
(* A name is only changed on a clash *)

LEMMA SuffixStep == ComponentsInv /\ SuffixInv /\ [Next]_vars => SuffixInv'
<1>. SUFFICES ASSUME ComponentsInv, SuffixInv, [Next]_vars PROVE SuffixInv'
  OBVIOUS
<1>1. CASE Collect
  BY <1>1 DEF Collect, SkipMessage, AppendMessage, FollowFields, Collected, Running, SuffixInv
<1>2. CASE NameSkip
  BY <1>2 DEF NameSkip, SuffixInv, Unnamed
<1>3. CASE NameTry
  <2>1. /\ UNCHANGED <<in, phase, todo, names>> /\ phase = "name" /\ todo # <<>>
        /\ Unnamed(Head(todo)) /\ Candidate(Head(todo)) \in Used
    BY <1>3 DEF NameTry, Running
  <2>2. Wanted(Head(todo)) \in Used
    BY <2>1 DEF SuffixInv, Candidate
  <2>. QED
    BY <2>1, <2>2 DEF SuffixInv, Unnamed, Wanted, Used, Named
<1>4. CASE NameTake
  BY <1>4 DEF NameTake, SuffixInv
<1>5. CASE NamesDone
  BY <1>5 DEF NamesDone, SuffixInv, Running
<1>6. CASE Render
  BY <1>6 DEF Render, FieldSkip, FieldRef, FieldInline, Overflow, InlineDone, AtField, SuffixInv
<1>7. CASE Paths
  BY <1>7 DEF Paths, PathWritten, PathRef, PathInline, PathInlineDone, PathsDone, Running, SuffixInv
<1>8. CASE Emit
  BY <1>8 DEF Emit, EmitSkip, EmitBegin, EmitDone, Emitted, Running, SuffixInv
<1>9. CASE UNCHANGED vars
  BY <1>9 DEF vars, SuffixInv, Unnamed, Wanted, Used, Named
<1>. QED
  BY <1>1, <1>2, <1>3, <1>4, <1>5, <1>6, <1>7, <1>8, <1>9 DEF Next, Name, Terminated

\* A step that names nobody, and collects nobody once somebody is named.
LEMMA RenamedKept ==
  ASSUME RenamedOnlyOnClash, UNCHANGED <<in, names>>, UNCHANGED out \/ Named = {}
  PROVE  RenamedOnlyOnClash'
BY DEF RenamedOnlyOnClash, Named, Wanted

LEMMA RenamedTake ==
  ASSUME ComponentsInv, LeastInv, OrderInv, SuffixInv, RenamedOnlyOnClash, NameTake
  PROVE  RenamedOnlyOnClash'
<1>. DEFINE m == Head(todo)
<1>1. /\ UNCHANGED <<in, out>> /\ m \notin Named /\ out \in Seq(Messages)
      /\ names' = [x \in Named \cup {m} |-> IF x = m THEN Candidate(x) ELSE names[x]]
  BY DEF NameTake, Unnamed, ComponentsInv
<1>2. /\ Named' = Named \cup {m} /\ names'[m] = Candidate(m)
      /\ \A x \in Named : names'[x] = names[x]
  BY <1>1 DEF Named
<1>3. PICK n \in 0 .. Len(out) :
        n + 1 \in 1 .. Len(out) /\ m = out[n + 1] /\ Named = Visited(out, n)
  BY TakesInOrder
<1>4. \A i, j \in 1 .. Len(out) : out[i] = out[j] => i = j
  BY DEF LeastInv
<1>5. \A x : Wanted(x)' = Wanted(x)
  BY <1>1 DEF Wanted
<1>. HIDE DEF m
<1>6. ASSUME NEW i \in DOMAIN out, out[i] \in Named', names'[out[i]] # Wanted(out[i])
      PROVE  \E j \in 1 .. i - 1 : out[j] \in Named' /\ names'[out[j]] = Wanted(out[i])
  <2>0. i \in 1 .. Len(out) /\ Len(out) \in Nat
    BY <1>1
  <2>1. CASE out[i] = m
    <3>1. i = n + 1
      BY <2>0, <2>1, <1>3, <1>4
    <3>2. suffix # 0
      BY <2>1, <1>2, <1>6 DEF Candidate
    <3>3. Wanted(m) \in Used
      BY <3>2 DEF SuffixInv, m
    <3>4. PICK x \in Named : names[x] = Wanted(m)
      BY <3>3 DEF Used
    <3>5. PICK j \in 1 .. n : x = out[j]
      BY <3>4, <1>3 DEF Visited
    <3>. QED
      BY <3>1, <3>4, <3>5, <2>1, <1>2
  <2>2. CASE out[i] # m
    <3>1. out[i] \in Named /\ names[out[i]] # Wanted(out[i])
      BY <2>2, <1>2, <1>6
    <3>2. PICK j \in 1 .. i - 1 : out[j] \in Named /\ names[out[j]] = Wanted(out[i])
      BY <3>1, <1>6 DEF RenamedOnlyOnClash
    <3>. QED
      BY <3>2, <1>2
  <2>. QED
    BY <2>1, <2>2
<1>. QED
  BY <1>1, <1>5, <1>6 DEF RenamedOnlyOnClash

LEMMA RenamedStep ==
  ComponentsInv /\ LeastInv /\ OrderInv /\ SuffixInv /\ RenamedOnlyOnClash /\ [Next]_vars
    => RenamedOnlyOnClash'
<1>. SUFFICES ASSUME ComponentsInv, LeastInv, OrderInv, SuffixInv, RenamedOnlyOnClash,
                     [Next]_vars
              PROVE  RenamedOnlyOnClash'
  OBVIOUS
<1>1. CASE Collect
  <2>1. Named = {} /\ UNCHANGED <<in, names>>
    BY <1>1 DEF Collect, SkipMessage, AppendMessage, FollowFields, Collected, Running,
                ComponentsInv, NameInv
  <2>. QED
    BY <2>1, RenamedKept
<1>2. CASE NameTake
  BY <1>2, RenamedTake
<1>3. CASE NameSkip \/ NameTry \/ NamesDone
  BY <1>3, RenamedKept DEF NameSkip, NameTry, NamesDone
<1>4. CASE Render
  BY <1>4, RenamedKept DEF Render, FieldSkip, FieldRef, FieldInline, Overflow, InlineDone
<1>5. CASE Paths
  BY <1>5, RenamedKept DEF Paths, PathWritten, PathRef, PathInline, PathInlineDone, PathsDone
<1>6. CASE Emit
  BY <1>6, RenamedKept DEF Emit, EmitSkip, EmitBegin, EmitDone, Emitted
<1>7. CASE UNCHANGED vars
  BY <1>7, RenamedKept DEF vars
<1>. QED
  BY <1>1, <1>2, <1>3, <1>4, <1>5, <1>6, <1>7 DEF Next, Name, Terminated

\* A component is named otherwise than its message asks for only when a message
\* collected before it has that name: collectComponentNames walks the nesting in
\* the order in which bundleMessages collected, so that names never depend on
\* anything but the order of files and fields.
THEOREM RenamesOnlyOnClash == Spec => []RenamedOnlyOnClash
<1>1. Init => SuffixInv /\ RenamedOnlyOnClash
  BY DEF Init, SuffixInv, RenamedOnlyOnClash
<1>. QED
  BY <1>1, Initially, LeastInitially, OrderInitially,
     NextStep, LeastStep, OrderStep, SuffixStep, RenamedStep, PTL DEF Spec

\* A $ref that is written by hand, and that nothing checks, resolves whenever a
\* message that is collected asks for the name in it, and to the first of them
\* unless a message collected before has been given that name.
THEOREM WrittenRefsAlwaysResolve == Spec => []WrittenRefsResolve
<1>1. ComponentsInv /\ RenamedOnlyOnClash => WrittenRefsResolve
  <2>. SUFFICES ASSUME ComponentsInv, RenamedOnlyOnClash, phase = "done",
                       NEW r \in refs, NEW i \in DOMAIN out, Wanted(out[i]) = r.name
                PROVE  /\ r.name \in DOMAIN schemas
                       /\ \/ schemas[r.name] = out[i]
                          \/ \E j \in 1 .. i - 1 : schemas[r.name] = out[j]
    BY DEF WrittenRefsResolve
  <2>1. Named = Range(out) /\ out \in Seq(Messages)
    BY DEF ComponentsInv, NameInv
  <2>2. \A m \in Range(out) : Described(m)
    BY EmptyRange DEF ComponentsInv, RenderInv
  <2>3. \A k \in 1 .. Len(out) : out[k] \in Range(out)
    BY <2>1, RangeEquality
  <2>4. i \in 1 .. Len(out) /\ Len(out) \in Nat
    BY <2>1
  <2>5. CASE names[out[i]] = Wanted(out[i])
    BY <2>2, <2>3, <2>4, <2>5 DEF Described
  <2>6. CASE names[out[i]] # Wanted(out[i])
    <3>1. PICK j \in 1 .. i - 1 : out[j] \in Named /\ names[out[j]] = Wanted(out[i])
      BY <2>1, <2>3, <2>4, <2>6 DEF RenamedOnlyOnClash
    <3>2. Described(out[j])
      BY <2>1, <2>2, <3>1
    <3>. QED
      BY <3>1, <3>2 DEF Described
  <2>. QED
    BY <2>5, <2>6
<1>. QED
  BY <1>1, ComponentsInvariant, RenamesOnlyOnClash, PTL

-----------------------------------------------------------------------------
(* Every variable holds a value of its kind *)

TypeInv ==
  /\ Used \subseteq Names /\ suffix \in Nat \ {1} /\ Len(frames) <= MaxDepth
  /\ refs \subseteq [name: Names, to: Messages \cup {ByHand}]
  /\ DOMAIN schemas \subseteq Names
  /\ \A n \in DOMAIN schemas : schemas[n] \in Messages

\* pathsObject has never more to do than there are operations.
OpsInv == phase = "paths" => Len(todo) <= Len(in.ops)

LEMMA OpsStep == ComponentsInv /\ OpsInv /\ [Next]_vars => OpsInv'
<1>. SUFFICES ASSUME ComponentsInv, OpsInv, [Next]_vars PROVE OpsInv'
  OBVIOUS
<1>1. CASE NamesDone
  BY <1>1, OpMessages DEF NamesDone, OpsInv, ComponentsInv
<1>2. CASE PathWritten \/ PathRef \/ PathInlineDone
  <2>1. /\ todo \in Seq(Messages) /\ todo # <<>> /\ todo' = <<>> \o Tail(todo)
        /\ phase = "paths" /\ UNCHANGED in
    <3>1. CASE PathInlineDone
      <4>1. frames # <<>>
        BY <3>1 DEF PathInlineDone
      <4>. QED
        BY <3>1, <4>1 DEF PathInlineDone, VisitThen, ComponentsInv, RenderInv
    <3>. QED
      BY <1>2, <3>1 DEF PathWritten, PathRef, Running, VisitThen, ComponentsInv
  <2>2. todo' = Tail(todo) /\ Len(todo') = Len(todo) - 1 /\ Len(todo) \in Nat
    BY <2>1, VisitNothing
  <2>3. Len(in.ops) \in Nat
    BY OpMessages DEF ComponentsInv
  <2>. QED
    BY <2>1, <2>2, <2>3 DEF OpsInv
<1>3. CASE PathInline
  BY <1>3 DEF PathInline, OpsInv
<1>4. CASE PathsDone
  BY <1>4 DEF PathsDone, OpsInv
<1>5. CASE Collect \/ NameSkip \/ NameTry \/ NameTake
  BY <1>5 DEF Collect, SkipMessage, AppendMessage, FollowFields, Collected,
              NameSkip, NameTry, NameTake, Running, OpsInv
<1>6. CASE Render
  BY <1>6 DEF Render, FieldSkip, FieldRef, FieldInline, Overflow, InlineDone, OpsInv
<1>7. CASE Emit
  BY <1>7 DEF Emit, EmitSkip, EmitBegin, EmitDone, Emitted, Running, OpsInv
<1>8. CASE UNCHANGED vars
  BY <1>8 DEF vars, OpsInv
<1>. QED
  BY <1>1, <1>2, <1>3, <1>4, <1>5, <1>6, <1>7, <1>8 DEF Next, Name, Paths, Terminated

\* What a message asks for, and every name tried in its place, is a name.
LEMMA CandidateType ==
  ASSUME InputOK(in), suffix \in Nat, NEW m \in Messages
  PROVE  Candidate(m) \in Names
<1>1. Wanted(m) \in Names
  BY DEF InputOK, Wanted
<1>2. Shift[suffix] \in Nat
  BY ShiftType
<1>3. \A w \in Names : \A s \in Nat :
        [w EXCEPT !.num = @ * s + suffix] \in Names
  BY DEF Names
<1>. QED
  BY <1>1, <1>2, <1>3 DEF Candidate

\* The messages with a name are messages, and their names are names.
LEMMA NamedType ==
  ASSUME ComponentsInv, TypeInv, NEW m \in Named
  PROVE  /\ m \in Messages /\ names[m] \in Names
         /\ Ref(m) \in [name: Names, to: Messages \cup {ByHand}]
<1>1. m \in Range(out) /\ out \in Seq(Messages)
  BY DEF ComponentsInv, NameInv
<1>2. m \in Messages
  BY <1>1, RangeOfSeq
<1>3. names[m] \in Names
  BY DEF TypeInv, Used
<1>. QED
  BY <1>2, <1>3 DEF Ref

LEMMA TypeInitially == Init => TypeInv
<1>. SUFFICES ASSUME Init PROVE TypeInv
  OBVIOUS
<1>1. DOMAIN names = {} /\ DOMAIN schemas = {} /\ suffix = 0 /\ refs = {} /\ Len(frames) = 0
  BY DEF Init
<1>. QED
  BY <1>1, ComponentsAssumption DEF TypeInv, Used, Named

\* A step of the walks, or one that only goes on in the field at hand.
LEMMA TypeKept ==
  ASSUME TypeInv, UNCHANGED <<names, suffix, refs, schemas>>, Len(frames') <= MaxDepth
  PROVE  TypeInv'
BY DEF TypeInv, Used, Named

\* A call of objectSchema, for a field or for a message of the worklist.
LEMMA TypeEnter ==
  ASSUME ComponentsInv, TypeInv, NEW m \in Messages, refs' = refs \cup EnterRefs(m),
         UNCHANGED <<names, suffix, schemas>>, Len(frames') <= MaxDepth
  PROVE  TypeInv'
<1>1. EnterRefs(m) \subseteq [name: Names, to: {ByHand}]
  BY EnterRefsByHand DEF ComponentsInv
<1>2. refs' \subseteq [name: Names, to: Messages \cup {ByHand}]
  BY <1>1 DEF TypeInv
<1>. QED
  BY <1>2 DEF TypeInv, Used, Named

LEMMA TypeNaming ==
  ASSUME ComponentsInv, TypeInv, Name
  PROVE  TypeInv'
<1>1. CASE NameSkip \/ NamesDone
  BY <1>1, TypeKept DEF NameSkip, NamesDone, TypeInv
<1>2. CASE NameTry
  BY <1>2 DEF NameTry, TypeInv, Used, Named
<1>3. CASE NameTake
  <2>. DEFINE m == Head(todo)
  <2>1. /\ todo \in Seq(Messages) /\ m \in Messages /\ InputOK(in)
        /\ names' = [x \in Named \cup {m} |-> IF x = m THEN Candidate(x) ELSE names[x]]
        /\ suffix' = 0 /\ UNCHANGED <<frames, refs, schemas>>
    BY <1>3, HeadTail DEF ComponentsInv, NameTake
  <2>2. Candidate(m) \in Names
    BY <2>1, CandidateType DEF TypeInv
  <2>3. \A x \in Named : names[x] \in Names
    BY DEF TypeInv, Used
  <2>4. Used' \subseteq Names
    BY <2>1, <2>2, <2>3 DEF Used, Named
  <2>. QED
    BY <2>1, <2>4 DEF TypeInv
<1>. QED
  BY <1>1, <1>2, <1>3 DEF Name

LEMMA TypeRender ==
  ASSUME ComponentsInv, TypeInv, Render
  PROVE  TypeInv'
<1>0. frames \in Seq(Frame) /\ Len(frames) \in Nat /\ Len(frames) <= MaxDepth
  BY DEF ComponentsInv, TypeInv
<1>1. CASE FieldSkip
  <2>1. Len(frames') = Len(frames)
    BY <1>0, <1>1 DEF FieldSkip, TopNext
  <2>. QED
    BY <1>0, <1>1, <2>1, TypeKept DEF FieldSkip
<1>2. CASE FieldRef
  <2>1. Len(frames') = Len(frames) /\ refs' = refs \cup {Ref(Shown)} /\ Shown \in Named
        /\ UNCHANGED <<names, suffix, schemas>>
    BY <1>0, <1>2 DEF FieldRef, TopNext
  <2>2. Ref(Shown) \in [name: Names, to: Messages \cup {ByHand}]
    BY <2>1, NamedType
  <2>. QED
    BY <1>0, <2>1, <2>2 DEF TypeInv, Used, Named
<1>3. CASE FieldInline
  <2>1. frames # <<>> /\ Len(frames) < MaxDepth /\ frames' = Append(TopNext, Enter(Shown))
        /\ refs' = refs \cup EnterRefs(Shown) /\ Top.left # <<>>
        /\ UNCHANGED <<names, suffix, schemas>>
    BY <1>3 DEF FieldInline, AtField
  <2>2. /\ Len(TopNext) = Len(frames) /\ TopNext \in Seq(Frame)
        /\ Head(Top.left) \in Field
    BY <1>0, <2>1, TopFrame
  <2>5. Shown \in Messages
    BY <2>2 DEF Shown, Field
  <2>3. Len(frames') = Len(frames) + 1
    BY <2>1, <2>2
  <2>4. Len(frames') <= MaxDepth
    BY <1>0, <2>1, <2>3, ComponentsAssumption
  <2>. QED
    BY <2>1, <2>4, <2>5, TypeEnter
<1>4. CASE Overflow
  BY <1>0, <1>4, TypeKept DEF Overflow
<1>5. CASE InlineDone
  <2>1. Len(frames') = Len(frames) - 1
    BY <1>0, <1>5 DEF InlineDone, Front
  <2>2. Len(frames') <= MaxDepth
    BY <1>0, <2>1, ComponentsAssumption
  <2>. QED
    BY <1>5, <2>2, TypeKept DEF InlineDone
<1>. QED
  BY <1>1, <1>2, <1>3, <1>4, <1>5 DEF Render

LEMMA TypePaths ==
  ASSUME ComponentsInv, TypeInv, OpsInv, Paths
  PROVE  TypeInv'
<1>1. CASE PathRef
  <2>1. refs' = refs \cup {Ref(Head(todo))} /\ Head(todo) \in Named
        /\ UNCHANGED <<names, suffix, frames, schemas>>
    BY <1>1 DEF PathRef
  <2>2. Ref(Head(todo)) \in [name: Names, to: Messages \cup {ByHand}]
    BY <2>1, NamedType
  <2>. QED
    BY <2>1, <2>2 DEF TypeInv, Used, Named
<1>2. CASE PathInline
  <2>1. Len(frames') = 1 /\ 1 <= MaxDepth
    BY <1>2, ComponentsAssumption DEF PathInline
  <2>2. Head(todo) \in Messages
    BY <1>2, HeadTail DEF PathInline, ComponentsInv
  <2>. QED
    BY <1>2, <2>1, <2>2, TypeEnter DEF PathInline
<1>3. CASE PathInlineDone
  <2>1. Len(frames') = 0 /\ 0 <= MaxDepth
    BY <1>3, ComponentsAssumption DEF PathInlineDone
  <2>. QED
    BY <1>3, <2>1, TypeKept DEF PathInlineDone
<1>4. CASE PathsDone
  BY <1>4, TypeKept DEF PathsDone, TypeInv
<1>5. CASE PathWritten
  <2>1. /\ phase = "paths" /\ todo # <<>> /\ todo \in Seq(Messages) /\ AtOp.ref # NoName
        /\ refs' = refs \cup {[name |-> AtOp.ref, to |-> ByHand]}
        /\ UNCHANGED <<names, suffix, frames, schemas>> /\ InputOK(in)
    BY <1>5 DEF PathWritten, Running, ComponentsInv
  <2>2. Len(todo) \in Nat \ {0} /\ Len(in.ops) \in Nat /\ Len(todo) <= Len(in.ops)
    BY <2>1, OpMessages DEF OpsInv
  <2>3. Len(in.ops) - Len(todo) + 1 \in 1 .. Len(in.ops)
    BY <2>2
  <2>4. AtOp \in Op
    BY <2>1, <2>3 DEF AtOp, InputOK
  <2>5. AtOp.ref \in Names
    BY <2>1, <2>4 DEF Op
  <2>. QED
    BY <2>1, <2>5 DEF TypeInv, Used, Named
<1>. QED
  BY <1>1, <1>2, <1>3, <1>4, <1>5 DEF Paths

LEMMA TypeEmit ==
  ASSUME ComponentsInv, TypeInv, Emit
  PROVE  TypeInv'
<1>1. CASE EmitSkip \/ Emitted
  BY <1>1, TypeKept DEF EmitSkip, Emitted, TypeInv
<1>2. CASE EmitBegin
  <2>1. Len(frames') = 1 /\ 1 <= MaxDepth
    BY <1>2, ComponentsAssumption DEF EmitBegin
  <2>2. Head(todo) \in Messages
    BY <1>2, HeadTail DEF EmitBegin, ComponentsInv
  <2>. QED
    BY <1>2, <2>1, <2>2, TypeEnter DEF EmitBegin
<1>3. CASE EmitDone
  <2>. DEFINE m == Top.msg
  <2>1. /\ schemas' = [n \in DOMAIN schemas \cup {names[m]} |->
                         IF n = names[m] THEN m ELSE schemas[n]]
        /\ UNCHANGED <<names, suffix, refs>> /\ frames' = <<>>
    BY <1>3 DEF EmitDone
  <2>2. m = frames[1].msg /\ frames # <<>> /\ phase = "emit"
    BY <1>3 DEF EmitDone, Top
  <2>3. m \in Named
    BY <2>2 DEF ComponentsInv, RenderInv
  <2>4. m \in Messages /\ names[m] \in Names
    BY <2>3, NamedType
  <2>5. Len(frames') <= MaxDepth
    BY <2>1, ComponentsAssumption
  <2>. QED
    BY <2>1, <2>4, <2>5 DEF TypeInv, Used, Named
<1>. QED
  BY <1>1, <1>2, <1>3 DEF Emit

LEMMA TypeStep == ComponentsInv /\ TypeInv /\ OpsInv /\ [Next]_vars => TypeInv'
<1>. SUFFICES ASSUME ComponentsInv, TypeInv, OpsInv, [Next]_vars PROVE TypeInv'
  OBVIOUS
<1>1. CASE Collect
  BY <1>1, TypeKept
     DEF Collect, SkipMessage, AppendMessage, FollowFields, Collected, TypeInv
<1>2. CASE UNCHANGED vars
  BY <1>2, TypeKept DEF vars, TypeInv
<1>. QED
  BY <1>1, <1>2, TypeNaming, TypeRender, TypePaths, TypeEmit DEF Next, Terminated

\* Every variable holds a value of its kind: among others the numbers written
\* behind names are numbers, whatever digits are already there, and the calls
\* of objectSchema never go deeper than the stack.
THEOREM ComponentsTypes == Spec => []TypeOK
<1>1. ComponentsInv /\ TypeInv => TypeOK
  <2>1. ComponentsInv /\ TypeInv => Named \subseteq Messages
    BY NamedType
  <2>. QED
    BY <2>1 DEF ComponentsInv, TypeInv, TypeOK, PosBound
<1>2. Init => OpsInv
  BY DEF Init, OpsInv
<1>. QED
  BY <1>1, <1>2, Initially, TypeInitially, NextStep, TypeStep, OpsStep, PTL DEF Spec

=============================================================================
