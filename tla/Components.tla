----------------------------- MODULE Components -----------------------------
(***************************************************************************)
(* How src/generator/openapi.go turns the messages of a bundle into the    *)
(* schemas of the OpenAPI document: it collects the messages of the marked *)
(* files and all their fields reach (bundleMessages), gives each of them a *)
(* component name (collectComponentNames), renders the operations, which   *)
(* refer to components (pathsObject), and then the components themselves   *)
(* (schemasObject).  A message that has no component name is expanded      *)
(* where it is used, by the recursion of objectSchema.                     *)
(*                                                                         *)
(* Three recursions of the code walk trees (appendBundleMessage,           *)
(* collectComponentNames, appendSchemas): each is a worklist `todo` whose  *)
(* head is the message being visited.  The fourth (objectSchema) is the    *)
(* stack `frames`.  A field is its message type and whether it is rendered;*)
(* fields of scalar, enum and well-known types refer to nothing and are    *)
(* left out, and a map field stands as its value type.                     *)
(*                                                                         *)
(* Two options write a $ref as it stands in the .proto file: the schema of *)
(* a response and additional_properties_schema.  Nothing looks such a name *)
(* up, and it does not make a message part of the bundle; of these strings *)
(* those are considered that point into components.schemas.                *)
(***************************************************************************)
EXTENDS Naturals, Sequences, FiniteSets, SequencesExt

CONSTANTS
  NumMessages,  \* how many message types the protoc request defines
  Bases,        \* component names without their trailing digits
  Reserved,     \* the names of well-known and of builtin scalar Go types
  NoName,       \* a message without a schema_name option
  Inputs,       \* the protoc requests considered, see InputOK
  MaxDepth      \* how deep objectSchema can recurse before Go's stack ends

Messages == 1 .. NumMessages

(* A name is its base and the number it ends in, 0 if it ends in none.     *)
Names == [base: Bases, num: Nat]

Field == [to: Messages, omitted: BOOLEAN]

(* A response or a request body of an operation: its message, and the name *)
(* in the $ref that is written for it by hand, if there is one.            *)
Op == [msg: Messages, ref: Names \cup {NoName}]

(* What a $ref written by hand is for: only its writer knows.              *)
ByHand == 0

(* A call of objectSchema: its message and the fields it has still to do.  *)
Frame == [msg: Messages, left: Seq(Field)]

(* What the generator reads of a protoc request.                           *)
InputOK(r) ==
  /\ r.fields \in [Messages -> Seq(Field)]
  /\ r.nested \in [Messages -> Seq(Messages)]    \* messages declared inside
  /\ r.roots \in Seq(Messages)                   \* top level of marked files
  /\ r.ops \in Seq(Op)           \* responses and bodies, in rendering order
  /\ r.extra \in [Messages -> Names \cup {NoName}]  \* additionalProperties
  /\ r.omitted \subseteq Messages                \* (ogen.message).omit
  /\ r.schemaName \in [Messages -> Names \cup {NoName}]
  /\ r.simple \in [Messages -> Names]
  /\ r.qualified \in [Messages -> Names]

ASSUME ComponentsAssumption ==
  /\ NumMessages \in Nat \ {0}
  /\ MaxDepth \in Nat \ {0}
  /\ NoName \notin Names
  /\ Reserved \subseteq Names
  /\ \A r \in Inputs : InputOK(r)

VARIABLES
  in,       \* the request
  phase,    \* which function of generateBundle runs
  todo,     \* the messages the running recursion has still to visit
  out,      \* bundleMessages: the result so far
  pos,      \* bundleMessages: the index whose fields are followed next
  names,    \* g.componentName
  suffix,   \* uniqueComponentName: i, or 0 for the plain name
  frames,   \* objectSchema: the calls under way, outermost first
  refs,     \* the $refs written: the name, and the message meant by it,
            \* ByHand for one that is copied from an option
  schemas   \* components.schemas: the message each name's schema describes

vars == <<in, phase, todo, out, pos, names, suffix, frames, refs, schemas>>

Running(f) == phase = f /\ frames = <<>>

(* The walk visits the head of todo and then what `inside` adds.           *)
VisitThen(inside) == todo' = inside \o Tail(todo)

-----------------------------------------------------------------------------
(* bundleMessages: the marked files' messages with those nested in them,   *)
(* then, breadth first, the messages of their fields.                      *)

(* An omitted message is not collected, and neither is what is nested in it*)
SkipMessage ==
  /\ Running("collect") /\ todo # <<>>
  /\ Head(todo) \in in.omitted \cup Range(out)
  /\ VisitThen(<<>>)
  /\ UNCHANGED <<in, phase, out, pos, names, suffix, frames, refs, schemas>>

(* Faulty variant of AppendMessage: an omitted message is collected when a *)
(* field leads to it.                                                      *)
AppendOmitted ==
  /\ Running("collect") /\ todo # <<>>
  /\ Head(todo) \notin Range(out)
  /\ out' = Append(out, Head(todo))
  /\ VisitThen(in.nested[Head(todo)])
  /\ UNCHANGED <<in, phase, pos, names, suffix, frames, refs, schemas>>

AppendMessage ==
  /\ Running("collect") /\ todo # <<>>
  /\ Head(todo) \notin in.omitted \cup Range(out)
  /\ out' = Append(out, Head(todo))
  /\ VisitThen(in.nested[Head(todo)])
  /\ UNCHANGED <<in, phase, pos, names, suffix, frames, refs, schemas>>

(* Faulty variant of FollowFields: fields that are omitted are not         *)
(* followed when messages are collected.                                   *)
FollowRendered ==
  /\ Running("collect") /\ todo = <<>> /\ pos <= Len(out)
  /\ LET fields == SelectSeq(in.fields[out[pos]], LAMBDA f : ~f.omitted)
     IN  todo' = [i \in DOMAIN fields |-> fields[i].to]
  /\ pos' = pos + 1
  /\ UNCHANGED <<in, phase, out, names, suffix, frames, refs, schemas>>

(* Faulty variant of FollowFields: the index is advanced twice, as by a    *)
(* loop that also advances it.                                             *)
FollowEveryOther ==
  /\ Running("collect") /\ todo = <<>> /\ pos <= Len(out)
  /\ LET fields == in.fields[out[pos]]
     IN  todo' = [i \in DOMAIN fields |-> fields[i].to]
  /\ pos' = pos + 2
  /\ UNCHANGED <<in, phase, out, names, suffix, frames, refs, schemas>>

(* Every field is followed, the omitted ones too.                          *)
FollowFields ==
  /\ Running("collect") /\ todo = <<>> /\ pos <= Len(out)
  /\ LET fields == in.fields[out[pos]]
     IN  todo' = [i \in DOMAIN fields |-> fields[i].to]
  /\ pos' = pos + 1
  /\ UNCHANGED <<in, phase, out, names, suffix, frames, refs, schemas>>

Collected ==
  /\ Running("collect") /\ todo = <<>> /\ pos > Len(out)
  /\ phase' = "name"
  /\ todo' = out
  /\ UNCHANGED <<in, out, pos, names, suffix, frames, refs, schemas>>

-----------------------------------------------------------------------------
(* collectComponentNames and uniqueComponentName.                          *)

Wanted(m) ==
  IF in.schemaName[m] # NoName THEN in.schemaName[m]
  ELSE IF in.simple[m] \in Reserved THEN in.qualified[m] ELSE in.simple[m]

(* The least power of ten above i: what a number is multiplied by when the *)
(* digits of i are written behind it.                                      *)
Shift[i \in Nat] == IF i < 10 THEN 10 ELSE 10 * Shift[i \div 10]

Candidate(m) ==
  IF suffix = 0 THEN Wanted(m)
  ELSE [Wanted(m) EXCEPT !.num = @ * Shift[suffix] + suffix]

Named == DOMAIN names

Used == {names[m] : m \in Named}

NameSkip ==
  /\ Running("name") /\ todo # <<>>
  /\ Head(todo) \in in.omitted \cup Named
  /\ VisitThen(<<>>)
  /\ UNCHANGED <<in, phase, out, pos, names, suffix, frames, refs, schemas>>

Unnamed(m) == m \notin in.omitted \cup Named

(* Faulty variant of NameTry: i is not advanced.                           *)
TrySame ==
  /\ Running("name") /\ todo # <<>> /\ Unnamed(Head(todo))
  /\ Candidate(Head(todo)) \in Used
  /\ suffix' = 2
  /\ UNCHANGED <<in, phase, todo, out, pos, names, frames, refs, schemas>>

NameTry ==
  /\ Running("name") /\ todo # <<>> /\ Unnamed(Head(todo))
  /\ Candidate(Head(todo)) \in Used
  /\ suffix' = IF suffix = 0 THEN 2 ELSE suffix + 1
  /\ UNCHANGED <<in, phase, todo, out, pos, names, frames, refs, schemas>>

(* Faulty variant of NameTake: numbers are tried without looking: the      *)
(* second of a name is always 2.                                           *)
TakeAtTwo ==
  /\ Running("name") /\ todo # <<>> /\ Unnamed(Head(todo))
  /\ Candidate(Head(todo)) \notin Used \/ suffix = 2
  /\ names' = [m \in Named \cup {Head(todo)} |->
                 IF m = Head(todo) THEN Candidate(m) ELSE names[m]]
  /\ suffix' = 0
  /\ VisitThen(in.nested[Head(todo)])
  /\ UNCHANGED <<in, phase, out, pos, frames, refs, schemas>>

(* Faulty variant of NameTake: i is kept for the next message.             *)
TakeKeepingSuffix ==
  /\ Running("name") /\ todo # <<>> /\ Unnamed(Head(todo))
  /\ Candidate(Head(todo)) \notin Used
  /\ names' = [m \in Named \cup {Head(todo)} |->
                 IF m = Head(todo) THEN Candidate(m) ELSE names[m]]
  /\ UNCHANGED suffix
  /\ VisitThen(in.nested[Head(todo)])
  /\ UNCHANGED <<in, phase, out, pos, frames, refs, schemas>>

NameTake ==
  /\ Running("name") /\ todo # <<>> /\ Unnamed(Head(todo))
  /\ Candidate(Head(todo)) \notin Used
  /\ names' = [m \in Named \cup {Head(todo)} |->
                 IF m = Head(todo) THEN Candidate(m) ELSE names[m]]
  /\ suffix' = 0
  /\ VisitThen(in.nested[Head(todo)])
  /\ UNCHANGED <<in, phase, out, pos, frames, refs, schemas>>

NamesDone ==
  /\ Running("name") /\ todo = <<>>
  /\ phase' = "paths"
  /\ todo' = [i \in DOMAIN in.ops |-> in.ops[i].msg]
  /\ UNCHANGED <<in, out, pos, names, suffix, frames, refs, schemas>>

-----------------------------------------------------------------------------
(* objectSchema, the fields it renders, and schemaForMessage for each.     *)

Enter(m) == [msg |-> m, left |-> in.fields[m]]

(* A call begins with the $ref of additional_properties_schema, if any.    *)
EnterRefs(m) ==
  IF in.extra[m] = NoName THEN {}
  ELSE {[name |-> in.extra[m], to |-> ByHand]}

Top == frames[Len(frames)]

TopNext == [frames EXCEPT ![Len(frames)].left = Tail(@)]

(* Faulty variant of Ref: a reference uses the name the message asks for,  *)
(* not the one it got.                                                     *)
RefToWanted(m) == [name |-> Wanted(m), to |-> m]

Ref(m) == [name |-> names[m], to |-> m]

AtField == phase \in {"paths", "emit"} /\ frames # <<>> /\ Top.left # <<>>

Shown == Head(Top.left).to

FieldSkip ==
  /\ AtField /\ Head(Top.left).omitted
  /\ frames' = TopNext
  /\ UNCHANGED <<in, phase, todo, out, pos, names, suffix, refs, schemas>>

FieldRef ==
  /\ AtField /\ ~Head(Top.left).omitted /\ Shown \in Named
  /\ refs' = refs \cup {Ref(Shown)}
  /\ frames' = TopNext
  /\ UNCHANGED <<in, phase, todo, out, pos, names, suffix, schemas>>

FieldInline ==
  /\ AtField /\ ~Head(Top.left).omitted /\ Shown \notin Named
  /\ Len(frames) < MaxDepth
  /\ frames' = Append(TopNext, Enter(Shown))
  /\ refs' = refs \cup EnterRefs(Shown)
  /\ UNCHANGED <<in, phase, todo, out, pos, names, suffix, schemas>>

(* The call that does not fit on the stack ends the process.               *)
Overflow ==
  /\ AtField /\ ~Head(Top.left).omitted /\ Shown \notin Named
  /\ Len(frames) >= MaxDepth
  /\ phase' = "overflow"
  /\ UNCHANGED <<in, todo, out, pos, names, suffix, frames, refs, schemas>>

(* A finished call returns to the field that made it.                      *)
InlineDone ==
  /\ phase \in {"paths", "emit"} /\ Len(frames) > 1 /\ Top.left = <<>>
  /\ frames' = Front(frames)
  /\ UNCHANGED <<in, phase, todo, out, pos, names, suffix, refs, schemas>>

-----------------------------------------------------------------------------
(* pathsObject: the message of a response or of a request body is referred *)
(* to when it has a name and expanded in the operation when it has none.   *)
(* A $ref given for a response comes before both.                          *)

(* The response or body being rendered: todo has the messages of those     *)
(* from it on.                                                             *)
AtOp == in.ops[Len(in.ops) - Len(todo) + 1]

PathWritten ==
  /\ Running("paths") /\ todo # <<>> /\ AtOp.ref # NoName
  /\ refs' = refs \cup {[name |-> AtOp.ref, to |-> ByHand]}
  /\ VisitThen(<<>>)
  /\ UNCHANGED <<in, phase, out, pos, names, suffix, frames, schemas>>

PathRef ==
  /\ Running("paths") /\ todo # <<>> /\ AtOp.ref = NoName
  /\ Head(todo) \in Named
  /\ refs' = refs \cup {Ref(Head(todo))}
  /\ VisitThen(<<>>)
  /\ UNCHANGED <<in, phase, out, pos, names, suffix, frames, schemas>>

PathInline ==
  /\ Running("paths") /\ todo # <<>> /\ AtOp.ref = NoName
  /\ Head(todo) \notin Named
  /\ frames' = <<Enter(Head(todo))>>
  /\ refs' = refs \cup EnterRefs(Head(todo))
  /\ UNCHANGED <<in, phase, todo, out, pos, names, suffix, schemas>>

PathInlineDone ==
  /\ phase = "paths" /\ Len(frames) = 1 /\ Top.left = <<>>
  /\ frames' = <<>>
  /\ VisitThen(<<>>)
  /\ UNCHANGED <<in, phase, out, pos, names, suffix, refs, schemas>>

PathsDone ==
  /\ Running("paths") /\ todo = <<>>
  /\ phase' = "emit"
  /\ todo' = out
  /\ UNCHANGED <<in, out, pos, names, suffix, frames, refs, schemas>>

-----------------------------------------------------------------------------
(* schemasObject and appendSchemas: a message nested in a collected one is *)
(* rendered again with it, under the same name.                            *)

EmitSkip ==
  /\ Running("emit") /\ todo # <<>> /\ Head(todo) \in in.omitted
  /\ VisitThen(<<>>)
  /\ UNCHANGED <<in, phase, out, pos, names, suffix, frames, refs, schemas>>

EmitBegin ==
  /\ Running("emit") /\ todo # <<>> /\ Head(todo) \notin in.omitted
  /\ Head(todo) \in Named
  /\ frames' = <<Enter(Head(todo))>>
  /\ refs' = refs \cup EnterRefs(Head(todo))
  /\ UNCHANGED <<in, phase, todo, out, pos, names, suffix, schemas>>

(* Faulty variant of EmitDone: a component the generator has not referred  *)
(* to itself is dropped as unused.                                         *)
EmitReferred ==
  /\ phase = "emit" /\ Len(frames) = 1 /\ Top.left = <<>>
  /\ LET m == Top.msg
     IN  /\ schemas' = [n \in DOMAIN schemas \cup
                             {names[k] : k \in {m} \cap {r.to : r \in refs}} |->
                          IF n = names[m] THEN m ELSE schemas[n]]
         /\ VisitThen(in.nested[m])
  /\ frames' = <<>>
  /\ UNCHANGED <<in, phase, out, pos, names, suffix, refs>>

EmitDone ==
  /\ phase = "emit" /\ Len(frames) = 1 /\ Top.left = <<>>
  /\ LET m == Top.msg
     IN  /\ schemas' = [n \in DOMAIN schemas \cup {names[m]} |->
                          IF n = names[m] THEN m ELSE schemas[n]]
         /\ VisitThen(in.nested[m])
  /\ frames' = <<>>
  /\ UNCHANGED <<in, phase, out, pos, names, suffix, refs>>

Emitted ==
  /\ Running("emit") /\ todo = <<>>
  /\ phase' = "done"
  /\ UNCHANGED <<in, todo, out, pos, names, suffix, frames, refs, schemas>>

Terminated == phase \in {"done", "overflow"} /\ UNCHANGED vars

-----------------------------------------------------------------------------
Init ==
  /\ in \in Inputs
  /\ phase = "collect" /\ todo = in.roots /\ out = <<>> /\ pos = 1
  /\ names = <<>> /\ suffix = 0 /\ frames = <<>>
  /\ refs = {} /\ schemas = <<>>

Collect == SkipMessage \/ AppendMessage \/ FollowFields \/ Collected
Name == NameSkip \/ NameTry \/ NameTake \/ NamesDone
Render == FieldSkip \/ FieldRef \/ FieldInline \/ Overflow \/ InlineDone
Paths == PathWritten \/ PathRef \/ PathInline \/ PathInlineDone \/ PathsDone
Emit == EmitSkip \/ EmitBegin \/ EmitDone \/ Emitted

Next == Collect \/ Name \/ Render \/ Paths \/ Emit \/ Terminated

Spec == Init /\ [][Next]_vars

(* The generator is one goroutine that nothing blocks.                     *)
FairSpec == Spec /\ WF_vars(Next)

-----------------------------------------------------------------------------
(* Every variable holds a value of its kind.                               *)
TypeOK ==
  /\ InputOK(in)
  /\ phase \in {"collect", "name", "paths", "emit", "done", "overflow"}
  /\ todo \in Seq(Messages) /\ out \in Seq(Messages)
  /\ pos \in 1 .. Len(out) + 1
  /\ Named \subseteq Messages /\ Used \subseteq Names
  /\ suffix \in Nat \ {1}
  /\ frames \in Seq(Frame)
  /\ Len(frames) <= MaxDepth
  /\ refs \subseteq [name: Names, to: Messages \cup {ByHand}]
  /\ DOMAIN schemas \subseteq Names
  /\ \A n \in DOMAIN schemas : schemas[n] \in Messages

(* No two messages get one component name, whatever the simple names, the  *)
(* schema_name options and the numbers uniqueComponentName already wrote:  *)
(* a second message of the name would overwrite the schema of the first.   *)
NamesDistinct ==
  \A m, n \in Named : m # n => names[m] # names[n]

(* What bundleMessages collects is the least set that has the messages of  *)
(* the marked files and, with each message, those nested in it and those   *)
(* its fields have, an omitted message and what only it leads to apart.    *)
Closed(S) ==
  /\ Range(in.roots) \ in.omitted \subseteq S
  /\ \A m \in S :
       /\ Range(in.nested[m]) \ in.omitted \subseteq S
       /\ {f.to : f \in Range(in.fields[m])} \ in.omitted \subseteq S

Reachable == {m \in Messages : \A S \in SUBSET Messages : Closed(S) => m \in S}

CollectsReachable ==
  phase # "collect" => /\ Range(out) = Reachable
                       /\ Len(out) = Cardinality(Reachable)

(* The two walks agree: after collectComponentNames exactly the collected  *)
(* messages are named, although it walks the nesting a second time.        *)
NamesWhatItCollects ==
  phase \notin {"collect", "name"} => Named = Range(out)

(* A message gets another name than the one it asks for only when a        *)
(* message collected before it has that name, so the names depend on the   *)
(* order of the files and fields and on nothing else.                      *)
RenamedOnlyOnClash ==
  \A i \in DOMAIN out :
    out[i] \in Named /\ names[out[i]] # Wanted(out[i])
      => \E j \in 1 .. i - 1 :
           out[j] \in Named /\ names[out[j]] = Wanted(out[i])

Described(m) == names[m] \in DOMAIN schemas /\ schemas[names[m]] = m

(* In a finished document every $ref the generator makes from a message    *)
(* resolves, and to the schema of that message; every collected message    *)
(* has its schema.  What is written by hand may lead nowhere: see below.   *)
RefsResolve ==
  phase = "done" =>
    /\ \A r \in refs : r.to # ByHand => Described(r.to) /\ r.name = names[r.to]
    /\ \A m \in Range(out) : Described(m)

(* What the writer of a $ref can rely on, although nothing checks it and   *)
(* names may be numbered: if the message is collected, from whatever file, *)
(* and asks for the name, the $ref resolves, and to that message unless    *)
(* one collected before it has the name.                                   *)
WrittenRefsResolve ==
  phase = "done" =>
    \A r \in refs : r.to = ByHand =>
      \A i \in DOMAIN out : Wanted(out[i]) = r.name =>
        /\ r.name \in DOMAIN schemas
        /\ schemas[r.name] = out[i] \/ \E j \in 1 .. i - 1 : schemas[r.name] = out[j]

-----------------------------------------------------------------------------
(* What the four walks keep true, on the way to the properties above.      *)

Targets(m) == {f.to : f \in Range(in.fields[m])}

(* Whatever a collected message leads to is collected or about to be.      *)
Pending == IF phase = "collect" THEN Range(todo) ELSE {}

PosBound == pos \in 1 .. Len(out) + 1

CollectInv ==
  /\ Range(out) \cap in.omitted = {}
  /\ \A m \in Range(out) :
       Range(in.nested[m]) \ in.omitted \subseteq Range(out) \cup Pending
  /\ \A i \in 1 .. Len(out) :
       i < pos \/ phase # "collect" =>
         Targets(out[i]) \ in.omitted \subseteq Range(out) \cup Pending

(* The second and the fourth walk stay inside what was collected, and have *)
(* not lost any of it.                                                     *)
NameInv ==
  /\ Named \subseteq Range(out)
  /\ phase = "collect" => Named = {}
  /\ phase \in {"name", "emit"} => Range(todo) \ in.omitted \subseteq Range(out)
  /\ phase = "name" => Range(out) \subseteq Named \cup Range(todo)
  /\ phase \in {"paths", "emit", "done", "overflow"} => Range(out) \subseteq Named

RenderInv ==
  /\ \A r \in refs : r.to # ByHand => r.to \in Named /\ r.name = names[r.to]
  /\ phase \in {"collect", "name"} => frames = <<>>
  /\ \A k \in 1 .. Len(frames) :
       {f.to : f \in Range(frames[k].left)} \subseteq Targets(frames[k].msg)
  /\ Len(frames) > 1 => frames[2].msg \in Targets(frames[1].msg) \ Named
  /\ frames # <<>> => todo # <<>>
  /\ phase = "emit" /\ frames # <<>> =>
       frames[1].msg = Head(todo) /\ Head(todo) \in Named
  /\ phase \in {"emit", "done"} =>
       \A m \in Range(out) : Described(m) \/ m \in Range(todo)
  /\ phase = "done" => todo = <<>>

(* What is collected must be, and is once: every closed set has it.        *)
LeastInv ==
  /\ \A i, j \in 1 .. Len(out) : out[i] = out[j] => i = j
  /\ Range(in.roots) \ in.omitted \subseteq Range(out) \cup Pending
  /\ \A S \in SUBSET Messages :
       Closed(S) => (Range(out) \cup Pending) \ in.omitted \subseteq S

(* A number is tried only where the name itself is taken.                  *)
SuffixInv ==
  suffix # 0 => /\ phase = "name" /\ todo # <<>> /\ Unnamed(Head(todo))
                /\ Wanted(Head(todo)) \in Used

(* The conjunction that every step preserves.                              *)
ComponentsInv ==
  /\ InputOK(in)
  /\ todo \in Seq(Messages) /\ out \in Seq(Messages) /\ frames \in Seq(Frame)
  /\ PosBound /\ NamesDistinct
  /\ phase \in {"collect", "name", "paths", "emit", "done", "overflow"}
  /\ CollectInv /\ NameInv /\ RenderInv

(* The generator ends: with a document, or with its stack exhausted.       *)
Terminates == <>(phase \in {"done", "overflow"})

-----------------------------------------------------------------------------
(* What the documentation says of this component.                          *)

(* ogen.proto, omit: "Exclude this message from OpenAPI components".  A    *)
(* request the compiler accepts is rendered, never recursed into forever.  *)
NeverOverflows == phase # "overflow"

=============================================================================
