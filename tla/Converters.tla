----------------------------- MODULE Converters -----------------------------
(***************************************************************************)
(* Which converters src/generator/converters.go emits for a bundle, and    *)
(* which ones the emitted code calls: a converter calls those of its       *)
(* message's fields (converters_value.go), the adapter those of request    *)
(* bodies, parameters and responses (adapter.go), the faker test those of  *)
(* its file.  Nothing in the generator compares the two; the Go compiler   *)
(* of whoever runs the plugin does.                                        *)
(*                                                                         *)
(* A field is its message type and whether it is omitted.  Fields of other *)
(* types call nothing; lists, maps and members of a oneof call what a      *)
(* singular field calls.  Every message is at the top level of its file.   *)
(***************************************************************************)
EXTENDS Naturals, Sequences, FiniteSets

CONSTANTS Messages, Packages, Names, Requests, None

Field == [to: Messages, omitted: BOOLEAN]

(* One operation: the message of its body, of its parameters, of its       *)
(* success response and of an error response.                              *)
Operation ==
  [body: Messages \cup {None}, params: SUBSET Messages,
   ok: Messages \cup {None}, err: Messages \cup {None}]

Home(r) == r.filePkg[1]

(* What the generator reads of a protoc request, and the names that        *)
(* protogen and ogen gave to the messages' Go types.                       *)
RequestOK(r) ==
  /\ r.filePkg \in Seq(Packages) /\ r.filePkg # <<>>
  /\ r.file \in [Messages -> 0 .. Len(r.filePkg)]  \* 0: of no marked file
  /\ r.pkg \in [Messages -> Packages]
  /\ r.fields \in [Messages -> SUBSET Field]
  /\ r.omitted \subseteq Messages
  /\ r.goName \in [Messages -> Names]
  /\ r.ogenName \in [Messages -> Names]
  /\ r.ops \subseteq Operation
  /\ r.adapter \in BOOLEAN /\ r.faker \in BOOLEAN
  /\ \A m \in Messages : r.file[m] # 0 => r.pkg[m] = r.filePkg[r.file[m]]
  /\ \A m, n \in Messages : m # n =>
       /\ r.ogenName[m] # r.ogenName[n]
       /\ r.pkg[m] = r.pkg[n] => r.goName[m] # r.goName[n]

ASSUME ConvertersAssumption ==
  /\ None \notin Messages /\ None \notin Packages /\ None \notin Names
  /\ \A r \in Requests : RequestOK(r)

VARIABLES
  req,     \* the request
  phase,   \* the step of generateOgen that is next
  at,      \* the marked file that generateConverters is at
  defs,    \* the converters emitted
  calls,   \* the converters the emitted code calls
  result   \* "running", "ok" or "rejected"

vars == <<req, phase, at, defs, calls, result>>

Files == DOMAIN req.filePkg

Rendered(m) == {f.to : f \in {g \in req.fields[m] : ~g.omitted}}

-----------------------------------------------------------------------------
(* bundleMessages: the marked files' messages and what their fields reach, *)
(* the omitted ones excepted (Components has the algorithm).  They are the *)
(* messages that have a component.                                         *)
ClosedForNaming(S) ==
  /\ \A m \in Messages \ req.omitted : req.file[m] # 0 => m \in S
  /\ \A m \in S : {f.to : f \in req.fields[m]} \ req.omitted \subseteq S

Collected ==
  {m \in Messages \ req.omitted :
     \A S \in SUBSET Messages : ClosedForNaming(S) => m \in S}

(* ogen has a type for every message the operations lead to.               *)
Subjects(op) == ({op.body, op.ok, op.err} \ {None}) \cup op.params

ClosedForTyping(S) ==
  /\ \A op \in req.ops : Subjects(op) \subseteq S
  /\ \A m \in S : Rendered(m) \subseteq S

Typed ==
  {m \in Messages :
     \A S \in SUBSET Messages : ClosedForTyping(S) => m \in S}

(* structs: ogen's types by component, so only of messages that have one.  *)
Structs == Collected \cap Typed

-----------------------------------------------------------------------------
(* Names.  A converter is a method of the message's type or a function of  *)
(* the package it is emitted into; `of` is the message it converts.        *)

(* Faulty variant of IsLocal: every message has the method form.           *)
AlwaysLocal(m, local) == TRUE

(* localPkg is not set for the adapter.                                    *)
IsLocal(m, local) == local = None \/ req.pkg[m] = local

Method(p, m) == [pkg |-> p, recv |-> m, fn |-> None, dir |-> "ToOgen", of |-> m]

Function(p, name, dir, m) ==
  [pkg |-> p, recv |-> None, fn |-> name, dir |-> dir, of |-> m]

(* genToOgen and genFromOgen, emitted into package p.                      *)
Definitions(p, m, local) ==
  IF IsLocal(m, local)
  THEN {Method(p, m), Function(p, req.goName[m], "FromOgen", m)}
  ELSE {Function(p, req.ogenName[m], d, m) : d \in {"ToOgen", "FromOgen"}}

(* toOgenInner: the method is the type's, wherever it is called.           *)
ToOgenCall(p, m, local) ==
  IF IsLocal(m, local) THEN Method(req.pkg[m], m)
  ELSE Function(p, req.ogenName[m], "ToOgen", m)

(* Faulty variant of FromOgenCall: the ogen name, whatever the package.    *)
FromOgenCallByOgenName(p, m, local) ==
  Function(p, req.ogenName[m], "FromOgen", m)

(* fromOgenInner                                                           *)
FromOgenCall(p, m, local) ==
  Function(p, IF IsLocal(m, local) THEN req.goName[m] ELSE req.ogenName[m],
           "FromOgen", m)

FieldCalls(p, m, local) ==
  UNION {{ToOgenCall(p, t, local), FromOgenCall(p, t, local)} : t \in Rendered(m)}

(* generateConvertersTest, for the messages S of a file.                   *)
TestCalls(p, S) ==
  IF req.faker
  THEN UNION {{ToOgenCall(p, m, None), FromOgenCall(p, m, None)} : m \in S}
  ELSE {}

DefinitionsOf(p, S, local) == UNION {Definitions(p, m, local) : m \in S}
CallsOf(p, S, local) == UNION {FieldCalls(p, m, local) : m \in S}

-----------------------------------------------------------------------------
(* generateOgen, from where ogen has written its package.                  *)

Converted(i) == {m \in Structs : req.file[m] = i}

(* Faulty variant of ConvertFile: the loop advances twice.                 *)
ConvertAndSkip ==
  /\ phase = "files" /\ at \in Files
  /\ LET p == req.filePkg[at]
     IN  /\ defs' = defs \cup DefinitionsOf(p, Converted(at), p)
         /\ calls' = calls \cup CallsOf(p, Converted(at), p)
                           \cup TestCalls(p, Converted(at))
  /\ at' = at + 2
  /\ UNCHANGED <<req, phase, result>>

(* Faulty variant of ConvertFile: the converters of a file replace those   *)
(* of the file before.                                                     *)
ConvertOver ==
  /\ phase = "files" /\ at \in Files
  /\ LET p == req.filePkg[at]
     IN  /\ defs' = DefinitionsOf(p, Converted(at), p)
         /\ calls' = calls \cup CallsOf(p, Converted(at), p)
                           \cup TestCalls(p, Converted(at))
  /\ at' = at + 1
  /\ UNCHANGED <<req, phase, result>>

(* generateConverters.                                                     *)
ConvertFile ==
  /\ phase = "files" /\ at \in Files
  /\ LET p == req.filePkg[at]
     IN  /\ defs' = defs \cup DefinitionsOf(p, Converted(at), p)
         /\ calls' = calls \cup CallsOf(p, Converted(at), p)
                           \cup TestCalls(p, Converted(at))
  /\ at' = at + 1
  /\ UNCHANGED <<req, phase, result>>

FilesDone ==
  /\ phase = "files" /\ at \notin Files
  /\ phase' = "cross"
  /\ UNCHANGED <<req, at, defs, calls, result>>

(* Faulty variant of CrossMessages: only the types of fields of the marked *)
(* files' messages are looked at, not those further away.                  *)
CrossOneStep ==
  {m \in Structs : req.pkg[m] # Home(req) /\
     \E n \in Structs : req.file[n] # 0 /\ m \in Rendered(n)}

(* generateCrossConverters: `cross`.                                       *)
CrossMessages == {m \in Structs : req.pkg[m] # Home(req)}

ConvertCross ==
  /\ phase = "cross"
  /\ LET p == Home(req)
     IN  /\ defs' = defs \cup DefinitionsOf(p, CrossMessages, p)
         /\ calls' = calls \cup CallsOf(p, CrossMessages, p)
  /\ phase' = IF req.adapter THEN "adapter" ELSE "finish"
  /\ UNCHANGED <<req, at, result>>

OnePackage == \A i \in Files : req.filePkg[i] = Home(req)

(* generateAdapters: with two packages it returns an error.                *)
AdapterRejects ==
  /\ phase = "adapter" /\ ~OnePackage
  /\ phase' = "end" /\ result' = "rejected"
  /\ UNCHANGED <<req, at, defs, calls>>

(* genRequestBody, setParamField and genResponse.                          *)
AdapterCalls(op) ==
  {FromOgenCall(Home(req), m, None) : m \in ({op.body} \ {None}) \cup op.params}
    \cup {ToOgenCall(Home(req), m, None) : m \in {op.ok} \ {None}}

Adapter ==
  /\ phase = "adapter" /\ OnePackage
  /\ calls' = calls \cup UNION {AdapterCalls(op) : op \in req.ops}
  /\ phase' = "finish"
  /\ UNCHANGED <<req, at, defs, result>>

Finish ==
  /\ phase = "finish"
  /\ phase' = "end" /\ result' = "ok"
  /\ UNCHANGED <<req, at, defs, calls>>

Terminated == phase = "end" /\ UNCHANGED vars

Init ==
  /\ req \in Requests
  /\ phase = "files" /\ at = 1 /\ defs = {} /\ calls = {}
  /\ result = "running"

Next == ConvertFile \/ FilesDone \/ ConvertCross \/ AdapterRejects \/ Adapter
          \/ Finish \/ Terminated

Spec == Init /\ [][Next]_vars

-----------------------------------------------------------------------------
Converter ==
  [pkg: Packages, recv: Messages \cup {None}, fn: Names \cup {None},
   dir: {"ToOgen", "FromOgen"}, of: Messages]

(* Every variable holds a value of its kind.                               *)
TypeOK ==
  /\ RequestOK(req)
  /\ phase \in {"files", "cross", "adapter", "finish", "end"}
  /\ at \in 1 .. Len(req.filePkg) + 1
  /\ defs \subseteq Converter /\ calls \subseteq Converter
  /\ result \in {"running", "ok", "rejected"}

(* Requests whose messages the emitted code can handle: every marked file  *)
(* is of one package; a message an operation leads to is not omitted and,  *)
(* in that package, is declared in a marked file; the adapter's messages   *)
(* are of that package; and the function names of the messages of that     *)
(* package, which are Go names, are not ogen names of those of others.     *)
SelfContained ==
  /\ OnePackage
  /\ \A m \in Typed :
       m \notin req.omitted /\ (req.pkg[m] = Home(req) => req.file[m] # 0)
  /\ req.adapter => \A op \in req.ops :
       \A m \in ({op.body, op.ok} \ {None}) \cup op.params :
         req.pkg[m] = Home(req)
  /\ \A m, n \in Typed :
       req.pkg[m] = Home(req) /\ req.pkg[n] # Home(req)
         => req.goName[m] # req.ogenName[n]

(* The emitted code compiles as far as converters go: each call has its    *)
(* converter, and no package has two functions of one name (a method is    *)
(* named by its type).  A definition and the calls of it are emitted by    *)
(* three walks over the messages, which decide separately what is local.   *)
CallsResolve ==
  result = "ok" /\ SelfContained =>
    /\ calls \subseteq defs
    /\ \A c, d \in defs :
         c.pkg = d.pkg /\ c.recv = d.recv /\ c.fn = d.fn /\ c.dir = d.dir
           => c = d

(* Whatever the request: a converter names a type that ogen generated, and *)
(* a method is in the package of its type, or Go rejects the file.         *)
ConvertersLegal ==
  \A d \in defs : d.of \in Structs /\ (d.recv # None => d.pkg = req.pkg[d.of])

(* generateConverters and generateCrossConverters together leave out no    *)
(* message that has a component and an ogen type, whatever the packages,   *)
(* but those of the home package that no marked file declares.             *)
StructsConvertible ==
  result = "ok" =>
    \A m \in Structs : req.pkg[m] # Home(req) \/ req.file[m] # 0 =>
      \A d \in {"ToOgen", "FromOgen"} :
        \E c \in defs : c.of = m /\ c.dir = d

(* What has been emitted at every point: with the three definitions below  *)
(* this is inductive, and the properties above follow from its last state. *)
Behind == {m \in Structs : req.file[m] \in 1 .. at - 1}
CrossDone == phase \in {"adapter", "finish", "end"}

Progress ==
  /\ CrossDone => at = Len(req.filePkg) + 1
  /\ phase = "cross" => at = Len(req.filePkg) + 1
  /\ phase = "adapter" => req.adapter
  /\ result = "ok" => phase = "end"

DefsInv ==
  defs = (UNION {Definitions(req.pkg[m], m, req.pkg[m]) : m \in Behind})
           \cup (IF CrossDone
                 THEN DefinitionsOf(Home(req), CrossMessages, Home(req)) ELSE {})

(* Where a call comes from.                                                *)
Accounted(c) ==
  \/ \E m \in Behind : c \in FieldCalls(req.pkg[m], m, req.pkg[m])
  \/ \E m \in Behind : c \in {ToOgenCall(req.pkg[m], m, None),
                             FromOgenCall(req.pkg[m], m, None)}
  \/ CrossDone /\ \E m \in CrossMessages :
       c \in FieldCalls(Home(req), m, Home(req))
  \/ req.adapter /\ \E op \in req.ops : c \in AdapterCalls(op)

CallsInv == \A c \in calls : Accounted(c)

ConvertersInv == TypeOK /\ Progress /\ DefsInv /\ CallsInv

=============================================================================
