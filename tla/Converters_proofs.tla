-------------------------- MODULE Converters_proofs --------------------------
(* Theorems of Converters, for every number of messages and files: the     *)
(* inductive invariant ConvertersInv says at every step what has been      *)
(* emitted, and the rest compares the definitions with the calls.          *)
EXTENDS Converters, TLAPS

-----------------------------------------------------------------------------
(* The two closures are closed, and what is collected is not omitted.      *)

(* Collected has the marked files' messages and follows every field.       *)
LEMMA CollectedFacts ==
  /\ \A m \in Collected : m \in Messages \ req.omitted
  /\ \A m \in Messages \ req.omitted : req.file[m] # 0 => m \in Collected
  /\ \A m \in Collected : \A f \in req.fields[m] :
       f.to \in Messages \ req.omitted => f.to \in Collected
<1>1. \A m \in Collected : m \in Messages \ req.omitted
  BY DEF Collected
<1>2. \A m \in Messages \ req.omitted : req.file[m] # 0 => m \in Collected
  BY DEF Collected, ClosedForNaming
<1>3. ASSUME NEW m \in Collected, NEW f \in req.fields[m],
             f.to \in Messages \ req.omitted
      PROVE  f.to \in Collected
  <2>1. SUFFICES ASSUME NEW S \in SUBSET Messages, ClosedForNaming(S)
                 PROVE  f.to \in S
    BY <1>3 DEF Collected
  <2>2. m \in S
    BY <2>1 DEF Collected
  <2>3. QED
    BY <1>3, <2>1, <2>2 DEF ClosedForNaming
<1>4. QED
  BY <1>1, <1>2, <1>3

(* Typed has the operations' messages and follows the rendered fields.     *)
LEMMA TypedFacts ==
  ASSUME RequestOK(req)
  PROVE  /\ Typed \subseteq Messages
         /\ \A op \in req.ops : Subjects(op) \subseteq Typed
         /\ \A m \in Typed : Rendered(m) \subseteq Typed
<1>1. Typed \subseteq Messages
  BY DEF Typed
<1>2. ASSUME NEW op \in req.ops, NEW m \in Subjects(op) PROVE m \in Typed
  <2>1. m \in Messages
    BY <1>2 DEF RequestOK, Operation, Subjects
  <2>2. QED
    BY <1>2, <2>1 DEF Typed, ClosedForTyping
<1>3. ASSUME NEW m \in Typed, NEW t \in Rendered(m) PROVE t \in Typed
  <2>1. t \in Messages
    BY <1>1, <1>3 DEF RequestOK, Field, Rendered
  <2>2. SUFFICES ASSUME NEW S \in SUBSET Messages, ClosedForTyping(S)
                 PROVE  t \in S
    BY <2>1 DEF Typed
  <2>3. m \in S
    BY <2>2 DEF Typed
  <2>4. QED
    BY <1>3, <2>2, <2>3 DEF ClosedForTyping
<1>4. QED
  BY <1>1, <1>2, <1>3

(* A field of a message with converters is of a message ogen has a type    *)
(* for, and one with a component unless it is omitted.                     *)
LEMMA FieldsOfStructs ==
  ASSUME RequestOK(req), NEW m \in Structs, NEW t \in Rendered(m)
  PROVE  t \in Typed /\ (t \notin req.omitted => t \in Structs)
<1>1. t \in Typed /\ t \in Messages
  BY TypedFacts DEF Structs
<1>2. PICK f \in req.fields[m] : t = f.to
  BY DEF Rendered
<1>3. ASSUME t \notin req.omitted PROVE t \in Structs
  BY <1>1, <1>2, <1>3, CollectedFacts DEF Structs
<1>4. QED
  BY <1>1, <1>3

(* A struct is a struct of some message of the request.                    *)
LEMMA StructsAreMessages == Structs \subseteq Messages
  BY CollectedFacts DEF Structs

-----------------------------------------------------------------------------
(* The invariant is inductive.                                             *)

(* Everything that is computed from the request alone stays as it is.      *)
LEMMA RequestConstant ==
  ASSUME req' = req
  PROVE  /\ Structs' = Structs /\ CrossMessages' = CrossMessages
         /\ Home(req)' = Home(req) /\ RequestOK(req)' = RequestOK(req)
<1>1. Collected' = Collected
  BY DEF Collected, ClosedForNaming
<1>2. Typed' = Typed
  BY DEF Typed, ClosedForTyping, Rendered, Subjects
<1>3. Structs' = Structs
  BY <1>1, <1>2 DEF Structs
<1>4. QED
  BY <1>3 DEF CrossMessages, Home, RequestOK

(* What a message's converters are called depends on the request only.     *)
LEMMA EmissionConstant ==
  ASSUME req' = req, NEW p, NEW m, NEW local
  PROVE  /\ Definitions(p, m, local)' = Definitions(p, m, local)
         /\ FieldCalls(p, m, local)' = FieldCalls(p, m, local)
         /\ ToOgenCall(p, m, local)' = ToOgenCall(p, m, local)
         /\ FromOgenCall(p, m, local)' = FromOgenCall(p, m, local)
  BY DEF Definitions, FieldCalls, Rendered, ToOgenCall, FromOgenCall, IsLocal,
         Method, Function

(* A call that was accounted for still is.                                 *)
LEMMA AccountedAgain ==
  ASSUME req' = req, Behind \subseteq Behind', CrossDone => CrossDone',
         NEW c, Accounted(c)
  PROVE  Accounted(c)'
<1>1. CASE \E m \in Behind : c \in FieldCalls(req.pkg[m], m, req.pkg[m])
  BY <1>1, EmissionConstant DEF Accounted
<1>2. CASE \E m \in Behind : c \in {ToOgenCall(req.pkg[m], m, None),
                                  FromOgenCall(req.pkg[m], m, None)}
  BY <1>2, EmissionConstant DEF Accounted
<1>3. CASE CrossDone /\ \E m \in CrossMessages :
             c \in FieldCalls(Home(req), m, Home(req))
  BY <1>3, EmissionConstant, RequestConstant DEF Accounted
<1>4. CASE req.adapter /\ \E op \in req.ops : c \in AdapterCalls(op)
  <2>1. \A op : AdapterCalls(op)' = AdapterCalls(op)
    BY RequestConstant DEF AdapterCalls, ToOgenCall, FromOgenCall, IsLocal,
                           Method, Function
  <2>2. QED
    BY <1>4, <2>1 DEF Accounted
<1>5. QED
  BY <1>1, <1>2, <1>3, <1>4 DEF Accounted

(* There is a home package: a bundle is not empty.                         *)
LEMMA HomeIsPackage == RequestOK(req) => Home(req) \in Packages
  BY DEF RequestOK, Home

(* Converters, as defined and as called, are well formed.                  *)
LEMMA ConverterTypes ==
  ASSUME RequestOK(req), NEW p \in Packages, NEW m \in Messages, NEW local
  PROVE  /\ Definitions(p, m, local) \subseteq Converter
         /\ ToOgenCall(p, m, local) \in Converter
         /\ FromOgenCall(p, m, local) \in Converter
<1>1. req.goName[m] \in Names /\ req.ogenName[m] \in Names /\ req.pkg[m] \in Packages
  BY DEF RequestOK
<1>2. \A q \in Packages : Method(q, m) \in Converter
  BY DEF Method, Converter
<1>3. \A n \in Names, d \in {"ToOgen", "FromOgen"} :
        Function(p, n, d, m) \in Converter
  BY DEF Function, Converter
<1>4. QED
  BY <1>1, <1>2, <1>3 DEF Definitions, ToOgenCall, FromOgenCall

(* Fields lead to messages.                                                *)
LEMMA RenderedTypes ==
  ASSUME RequestOK(req), NEW m \in Messages
  PROVE  Rendered(m) \subseteq Messages
  BY DEF RequestOK, Field, Rendered

(* So are all those that a walk over some structs emits.                   *)
LEMMA EmissionTypes ==
  ASSUME RequestOK(req), NEW p \in Packages, NEW S \in SUBSET Structs, NEW local
  PROVE  /\ DefinitionsOf(p, S, local) \subseteq Converter
         /\ CallsOf(p, S, local) \subseteq Converter
         /\ TestCalls(p, S) \subseteq Converter
<1>1. S \subseteq Messages
  BY StructsAreMessages
<1>2. DefinitionsOf(p, S, local) \subseteq Converter
  BY <1>1, ConverterTypes DEF DefinitionsOf
<1>3. ASSUME NEW m \in S PROVE FieldCalls(p, m, local) \subseteq Converter
  BY <1>1, RenderedTypes, ConverterTypes DEF FieldCalls
<1>4. CallsOf(p, S, local) \subseteq Converter
  BY <1>3 DEF CallsOf
<1>5. TestCalls(p, S) \subseteq Converter
  BY <1>1, ConverterTypes DEF TestCalls
<1>6. QED
  BY <1>2, <1>4, <1>5

(* Nothing is emitted at first.                                            *)
LEMMA InitInv == Init => ConvertersInv
<1>. SUFFICES ASSUME Init PROVE ConvertersInv
  OBVIOUS
<1>1. RequestOK(req)
  BY ConvertersAssumption DEF Init
<1>2. Len(req.filePkg) \in Nat
  BY <1>1 DEF RequestOK
<1>3. TypeOK
  BY <1>1, <1>2 DEF Init, TypeOK
<1>4. Behind = {}
  BY DEF Init, Behind
<1>5. QED
  BY <1>3, <1>4 DEF Init, ConvertersInv, Progress, DefsInv, CallsInv, CrossDone

(* generateConverters moves a file's messages behind the loop.             *)
LEMMA StepConvertFile ==
  ASSUME ConvertersInv, ConvertFile PROVE ConvertersInv'
<1>. USE DEF ConvertersInv
<1>. DEFINE p == req.filePkg[at]
<1>1. RequestOK(req) /\ req' = req /\ at' = at + 1 /\ phase' = "files" /\ phase = "files"
  BY DEF TypeOK, ConvertFile
<1>2. at \in 1 .. Len(req.filePkg) /\ p \in Packages /\ Len(req.filePkg) \in Nat
  BY <1>1 DEF RequestOK, ConvertFile, Files
<1>3. Converted(at) \subseteq Structs
  BY DEF Converted
<1>4. Behind' = Behind \cup Converted(at)
  <2>1. Behind' = {m \in Structs : req.file[m] \in 1 .. at}
    BY <1>1, <1>2, RequestConstant DEF Behind
  <2>2. \A m \in Structs : req.file[m] \in 1 .. at
          <=> req.file[m] \in 1 .. at - 1 \/ req.file[m] = at
    BY <1>1, <1>2, StructsAreMessages DEF RequestOK
  <2>3. QED
    BY <2>1, <2>2 DEF Behind, Converted
<1>5. \A m \in Converted(at) : req.pkg[m] = p
  BY <1>1, <1>2, StructsAreMessages DEF Converted, RequestOK
<1>6. defs' = defs \cup DefinitionsOf(p, Converted(at), p)
  BY DEF ConvertFile
<1>7. calls' = calls \cup CallsOf(p, Converted(at), p)
                     \cup TestCalls(p, Converted(at))
  BY DEF ConvertFile
<1>8. TypeOK'
  <2>1. defs' \subseteq Converter /\ calls' \subseteq Converter
    BY <1>1, <1>2, <1>3, <1>6, <1>7, EmissionTypes DEF TypeOK
  <2>2. at' \in 1 .. Len(req'.filePkg) + 1
    BY <1>1, <1>2
  <2>3. RequestOK(req')
    BY <1>1
  <2>4. QED
    BY <1>1, <2>1, <2>2, <2>3 DEF TypeOK, ConvertFile
<1>9. Progress'
  BY <1>1 DEF Progress, CrossDone, ConvertFile
<1>10. DefsInv'
  <2>1. defs = UNION {Definitions(req.pkg[m], m, req.pkg[m]) : m \in Behind}
    BY <1>1 DEF DefsInv, CrossDone
  <2>2. DefinitionsOf(p, Converted(at), p)
          = UNION {Definitions(req.pkg[m], m, req.pkg[m]) : m \in Converted(at)}
    BY <1>5 DEF DefinitionsOf
  <2>3. defs' = UNION {Definitions(req.pkg[m], m, req.pkg[m]) : m \in Behind'}
    BY <1>4, <1>6, <2>1, <2>2
  <2>4. \A m : Definitions(req.pkg[m], m, req.pkg[m])'
                 = Definitions(req.pkg[m], m, req.pkg[m])
    BY <1>1 DEF Definitions, IsLocal, Method, Function
  <2>5. QED
    BY <1>1, <2>3, <2>4 DEF DefsInv, CrossDone
<1>11. CallsInv'
  <2>1. SUFFICES ASSUME NEW c \in calls' PROVE Accounted(c)'
    BY DEF CallsInv, Accounted
  <2>2. CASE c \in calls
    BY <1>1, <1>4, <2>2, AccountedAgain DEF CallsInv, Accounted, CrossDone
  <2>3. CASE c \in CallsOf(p, Converted(at), p)
    <3>1. PICK m \in Converted(at) : c \in FieldCalls(p, m, p)
      BY <2>3 DEF CallsOf
    <3>2. c \in FieldCalls(req.pkg[m], m, req.pkg[m])'
      BY <1>1, <1>5, <3>1, EmissionConstant
    <3>3. QED
      BY <1>4, <3>2 DEF Accounted
  <2>4. CASE c \in TestCalls(p, Converted(at))
    <3>1. PICK m \in Converted(at) :
            c \in {ToOgenCall(p, m, None), FromOgenCall(p, m, None)}
      BY <2>4 DEF TestCalls
    <3>2. c \in {ToOgenCall(req.pkg[m], m, None),
                 FromOgenCall(req.pkg[m], m, None)}'
      BY <1>1, <1>5, <3>1, EmissionConstant
    <3>3. QED
      BY <1>4, <3>2 DEF Accounted
  <2>5. QED
    BY <1>7, <2>1, <2>2, <2>3, <2>4
<1>12. QED
  BY <1>8, <1>9, <1>10, <1>11

(* A step that emits no definition.                                        *)
LEMMA SameDefs ==
  ASSUME DefsInv, req' = req, defs' = defs, Behind' = Behind,
         CrossDone' = CrossDone
  PROVE  DefsInv'
<1>1. \A m : Definitions(req.pkg[m], m, req.pkg[m])'
               = Definitions(req.pkg[m], m, req.pkg[m])
  BY EmissionConstant
<1>2. DefinitionsOf(Home(req), CrossMessages, Home(req))'
        = DefinitionsOf(Home(req), CrossMessages, Home(req))
  BY RequestConstant, EmissionConstant DEF DefinitionsOf
<1>3. QED
  BY <1>1, <1>2 DEF DefsInv

(* A step that emits no call.                                              *)
LEMMA SameCalls ==
  ASSUME CallsInv, req' = req, calls' = calls, Behind' = Behind,
         CrossDone => CrossDone'
  PROVE  CallsInv'
<1>1. \A c \in calls : Accounted(c)'
  BY AccountedAgain DEF CallsInv, Accounted
<1>2. QED
  BY <1>1 DEF CallsInv, Accounted

(* The loop moves only when `at` does.                                     *)
LEMMA SameBehind == ASSUME req' = req, at' = at PROVE Behind' = Behind
  BY RequestConstant DEF Behind

(* Steps that emit nothing.                                                *)
LEMMA StepQuiet ==
  ASSUME ConvertersInv, FilesDone \/ AdapterRejects \/ Finish \/ UNCHANGED vars
  PROVE  ConvertersInv'
<1>. USE DEF ConvertersInv
<1>1. /\ req' = req /\ at' = at /\ defs' = defs /\ calls' = calls
      /\ CrossDone' = CrossDone
  BY DEF FilesDone, AdapterRejects, Finish, vars, CrossDone
<1>2. DefsInv' /\ CallsInv'
  BY <1>1, SameBehind, SameDefs, SameCalls
<1>3. TypeOK'
  BY <1>1 DEF TypeOK, FilesDone, AdapterRejects, Finish, vars
<1>4. Progress'
  BY <1>1 DEF Progress, CrossDone, TypeOK, FilesDone, AdapterRejects, Finish,
              vars, Files, RequestOK
<1>5. QED
  BY <1>2, <1>3, <1>4

(* generateCrossConverters adds the messages of other packages.            *)
LEMMA StepCross ==
  ASSUME ConvertersInv, ConvertCross PROVE ConvertersInv'
<1>. USE DEF ConvertersInv
<1>. DEFINE p == Home(req)
<1>1. /\ RequestOK(req) /\ req' = req /\ at' = at /\ result' = result
      /\ phase' \in {"adapter", "finish"} /\ phase = "cross"
      /\ CrossDone' /\ ~CrossDone
  BY DEF TypeOK, ConvertCross, CrossDone
<1>2. CrossMessages \subseteq Structs /\ p \in Packages
  BY <1>1, HomeIsPackage DEF CrossMessages
<1>3. Behind' = Behind
  BY <1>1, SameBehind
<1>4. defs' = defs \cup DefinitionsOf(p, CrossMessages, p)
  BY DEF ConvertCross
<1>5. calls' = calls \cup CallsOf(p, CrossMessages, p)
  BY DEF ConvertCross
<1>6. TypeOK'
  <2>1. defs' \subseteq Converter /\ calls' \subseteq Converter
    BY <1>1, <1>2, <1>4, <1>5, EmissionTypes DEF TypeOK
  <2>2. QED
    BY <1>1, <2>1 DEF TypeOK
<1>7. Progress'
  BY <1>1 DEF Progress, CrossDone, TypeOK, ConvertCross
<1>8. DefsInv'
  <2>1. \A m : Definitions(req.pkg[m], m, req.pkg[m])'
                 = Definitions(req.pkg[m], m, req.pkg[m])
    BY <1>1, EmissionConstant
  <2>2. DefinitionsOf(p, CrossMessages, p)' = DefinitionsOf(p, CrossMessages, p)
    BY <1>1, RequestConstant, EmissionConstant DEF DefinitionsOf
  <2>3. defs = UNION {Definitions(req.pkg[m], m, req.pkg[m]) : m \in Behind}
    BY <1>1 DEF DefsInv
  <2>4. UNION {Definitions(req.pkg[m], m, req.pkg[m]) : m \in Behind}'
          = UNION {Definitions(req.pkg[m], m, req.pkg[m]) : m \in Behind}
    BY <1>3, <2>1
  <2>5. QED
    BY <1>1, <1>4, <2>2, <2>3, <2>4 DEF DefsInv
<1>9. CallsInv'
  <2>1. SUFFICES ASSUME NEW c \in calls' PROVE Accounted(c)'
    BY DEF CallsInv, Accounted
  <2>2. CASE c \in calls
    BY <1>1, <1>3, <2>2, AccountedAgain DEF CallsInv, Accounted
  <2>3. CASE c \in CallsOf(p, CrossMessages, p)
    <3>1. PICK m \in CrossMessages : c \in FieldCalls(p, m, p)
      BY <2>3 DEF CallsOf
    <3>2. m \in CrossMessages' /\ c \in FieldCalls(Home(req), m, Home(req))'
      BY <1>1, <3>1, RequestConstant, EmissionConstant
    <3>3. QED
      BY <1>1, <3>2 DEF Accounted
  <2>4. QED
    BY <1>5, <2>1, <2>2, <2>3
<1>10. QED
  BY <1>6, <1>7, <1>8, <1>9

(* The adapter only adds calls, of its operations.                         *)
LEMMA StepAdapter ==
  ASSUME ConvertersInv, Adapter PROVE ConvertersInv'
<1>. USE DEF ConvertersInv
<1>1. /\ RequestOK(req) /\ req' = req /\ at' = at /\ result' = result
      /\ defs' = defs /\ phase' = "finish" /\ phase = "adapter"
      /\ CrossDone' = CrossDone
  BY DEF TypeOK, Adapter, CrossDone
<1>2. calls' = calls \cup UNION {AdapterCalls(op) : op \in req.ops}
  BY DEF Adapter
<1>3. \A op \in req.ops : AdapterCalls(op) \subseteq Converter
  <2>1. SUFFICES ASSUME NEW op \in req.ops
                 PROVE  AdapterCalls(op) \subseteq Converter
    OBVIOUS
  <2>2. op \in Operation
    BY <1>1 DEF RequestOK
  <2>3. ({op.body} \ {None}) \cup op.params \subseteq Messages
    BY <2>2 DEF Operation
  <2>4. {op.ok} \ {None} \subseteq Messages
    BY <2>2 DEF Operation
  <2>5. QED
    BY <1>1, <2>3, <2>4, HomeIsPackage, ConverterTypes DEF AdapterCalls
<1>4. TypeOK'
  <2>1. calls' \subseteq Converter
    BY <1>2, <1>3 DEF TypeOK
  <2>2. QED
    BY <1>1, <2>1 DEF TypeOK
<1>5. Progress'
  BY <1>1 DEF Progress, CrossDone, TypeOK
<1>6. DefsInv'
  BY <1>1, SameBehind, SameDefs
<1>7. CallsInv'
  <2>1. SUFFICES ASSUME NEW c \in calls' PROVE Accounted(c)'
    BY DEF CallsInv, Accounted
  <2>2. CASE c \in calls
    BY <1>1, <2>2, SameBehind, AccountedAgain DEF CallsInv, Accounted
  <2>3. CASE \E op \in req.ops : c \in AdapterCalls(op)
    <3>1. Accounted(c)
      BY <1>1, <2>3 DEF Accounted, Progress
    <3>2. QED
      BY <1>1, <3>1, SameBehind, AccountedAgain
  <2>4. QED
    BY <1>2, <2>1, <2>2, <2>3
<1>8. QED
  BY <1>4, <1>5, <1>6, <1>7

(* The invariant holds for every request, of any number of messages,       *)
(* files and packages.                                                     *)
THEOREM ConvertersInvariant == Spec => []ConvertersInv
<1>1. ConvertersInv /\ [Next]_vars => ConvertersInv'
  BY StepConvertFile, StepQuiet, StepCross, StepAdapter DEF Next, Terminated
<1>2. QED
  BY InitInv, <1>1, PTL DEF Spec

(* Every variable keeps its type.                                          *)
THEOREM TypeCorrect == Spec => []TypeOK
<1>1. ConvertersInv => TypeOK
  BY DEF ConvertersInv
<1>2. QED
  BY ConvertersInvariant, <1>1, PTL

-----------------------------------------------------------------------------
(* What has been emitted, message by message.                              *)

(* DefsInv said of one definition.                                         *)
LEMMA DefsAre ==
  ASSUME ConvertersInv, NEW d
  PROVE  d \in defs <=>
           \/ \E m \in Behind : d \in Definitions(req.pkg[m], m, req.pkg[m])
           \/ CrossDone /\ \E m \in CrossMessages :
                d \in Definitions(Home(req), m, Home(req))
<1>1. d \in DefinitionsOf(Home(req), CrossMessages, Home(req)) <=>
        \E m \in CrossMessages : d \in Definitions(Home(req), m, Home(req))
  BY DEF DefinitionsOf
<1>2. d \in UNION {Definitions(req.pkg[m], m, req.pkg[m]) : m \in Behind} <=>
        \E m \in Behind : d \in Definitions(req.pkg[m], m, req.pkg[m])
  OBVIOUS
<1>3. QED
  BY <1>1, <1>2 DEF ConvertersInv, DefsInv

(* A method is emitted only where its type is local.                       *)
LEMMA LegalFromInv == ConvertersInv => ConvertersLegal
<1>1. SUFFICES ASSUME ConvertersInv, NEW d \in defs
               PROVE  d.of \in Structs /\ (d.recv # None => d.pkg = req.pkg[d.of])
  BY DEF ConvertersLegal
<1>2. CASE \E m \in Behind : d \in Definitions(req.pkg[m], m, req.pkg[m])
  BY <1>2 DEF Behind, Definitions, Method, Function
<1>3. CASE \E m \in CrossMessages : d \in Definitions(Home(req), m, Home(req))
  <2>1. PICK m \in CrossMessages : d \in Definitions(Home(req), m, Home(req))
    BY <1>3
  <2>2. m \in Structs /\ (IsLocal(m, Home(req)) => req.pkg[m] = Home(req))
    <3>1. Home(req) # None
      BY <1>1, HomeIsPackage, ConvertersAssumption DEF ConvertersInv, TypeOK
    <3>2. QED
      BY <3>1 DEF CrossMessages, IsLocal
  <2>3. QED
    BY <2>1, <2>2 DEF Definitions, Method, Function
<1>4. QED
  BY <1>1, <1>2, <1>3, DefsAre

(* Converters are of messages that ogen has types for, and methods are in  *)
(* the packages of their types, for every request and at every step.       *)
THEOREM ConvertersAlwaysLegal == Spec => []ConvertersLegal
  BY ConvertersInvariant, LegalFromInv, PTL

(* At the end every marked file is behind the loop.                        *)
LEMMA AllBehind ==
  ASSUME ConvertersInv, result = "ok"
  PROVE  /\ CrossDone
         /\ Behind = {m \in Structs : req.file[m] # 0}
<1>1. phase = "end" /\ CrossDone /\ at = Len(req.filePkg) + 1
  BY DEF ConvertersInv, Progress, CrossDone
<1>2. RequestOK(req)
  BY DEF ConvertersInv, TypeOK
<1>3. Len(req.filePkg) \in Nat
  BY <1>2 DEF RequestOK
<1>4. \A m \in Structs : req.file[m] \in 0 .. Len(req.filePkg)
  BY <1>2, StructsAreMessages DEF RequestOK
<1>5. \A m \in Structs : req.file[m] \in 1 .. at - 1 <=> req.file[m] # 0
  BY <1>1, <1>3, <1>4
<1>6. QED
  BY <1>1, <1>5 DEF Behind

(* genMessage emits both directions.                                       *)
LEMMA DefinedBothWays ==
  ASSUME NEW p, NEW m, NEW local, NEW dir \in {"ToOgen", "FromOgen"}
  PROVE  \E c \in Definitions(p, m, local) : c.of = m /\ c.dir = dir
<1>1. CASE IsLocal(m, local)
  BY <1>1 DEF Definitions, Method, Function
<1>2. CASE ~IsLocal(m, local)
  <2>1. Function(p, req.ogenName[m], dir, m) \in Definitions(p, m, local)
    BY <1>2 DEF Definitions
  <2>2. QED
    BY <2>1 DEF Function
<1>3. QED
  BY <1>1, <1>2

(* A struct is behind the loop, or of another package.                     *)
LEMMA ConvertibleFromInv == ConvertersInv => StructsConvertible
<1>1. SUFFICES ASSUME ConvertersInv, result = "ok", NEW m \in Structs,
                      req.pkg[m] # Home(req) \/ req.file[m] # 0,
                      NEW dir \in {"ToOgen", "FromOgen"}
               PROVE  \E c \in defs : c.of = m /\ c.dir = dir
  BY DEF StructsConvertible
<1>2. CASE req.file[m] # 0
  <2>1. m \in Behind
    BY <1>1, <1>2, AllBehind
  <2>2. QED
    BY <1>1, <2>1, DefsAre, DefinedBothWays
<1>3. CASE req.pkg[m] # Home(req)
  <2>1. m \in CrossMessages /\ CrossDone
    BY <1>1, <1>3, AllBehind DEF CrossMessages
  <2>2. QED
    BY <1>1, <2>1, DefsAre, DefinedBothWays
<1>4. QED
  BY <1>1, <1>2, <1>3

(* Both converters of every message that has a component and an ogen type  *)
(* are emitted, unless it is of the home package and of no marked file.    *)
THEOREM StructsAlwaysConvertible == Spec => []StructsConvertible
  BY ConvertersInvariant, ConvertibleFromInv, PTL

-----------------------------------------------------------------------------
(* Calls against definitions, for a request that is self-contained.        *)

(* With one package, what a marked file declares is of the home package.   *)
LEMMA HomeFiles ==
  ASSUME RequestOK(req), OnePackage, NEW m \in Messages, req.file[m] # 0
  PROVE  req.pkg[m] = Home(req)
<1>1. req.file[m] \in Files
  BY DEF RequestOK, Files
<1>2. QED
  BY <1>1 DEF OnePackage, RequestOK

(* Of a struct of the request, what a call from the home package names.    *)
LEMMA StructResolves ==
  ASSUME ConvertersInv, result = "ok", SelfContained, NEW t \in Structs
  PROVE  /\ ToOgenCall(Home(req), t, Home(req)) \in defs
         /\ FromOgenCall(Home(req), t, Home(req)) \in defs
<1>1. RequestOK(req) /\ CrossDone /\ t \in Messages /\ t \in Typed
  BY AllBehind, StructsAreMessages DEF ConvertersInv, TypeOK, Structs
<1>2. {ToOgenCall(Home(req), t, Home(req)), FromOgenCall(Home(req), t, Home(req))}
        \subseteq Definitions(Home(req), t, Home(req))
  <2>1. CASE IsLocal(t, Home(req))
    <3>1. req.pkg[t] = Home(req)
      BY <1>1, <2>1, HomeIsPackage, ConvertersAssumption DEF IsLocal
    <3>2. QED
      BY <2>1, <3>1 DEF ToOgenCall, FromOgenCall, Definitions
  <2>2. CASE ~IsLocal(t, Home(req))
    BY <2>2 DEF ToOgenCall, FromOgenCall, Definitions
  <2>3. QED
    BY <2>1, <2>2
<1>3. CASE req.pkg[t] = Home(req)
  <2>1. t \in Behind
    BY <1>1, <1>3, AllBehind DEF SelfContained
  <2>2. QED
    BY <1>2, <1>3, <2>1, DefsAre
<1>4. CASE req.pkg[t] # Home(req)
  BY <1>1, <1>2, <1>4, DefsAre DEF CrossMessages
<1>5. QED
  BY <1>3, <1>4

(* For a message of the home package the adapter's form is the same.       *)
LEMMA HomeResolves ==
  ASSUME ConvertersInv, result = "ok", SelfContained, NEW t \in Structs,
         req.pkg[t] = Home(req)
  PROVE  /\ ToOgenCall(Home(req), t, None) \in defs
         /\ FromOgenCall(Home(req), t, None) \in defs
<1>1. /\ ToOgenCall(Home(req), t, None) = ToOgenCall(Home(req), t, Home(req))
      /\ FromOgenCall(Home(req), t, None) = FromOgenCall(Home(req), t, Home(req))
  BY DEF ToOgenCall, FromOgenCall, IsLocal
<1>2. QED
  BY <1>1, StructResolves

(* A declared message that an operation leads to has a component.          *)
LEMMA TypedAtHome ==
  ASSUME RequestOK(req), SelfContained, NEW t \in Typed, req.pkg[t] = Home(req)
  PROVE  t \in Structs
<1>1. t \in Messages \ req.omitted /\ req.file[t] # 0
  BY TypedFacts DEF SelfContained
<1>2. QED
  BY <1>1, CollectedFacts DEF Structs

(* The four origins of a call, each of a struct.                           *)
LEMMA CallResolves ==
  ASSUME ConvertersInv, result = "ok", SelfContained, NEW c \in calls
  PROVE  c \in defs
<1>1. RequestOK(req)
  BY DEF ConvertersInv, TypeOK
<1>2. \A m \in Behind : m \in Structs /\ req.pkg[m] = Home(req)
  BY <1>1, AllBehind, HomeFiles, StructsAreMessages DEF SelfContained
<1>3. ASSUME NEW m \in Structs, c \in FieldCalls(Home(req), m, Home(req))
      PROVE  c \in defs
  <2>1. PICK t \in Rendered(m) : c \in {ToOgenCall(Home(req), t, Home(req)),
                                        FromOgenCall(Home(req), t, Home(req))}
    BY <1>3 DEF FieldCalls
  <2>2. t \in Structs
    BY <1>1, FieldsOfStructs DEF SelfContained
  <2>3. QED
    BY <2>1, <2>2, StructResolves
<1>4. CASE \E m \in Behind : c \in FieldCalls(req.pkg[m], m, req.pkg[m])
  BY <1>2, <1>3, <1>4
<1>5. CASE \E m \in Behind : c \in {ToOgenCall(req.pkg[m], m, None),
                                    FromOgenCall(req.pkg[m], m, None)}
  BY <1>2, <1>5, HomeResolves
<1>6. CASE \E m \in CrossMessages : c \in FieldCalls(Home(req), m, Home(req))
  BY <1>3, <1>6 DEF CrossMessages
<1>7. CASE req.adapter /\ \E op \in req.ops : c \in AdapterCalls(op)
  <2>1. PICK op \in req.ops : c \in AdapterCalls(op)
    BY <1>7
  <2>2. PICK t \in ({op.body, op.ok} \ {None}) \cup op.params :
          c \in {ToOgenCall(Home(req), t, None), FromOgenCall(Home(req), t, None)}
    BY <2>1 DEF AdapterCalls
  <2>3. t \in Typed
    BY <1>1, <2>2, TypedFacts DEF Subjects
  <2>4. req.pkg[t] = Home(req)
    BY <1>7, <2>2 DEF SelfContained
  <2>5. QED
    BY <1>1, <2>2, <2>3, <2>4, TypedAtHome, HomeResolves
<1>8. QED
  BY <1>4, <1>5, <1>6, <1>7 DEF ConvertersInv, CallsInv, Accounted

(* Two definitions that Go takes for one are one.                          *)
LEMMA DefsDistinct ==
  ASSUME ConvertersInv, result = "ok", SelfContained,
         NEW c \in defs, NEW d \in defs,
         c.pkg = d.pkg, c.recv = d.recv, c.fn = d.fn, c.dir = d.dir
  PROVE  c = d
<1>1. RequestOK(req) /\ CrossDone
  BY AllBehind DEF ConvertersInv, TypeOK
<1>2. \A m \in Behind : m \in Structs /\ req.pkg[m] = Home(req)
  BY <1>1, AllBehind, HomeFiles, StructsAreMessages DEF SelfContained
<1>. DEFINE Own(e, m) == m \in Structs /\ req.pkg[m] = Home(req)
              /\ e \in {Method(Home(req), m),
                        Function(Home(req), req.goName[m], "FromOgen", m)}
            Foreign(e, m) == m \in Structs /\ req.pkg[m] # Home(req)
              /\ e \in {Function(Home(req), req.ogenName[m], "ToOgen", m),
                        Function(Home(req), req.ogenName[m], "FromOgen", m)}
<1>3. ASSUME NEW e \in defs PROVE \E m \in Structs : Own(e, m) \/ Foreign(e, m)
  <2>1. CASE \E m \in Behind : e \in Definitions(req.pkg[m], m, req.pkg[m])
    BY <1>2, <2>1 DEF Definitions, IsLocal
  <2>2. CASE \E m \in CrossMessages : e \in Definitions(Home(req), m, Home(req))
    <3>1. Home(req) # None
      BY <1>1, HomeIsPackage, ConvertersAssumption
    <3>2. QED
      BY <2>2, <3>1 DEF Definitions, IsLocal, CrossMessages
  <2>3. QED
    BY <1>3, <2>1, <2>2, DefsAre
<1>4. PICK m \in Structs, n \in Structs :
        (Own(c, m) \/ Foreign(c, m)) /\ (Own(d, n) \/ Foreign(d, n))
  BY <1>3
<1>5. /\ m \in Messages /\ n \in Messages /\ m \in Typed /\ n \in Typed
      /\ m # None /\ n # None
  BY StructsAreMessages, ConvertersAssumption DEF Structs
<1>6. c.of = m /\ d.of = n
  BY <1>4 DEF Method, Function
<1>7. m = n
  <2>1. CASE Own(c, m) /\ Own(d, n)
    <3>1. CASE c.recv # None
      BY <2>1, <3>1 DEF Method, Function
    <3>2. CASE c.recv = None
      <4>1. c.fn = req.goName[m] /\ d.fn = req.goName[n]
        BY <1>5, <2>1, <3>2 DEF Method, Function
      <4>2. QED
        BY <1>1, <1>5, <2>1, <4>1 DEF RequestOK
    <3>3. QED
      BY <3>1, <3>2
  <2>2. CASE Foreign(c, m) /\ Foreign(d, n)
    <3>1. c.fn = req.ogenName[m] /\ d.fn = req.ogenName[n]
      BY <2>2 DEF Function
    <3>2. QED
      BY <1>1, <1>5, <3>1 DEF RequestOK
  <2>3. CASE Own(c, m) /\ Foreign(d, n)
    <3>1. c.fn = req.goName[m] /\ d.fn = req.ogenName[n]
      BY <1>5, <2>3 DEF Method, Function
    <3>2. QED
      BY <1>5, <2>3, <3>1 DEF SelfContained
  <2>4. CASE Foreign(c, m) /\ Own(d, n)
    <3>1. c.fn = req.ogenName[m] /\ d.fn = req.goName[n]
      BY <1>5, <2>4 DEF Method, Function
    <3>2. QED
      BY <1>5, <2>4, <3>1 DEF SelfContained
  <2>5. QED
    BY <1>4, <2>1, <2>2, <2>3, <2>4
<1>8. QED
  BY <1>4, <1>5, <1>7 DEF Method, Function

(* No call is missing its converter and no name is used twice.             *)
LEMMA ResolveFromInv == ConvertersInv => CallsResolve
  BY CallResolves, DefsDistinct DEF CallsResolve

(* For every self-contained request each converter that is called is       *)
(* defined, once: the three walks agree on what is local and on the names. *)
THEOREM CallsAlwaysResolve == Spec => []CallsResolve
  BY ConvertersInvariant, ResolveFromInv, PTL

=============================================================================
