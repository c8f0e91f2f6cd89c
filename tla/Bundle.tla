------------------------------- MODULE Bundle -------------------------------
(***************************************************************************)
(* One run of the plugin on one protoc request: src/generator/openapi.go   *)
(* selects the marked files and the file whose options shape the document, *)
(* validates them, merges the operations of every file, finalises the      *)
(* public document and the one fed to ogen, writes the former and has      *)
(* src/generator/ogen_run.go generate code from the latter, which          *)
(* src/generator/adapter.go links back to the RPCs.                        *)
(*                                                                         *)
(* The schemas are the subject of Components; here a file's messages count *)
(* only by whether they have a oneof that follows the bundle-wide mode and *)
(* whether one has a discriminator that schemaForOneof rejects.  The disk  *)
(* and ogen can fail.  A file is its index in the request, a method the    *)
(* pair of its file's index and its own, over all services of the file.    *)
(***************************************************************************)
EXTENDS Naturals, Sequences, FiniteSets, SequencesExt

CONSTANTS
  Requests,  \* the protoc requests considered, see RequestOK
  Paths, Hooks, Ids, Packages,
  None       \* an option that is not set

Verbs == {"get", "post"}   \* a safe HTTP method and one that is not

(* `omit`: the method, or its service, is omitted or has no ogen options.  *)
Method ==
  [omit: BOOLEAN, verb: Verbs \cup {None}, path: Paths \cup {None},
   hook: Hooks \cup {None}, id: Ids, clientStream: BOOLEAN,
   pathParam: BOOLEAN, noSideEffects: BOOLEAN]

(* `docLevel`: any document-level option but those listed on their own.    *)
File ==
  [generate: BOOLEAN, marked: BOOLEAN, docLevel: BOOLEAN, ogen: BOOLEAN,
   converters: BOOLEAN, adapter: BOOLEAN, version: {None, "3.0", "3.1"},
   mode: {None, "one_of", "object"}, package: Packages,
   oneof: BOOLEAN, badOneof: BOOLEAN, methods: Seq(Method)]

Flags ==
  [mode: {None, "one_of", "object", "bad"}, security: {None, "bearer", "bad"},
   out: BOOLEAN]

(* What the runs tell apart in a document: the constraint that an OBJECT   *)
(* oneof carries, as a marker or written out, and the security scheme.     *)
Contents == [oneof: {"none", "marker", "expanded"}, secured: BOOLEAN]

RequestOK(r) == r.files \in Seq(File) /\ r.flags \in Flags

ASSUME BundleAssumption ==
  /\ \A r \in Requests : RequestOK(r)
  /\ None \notin Paths \cup Hooks \cup Ids
               \cup {"get", "post", "3.0", "3.1", "one_of", "object"}
  /\ None \notin Contents

VARIABLES
  req,      \* the request
  phase,    \* the step of openAPIBundle and generateBundle that is next
  at,       \* the file a loop is at
  bundle,   \* bundle.files
  root,     \* bundle.root, or 0
  mode,     \* g.defaultOneofMode
  version,  \* g.oasVersion
  errs,     \* g.errs, by kind
  paths,    \* paths: [name, verb] -> the method whose operation is there
  hooks,    \* webhooks, likewise
  doc,      \* the document that is written
  copy,     \* ogenDoc, or None
  ogenData, \* the bytes given to ogen, or None
  disk,     \* the document under openapi_out, or None
  emitted,  \* the kinds of file handed to protogen
  links,    \* the adapter: operation -> the method it delegates to
  result    \* "running", "ok", or an error: "rejected" or "broken"

vars == <<req, phase, at, bundle, root, mode, version, errs, paths, hooks,
          doc, copy, ogenData, disk, emitted, links, result>>

selection == <<bundle, root>>
settled == <<mode, version>>
operations == <<paths, hooks>>
documents == <<doc, copy, ogenData>>
outputs == <<disk, emitted, links>>

FileAt(i) == req.files[i]
Root == FileAt(root)
Bundled == Range(bundle)

Goto(p) == phase' = p /\ at' = 1 /\ UNCHANGED <<req, result>>

(* A returned error ends the run; "broken" marks the faults that are not   *)
(* the request's.                                                          *)
FailAs(r) == result' = r /\ phase' = "end" /\ UNCHANGED <<req, at>>
Reject == FailAs("rejected")

Empty == [x \in {} |-> None]

Override(f, g) == [x \in DOMAIN f \cup DOMAIN g |->
                     IF x \in DOMAIN f THEN f[x] ELSE g[x]]

-----------------------------------------------------------------------------
(* openAPIBundle.                                                          *)

HasDocLevelOptions(f) ==
  f.docLevel \/ f.ogen \/ f.converters \/ f.adapter \/ f.version # None

Included(f) == f.generate /\ f.marked

(* Faulty variant of SkipFile: the loop over the files advances twice past *)
(* one that is not marked.                                                 *)
SkipTwo ==
  /\ phase = "select" /\ at <= Len(req.files) /\ ~Included(FileAt(at))
  /\ at' = at + 2
  /\ UNCHANGED <<req, phase, selection, settled, errs, operations, documents,
                 outputs, result>>

SkipFile ==
  /\ phase = "select" /\ at <= Len(req.files) /\ ~Included(FileAt(at))
  /\ at' = at + 1
  /\ UNCHANGED <<req, phase, selection, settled, errs, operations, documents,
                 outputs, result>>

TakesOver(f) ==
  root = 0 \/ (~HasDocLevelOptions(Root) /\ HasDocLevelOptions(f))

AddFile ==
  /\ phase = "select" /\ at <= Len(req.files) /\ Included(FileAt(at))
  /\ bundle' = Append(bundle, at)
  /\ root' = IF TakesOver(FileAt(at)) THEN at ELSE root
  /\ at' = at + 1
  /\ UNCHANGED <<req, phase, settled, errs, operations, documents, outputs,
                 result>>

(* A request without a marked file is answered with nothing.               *)
NothingMarked ==
  /\ phase = "select" /\ at > Len(req.files) /\ bundle = <<>>
  /\ phase' = "end" /\ result' = "ok"
  /\ UNCHANGED <<req, at, selection, settled, errs, operations, documents,
                 outputs>>

Selected ==
  /\ phase = "select" /\ at > Len(req.files) /\ bundle # <<>>
  /\ Goto("validate")
  /\ UNCHANGED <<selection, settled, errs, operations, documents, outputs>>

-----------------------------------------------------------------------------
(* generateBundle, first part: the mode, validateBundle, the version and   *)
(* rejectUnsupportedStreaming.  Errors are gathered, then reported at once.*)

AllMethods == UNION {{<<i, j>> : j \in DOMAIN FileAt(i).methods} : i \in Bundled}
M(x) == FileAt(x[1]).methods[x[2]]

DeclaresHook(m) == ~m.omit /\ m.hook # None
Exposed(m) == ~m.omit /\ (m.verb # None \/ m.hook # None)

ErrorIf(c, kind) == IF c THEN {kind} ELSE {}

(* Faulty variant of DocLevelErrors: validateBundle does not skip the      *)
(* root.                                                                   *)
DocLevelErrorsOfAll ==
  ErrorIf(\E i \in Bundled : HasDocLevelOptions(FileAt(i)), "document_level")

(* Faulty variant of DocLevelErrors: the loop ends before the last file.   *)
DocLevelErrorsButLast ==
  ErrorIf(\E i \in Range(Front(bundle)) \ {root} : HasDocLevelOptions(FileAt(i)),
          "document_level")

DocLevelErrors ==
  ErrorIf(\E i \in Bundled \ {root} : HasDocLevelOptions(FileAt(i)),
          "document_level")

StreamingErrors ==
  ErrorIf(\E x \in AllMethods : Exposed(M(x)) /\ M(x).clientStream,
          "client_stream")

OpenAPIVersion ==
  IF Root.version # None THEN Root.version
  ELSE IF \E x \in AllMethods : DeclaresHook(M(x)) THEN "3.1" ELSE "3.0"

BadMode ==
  /\ phase = "validate" /\ req.flags.mode = "bad"
  /\ Reject
  /\ UNCHANGED <<selection, settled, errs, operations, documents, outputs>>

Validate ==
  /\ phase = "validate" /\ req.flags.mode # "bad"
  /\ mode' = IF req.flags.mode # None THEN req.flags.mode ELSE Root.mode
  /\ errs' = DocLevelErrors \cup StreamingErrors
  /\ version' = OpenAPIVersion
  /\ Goto("report_bundle")
  /\ UNCHANGED <<selection, operations, documents, outputs>>

ReportBundle ==
  /\ phase = "report_bundle" /\ errs # {}
  /\ Reject
  /\ UNCHANGED <<selection, settled, errs, operations, documents, outputs>>

BundleAccepted ==
  /\ phase = "report_bundle" /\ errs = {}
  /\ Goto("paths")
  /\ UNCHANGED <<selection, settled, errs, operations, documents, outputs>>

-----------------------------------------------------------------------------
(* pathsObject, webhooksObject and the merge of one file's operations into *)
(* the document's.  Within a file a later operation replaces an earlier    *)
(* one of the same name and verb.                                          *)

IsPath(m) == ~m.omit /\ m.verb # None /\ m.path # None /\ m.hook = None
IsHook(m) == ~m.omit /\ m.verb # None /\ m.hook # None

Key(m) == [name |-> IF m.hook # None THEN m.hook ELSE m.path, verb |-> m.verb]

PathMethods(i) == {x \in AllMethods : x[1] = i /\ IsPath(M(x))}
HookMethods(i) == {x \in AllMethods : x[1] = i /\ IsHook(M(x))}

(* A file's operations by name and verb, of its methods S.                 *)
LastOfEach(S) ==
  [k \in {Key(M(x)) : x \in S} |->
     CHOOSE x \in S : Key(M(x)) = k /\
       \A y \in S : Key(M(y)) = k => y[2] <= x[2]]

PathsObject(i) == LastOfEach(PathMethods(i))
WebhooksObject(i) == LastOfEach(HookMethods(i))

(* applyIdempotency rejects NO_SIDE_EFFECTS on an unsafe verb, and         *)
(* webhooksObject a path parameter.                                        *)
IdempotencyErrors(S) ==
  ErrorIf(\E x \in S : M(x).noSideEffects /\ M(x).verb # "get", "unsafe_verb")
ParameterErrors(S) == ErrorIf(\E x \in S : M(x).pathParam, "path_param")

DuplicatePath ==
  /\ phase = "paths"
  /\ DOMAIN PathsObject(bundle[at]) \cap DOMAIN paths # {}
  /\ Reject
  /\ UNCHANGED <<selection, settled, errs, operations, documents, outputs>>

MergePaths ==
  /\ phase = "paths"
  /\ DOMAIN PathsObject(bundle[at]) \cap DOMAIN paths = {}
  /\ paths' = Override(PathsObject(bundle[at]), paths)
  /\ errs' = errs \cup IdempotencyErrors(PathMethods(bundle[at]))
  /\ phase' = "webhooks"
  /\ UNCHANGED <<req, at, selection, settled, hooks, documents, outputs,
                 result>>

DuplicateHook ==
  /\ phase = "webhooks"
  /\ DOMAIN WebhooksObject(bundle[at]) \cap DOMAIN hooks # {}
  /\ Reject
  /\ UNCHANGED <<selection, settled, errs, operations, documents, outputs>>

MergeHooks ==
  /\ phase = "webhooks"
  /\ DOMAIN WebhooksObject(bundle[at]) \cap DOMAIN hooks = {}
  /\ hooks' = Override(WebhooksObject(bundle[at]), hooks)
  /\ errs' = errs \cup IdempotencyErrors(HookMethods(bundle[at]))
                  \cup ParameterErrors(HookMethods(bundle[at]))
  /\ at' = at + 1
  /\ phase' = IF at < Len(bundle) THEN "paths" ELSE "check"
  /\ UNCHANGED <<req, selection, settled, paths, documents, outputs, result>>

-----------------------------------------------------------------------------
(* The checks on the whole document, and the schemas, whose oneofs can add *)
(* errors (see Components for the schemas themselves).                     *)

Operations == Range(paths) \cup Range(hooks)

HooksNeed31 == DOMAIN hooks # {} /\ Root.version = "3.0"

(* Faulty variant of DuplicateIds: operation ids are compared among the    *)
(* paths and among the webhooks only.                                      *)
DuplicateIdsPerMap ==
  \E S \in {Range(paths), Range(hooks)} :
    \E x, y \in S : x # y /\ M(x).id = M(y).id

DuplicateIds ==
  \E x, y \in Operations : x # y /\ M(x).id = M(y).id

Check ==
  /\ phase = "check" /\ ~HooksNeed31 /\ ~DuplicateIds
  /\ errs' = errs \cup ErrorIf(\E i \in Bundled : FileAt(i).badOneof,
                              "discriminator")
  /\ doc' = [oneof |-> IF mode = "object" /\ \E i \in Bundled : FileAt(i).oneof
                       THEN "marker" ELSE "none",
             secured |-> FALSE]
  /\ Goto("report_document")
  /\ UNCHANGED <<selection, settled, operations, copy, ogenData, outputs>>

CheckFails ==
  /\ phase = "check" /\ (HooksNeed31 \/ DuplicateIds)
  /\ Reject
  /\ UNCHANGED <<selection, settled, errs, operations, documents, outputs>>

ReportDocument ==
  /\ phase = "report_document" /\ errs # {}
  /\ Reject
  /\ UNCHANGED <<selection, settled, errs, operations, documents, outputs>>

(* Faulty variant of Finalize: the copy for ogen is made after the         *)
(* constraints are expanded.                                               *)
FinalizeThenCopy ==
  /\ phase = "report_document" /\ errs = {}
  /\ IF doc.oneof = "marker"
     THEN /\ copy' = [doc EXCEPT !.oneof = "expanded"]
          /\ doc' = [doc EXCEPT !.oneof = "expanded"]
     ELSE UNCHANGED <<copy, doc>>
  /\ Goto("marshal_ogen")
  /\ UNCHANGED <<selection, settled, errs, operations, ogenData, outputs>>

(* containsObjectOneof, deepCopyNode, finalizeObjectOneof: the copy drops  *)
(* the constraint, the document expands it.  Without a constraint there is *)
(* no copy, and ogen gets the document itself.                             *)
Finalize ==
  /\ phase = "report_document" /\ errs = {}
  /\ IF doc.oneof = "marker"
     THEN /\ copy' = [doc EXCEPT !.oneof = "none"]
          /\ doc' = [doc EXCEPT !.oneof = "expanded"]
     ELSE UNCHANGED <<copy, doc>>
  /\ Goto("marshal_ogen")
  /\ UNCHANGED <<selection, settled, errs, operations, ogenData, outputs>>

MarshalOgen ==
  /\ phase = "marshal_ogen"
  /\ ogenData' = IF copy = None THEN doc ELSE copy
  /\ Goto("secure")
  /\ UNCHANGED <<selection, settled, errs, operations, doc, copy, outputs>>

BadSecurity ==
  /\ phase = "secure" /\ req.flags.security = "bad"
  /\ Reject
  /\ UNCHANGED <<selection, settled, errs, operations, documents, outputs>>

Secure ==
  /\ phase = "secure" /\ req.flags.security # "bad"
  /\ doc' = [doc EXCEPT !.secured = req.flags.security = "bearer"]
  /\ Goto("write")
  /\ UNCHANGED <<selection, settled, errs, operations, copy, ogenData, outputs>>

-----------------------------------------------------------------------------
(* The document goes to disk, or through protoc when nothing else would,   *)
(* and ogen runs when the root asks for it.                                *)

AfterWrite == IF Root.ogen THEN "ogen" ELSE "finish"

WriteDisk ==
  /\ phase = "write" /\ req.flags.out
  /\ disk' = doc
  /\ Goto(AfterWrite)
  /\ UNCHANGED <<selection, settled, errs, operations, documents, emitted, links>>

DiskFails ==
  /\ phase = "write" /\ req.flags.out
  /\ FailAs("broken")
  /\ UNCHANGED <<selection, settled, errs, operations, documents, outputs>>

(* Faulty variant of EmitDocument: the document goes through protoc only   *)
(* when ogen runs too.                                                     *)
EmitWithOgen ==
  /\ phase = "write" /\ ~req.flags.out
  /\ emitted' = emitted \cup (IF Root.ogen THEN {"yaml"} ELSE {})
  /\ Goto(AfterWrite)
  /\ UNCHANGED <<selection, settled, errs, operations, documents, disk, links>>

EmitDocument ==
  /\ phase = "write" /\ ~req.flags.out
  /\ emitted' = emitted \cup (IF Root.ogen THEN {} ELSE {"yaml"})
  /\ Goto(AfterWrite)
  /\ UNCHANGED <<selection, settled, errs, operations, documents, disk, links>>

(* The config, the document or ogen itself can be at fault.                *)
OgenFails ==
  /\ phase = "ogen"
  /\ FailAs("broken")
  /\ UNCHANGED <<selection, settled, errs, operations, documents, outputs>>

Ogen ==
  /\ phase = "ogen"
  /\ emitted' = emitted \cup {"ogen"} \cup
                  (IF Root.converters THEN {"converters"} ELSE {})
  /\ Goto(IF Root.converters /\ Root.adapter THEN "adapter" ELSE "finish")
  /\ UNCHANGED <<selection, settled, errs, operations, documents, disk, links>>

OnePackage == Cardinality({FileAt(i).package : i \in Bundled}) = 1

ManyPackages ==
  /\ phase = "adapter" /\ ~OnePackage
  /\ Reject
  /\ UNCHANGED <<selection, settled, errs, operations, documents, outputs>>

(* generateAdapterGroup: byOpID has every method with a verb, the last one *)
(* of an operation id prevailing.                                          *)
Later(x, y) == x[1] > y[1] \/ (x[1] = y[1] /\ x[2] >= y[2])

Linkable(id) ==
  {x \in AllMethods : ~M(x).omit /\ M(x).verb # None /\ M(x).id = id}

ByOpID(id) ==
  CHOOSE x \in Linkable(id) : \A y \in Linkable(id) : Later(x, y)

Adapter ==
  /\ phase = "adapter" /\ OnePackage
  /\ links' = [x \in Operations |-> ByOpID(M(x).id)]
  /\ emitted' = emitted \cup (IF Operations = {} THEN {} ELSE {"adapter"})
  /\ Goto("finish")
  /\ UNCHANGED <<selection, settled, errs, operations, documents, disk>>

Finish ==
  /\ phase = "finish"
  /\ result' = "ok" /\ phase' = "end"
  /\ UNCHANGED <<req, at, selection, settled, errs, operations, documents,
                 outputs>>

Terminated == phase = "end" /\ UNCHANGED vars

(* What protoc gets: protogen answers an error with no file at all.        *)
Delivered == IF result = "ok" THEN emitted ELSE {}

-----------------------------------------------------------------------------
Init ==
  /\ req \in Requests
  /\ phase = "select" /\ at = 1 /\ bundle = <<>> /\ root = 0
  /\ mode = None /\ version = None /\ errs = {}
  /\ paths = Empty /\ hooks = Empty
  /\ doc = None /\ copy = None /\ ogenData = None
  /\ disk = None /\ emitted = {} /\ links = Empty /\ result = "running"

Select == SkipFile \/ AddFile \/ NothingMarked \/ Selected
Accept == BadMode \/ Validate \/ ReportBundle \/ BundleAccepted
Merge == DuplicatePath \/ MergePaths \/ DuplicateHook \/ MergeHooks
Document == Check \/ CheckFails \/ ReportDocument \/ Finalize \/ MarshalOgen
              \/ BadSecurity \/ Secure
Generate == WriteDisk \/ DiskFails \/ EmitDocument \/ OgenFails \/ Ogen
              \/ ManyPackages \/ Adapter \/ Finish

Next == Select \/ Accept \/ Merge \/ Document \/ Generate \/ Terminated

Spec == Init /\ [][Next]_vars

-----------------------------------------------------------------------------
(* Every variable holds a value of its kind.                               *)
TypeOK ==
  /\ RequestOK(req)
  /\ phase \in {"select", "validate", "report_bundle", "paths", "webhooks",
                "check", "report_document", "marshal_ogen", "secure", "write",
                "ogen", "adapter", "finish", "end"}
  /\ at \in 1 .. Len(req.files) + 1
  /\ bundle \in Seq(1 .. Len(req.files))
  /\ root \in Bundled \/ (root = 0 /\ bundle = <<>>)
  /\ mode \in {None, "one_of", "object"} /\ version \in {None, "3.0", "3.1"}
  /\ errs \subseteq {"document_level", "client_stream", "unsafe_verb",
                     "path_param", "discriminator"}
  /\ Operations \subseteq AllMethods
  /\ {doc, copy, ogenData, disk} \subseteq Contents \cup {None}
  /\ emitted \subseteq {"yaml", "ogen", "converters", "adapter"}
  /\ DOMAIN links \subseteq Operations
  /\ result \in {"running", "ok", "rejected", "broken"}

(* What a request must satisfy, said of the request alone: no ambiguity    *)
(* between files, no operation that HTTP or OpenAPI cannot express.        *)
IncludedFiles == {i \in DOMAIN req.files : Included(FileAt(i))}
Carriers == {i \in IncludedFiles : HasDocLevelOptions(FileAt(i))}
HttpMethods(i) == PathMethods(i) \cup HookMethods(i)
Kept == UNION {Range(PathsObject(i)) \cup Range(WebhooksObject(i)) :
                 i \in IncludedFiles}

ValidDocument ==
  /\ req.flags.mode # "bad" /\ req.flags.security # "bad"
  /\ \A c, d \in Carriers : c = d
  /\ \A i \in IncludedFiles :
       /\ ~FileAt(i).badOneof
       /\ \A m \in Range(FileAt(i).methods) : Exposed(m) => ~m.clientStream
       /\ \A x \in HttpMethods(i) : M(x).noSideEffects => M(x).verb = "get"
       /\ \A x \in HookMethods(i) :
            ~M(x).pathParam /\ \A c \in Carriers : FileAt(c).version # "3.0"
  /\ \A i, j \in IncludedFiles : i # j =>
       \A x \in HttpMethods(i), y \in HttpMethods(j) :
         IsHook(M(x)) = IsHook(M(y)) => Key(M(x)) # Key(M(y))
  /\ \A x, y \in Kept : x # y => M(x).id # M(y).id

ValidAdapter ==
  \A c \in Carriers :
    FileAt(c).ogen /\ FileAt(c).converters /\ FileAt(c).adapter
      => \A i, j \in IncludedFiles : FileAt(i).package = FileAt(j).package

(* An error gathered or returned anywhere in the run is never outrun by    *)
(* the output: no document reaches the disk and no file reaches protoc for *)
(* a request that is not valid.                                            *)
OutputIsValid ==
  /\ disk # None => ValidDocument
  /\ Delivered # {} => ValidDocument /\ ValidAdapter

(* The other direction: a valid request is never rejected.                 *)
RejectsOnlyInvalid ==
  result = "rejected" => ~(ValidDocument /\ ValidAdapter)

(* The root is the one file with document-level options when there is one, *)
(* whatever its place in the request, so those options are never dropped.  *)
RootIsTheCarrier ==
  result = "ok" /\ Carriers # {} => Carriers = {root}

(* The document given to ogen has neither a security scheme nor an OBJECT  *)
(* oneof's constraint, whatever happens to the public document afterwards; *)
(* the public one has the scheme and the constraints, and no marker.       *)
DocumentsFinal ==
  /\ ogenData # None => ogenData = [oneof |-> "none", secured |-> FALSE]
  /\ disk # None =>
       /\ disk.secured <=> req.flags.security = "bearer"
       /\ disk.oneof = IF mode = "object" /\ \E i \in Bundled : FileAt(i).oneof
                       THEN "expanded" ELSE "none"

(* A marked file is never answered by nothing: a run that succeeds leaves  *)
(* the document on disk or hands protoc a file.  An adapter comes with the *)
(* ogen package and the converters it calls.                               *)
ProducesSomething ==
  /\ result = "ok" /\ IncludedFiles # {} => disk # None \/ Delivered # {}
  /\ "adapter" \in Delivered => {"ogen", "converters"} \subseteq Delivered

-----------------------------------------------------------------------------
(* What the documentation and the comments say of this component.          *)

(* openapi.go, validateBundle: a non-root file's document-level options    *)
(* would be "silently dropped", so it rejects them.  A bundle that is      *)
(* accepted loses no file's default_oneof_schema_mode to the root.         *)
NoModeDropped ==
  result = "ok" /\ req.flags.mode = None =>
    \A i \in Bundled : FileAt(i).mode # None => FileAt(i).mode = mode

(* ogen.proto, ServiceOptions: "By default, services with annotated        *)
(* methods should be generated."  Every HTTP method of an accepted bundle  *)
(* has its operation in the document.                                      *)
EveryMethodInDocument ==
  result = "ok" =>
    \A x \in AllMethods :
      IsPath(M(x)) \/ IsHook(M(x)) => x \in Operations

(* adapter.go: "opMethod links an ogen operation to the proto              *)
(* service/method it came from."                                           *)
LinksToOrigin == \A x \in DOMAIN links : links[x] = x

=============================================================================
