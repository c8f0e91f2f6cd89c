--------------------------- MODULE Bundle_proofs ---------------------------
(***************************************************************************)
(* TLAPS proofs about Bundle, for every protoc request: any number of      *)
(* files, in any order, with any methods and options.                      *)
(***************************************************************************)
EXTENDS Bundle, SequenceTheorems, FiniteSetTheorems,
        WellFoundedInduction, TLAPS

-----------------------------------------------------------------------------
(* What a step that keeps the request and the selection keeps with them *)

LEMMA SameFiles ==
  ASSUME UNCHANGED <<req, selection>>
  PROVE  /\ Bundled' = Bundled /\ Root' = Root
         /\ IncludedFiles' = IncludedFiles /\ Carriers' = Carriers
         /\ AllMethods' = AllMethods
         /\ \A x : M(x)' = M(x)
         /\ \A i : FileAt(i)' = FileAt(i)
  BY DEF selection, Bundled, Root, IncludedFiles, Carriers, AllMethods, M, FileAt

LEMMA SameMethods ==
  ASSUME UNCHANGED <<req, selection>>
  PROVE  /\ \A i : PathMethods(i)' = PathMethods(i)
         /\ \A i : HookMethods(i)' = HookMethods(i)
         /\ \A i : HttpMethods(i)' = HttpMethods(i)
<1>. AllMethods' = AllMethods /\ \A x : M(x)' = M(x)
  BY SameFiles
<1>. QED
  BY DEF PathMethods, HookMethods, HttpMethods

LEMMA SameObjects ==
  ASSUME UNCHANGED <<req, selection>>
  PROVE  /\ \A i : PathsObject(i)' = PathsObject(i)
         /\ \A i : WebhooksObject(i)' = WebhooksObject(i)
         /\ \A S : IdempotencyErrors(S)' = IdempotencyErrors(S)
         /\ \A S : ParameterErrors(S)' = ParameterErrors(S)
<1>1. \A x : M(x)' = M(x)
  BY SameFiles
<1>2. \A S : LastOfEach(S)' = LastOfEach(S)
  BY <1>1 DEF LastOfEach
<1>3. \A i : PathMethods(i)' = PathMethods(i) /\ HookMethods(i)' = HookMethods(i)
  BY SameMethods
<1>4. /\ \A i : PathsObject(i)' = PathsObject(i)
      /\ \A i : WebhooksObject(i)' = WebhooksObject(i)
  BY <1>2, <1>3 DEF PathsObject, WebhooksObject
<1>. QED
  BY <1>1, <1>4 DEF IdempotencyErrors, ParameterErrors, ErrorIf

LEMMA SameValid ==
  ASSUME UNCHANGED <<req, selection>>
  PROVE  /\ ValidDocument' <=> ValidDocument
         /\ ValidAdapter' <=> ValidAdapter
         /\ DocLevelErrors' = DocLevelErrors
         /\ StreamingErrors' = StreamingErrors
  BY SameFiles, SameMethods, SameObjects
     DEF ValidDocument, ValidAdapter, DocLevelErrors, StreamingErrors, Kept, selection, ErrorIf

-----------------------------------------------------------------------------
(* The invariant, step by step *)

(* What the loop over the files has found, and that nothing is merged      *)
(* before the bundle is accepted, nor linked before the adapter.           *)
SelectInv ==
  /\ phase = "select" => Bundled = {i \in IncludedFiles : i < at} /\ Len(bundle) < at
  /\ phase # "select" => Bundled = IncludedFiles
  /\ phase \notin {"select", "end"} => bundle # <<>>
  /\ Len(bundle) <= Len(req.files)
  /\ \A k, l \in DOMAIN bundle : bundle[k] = bundle[l] => k = l
  /\ Carriers \cap Bundled # {} => root \in Carriers
  /\ phase \in {"paths", "webhooks"} => at <= Len(bundle)
  /\ phase \in {"select", "validate", "report_bundle"} => paths = Empty /\ hooks = Empty
  /\ phase \notin {"finish", "end"} => links = Empty

Base == TypeOK /\ SelectInv

(* After the selection the request and the bundle stay as they are.        *)
Works == Accept \/ Merge \/ Document \/ Generate

LEMMA KeepsSelection ==
  ASSUME Works
  PROVE  UNCHANGED <<req, selection>> /\ phase # "select" /\ phase' # "select"
<1>1. CASE Accept
  BY <1>1 DEF Accept, BadMode, Validate, ReportBundle, BundleAccepted, Reject, FailAs, Goto
<1>2. CASE Merge
  BY <1>2 DEF Merge, DuplicatePath, MergePaths, DuplicateHook, MergeHooks, Reject, FailAs
<1>3. CASE Document
  BY <1>3 DEF Document, Check, CheckFails, ReportDocument, Finalize, MarshalOgen,
              BadSecurity, Secure, Reject, FailAs, Goto
<1>4. CASE Generate
  BY <1>4 DEF Generate, WriteDisk, DiskFails, EmitDocument, OgenFails, Ogen, ManyPackages,
              Adapter, Finish, Reject, FailAs, Goto, AfterWrite
<1>. QED
  BY <1>1, <1>2, <1>3, <1>4 DEF Works

LEMMA BundleLength ==
  ASSUME TypeOK
  PROVE  /\ Len(bundle) \in Nat /\ DOMAIN bundle = 1 .. Len(bundle)
         /\ Len(req.files) \in Nat /\ DOMAIN req.files = 1 .. Len(req.files)
         /\ at \in Nat \ {0}
         /\ Bundled \subseteq DOMAIN req.files
         /\ \A i \in DOMAIN req.files : FileAt(i) \in File
         /\ req.flags \in Flags
<1>1. req.files \in Seq(File) /\ req.flags \in Flags
  BY DEF TypeOK, RequestOK
<1>2. bundle \in Seq(1 .. Len(req.files)) /\ at \in 1 .. Len(req.files) + 1
  BY DEF TypeOK
<1>. QED
  BY <1>1, <1>2 DEF Bundled, Range, FileAt

\* The root's options are those of a file of the request.
LEMMA RootIsBundled ==
  ASSUME Base, bundle # <<>>
  PROVE  root \in Bundled /\ root \in DOMAIN req.files /\ Root \in File
  BY BundleLength DEF Base, TypeOK, Root

LEMMA SelectInit ==
  ASSUME Init
  PROVE  Base
<1>1. RequestOK(req)
  BY BundleAssumption DEF Init
<1>2. bundle = <<>> /\ Bundled = {} /\ DOMAIN bundle = {}
  BY DEF Init, Bundled, Range
<1>3. Operations = {} /\ DOMAIN links = {}
  BY DEF Init, Operations, Empty, Range
<1>4. Len(req.files) \in Nat
  BY <1>1 DEF RequestOK
<1>5. TypeOK
  BY <1>1, <1>2, <1>3, <1>4 DEF Init, TypeOK
<1>6. SelectInv
  <2>1. {i \in IncludedFiles : i < at} = {}
    BY <1>1, <1>4 DEF Init, IncludedFiles, RequestOK
  <2>. QED
    BY <2>1, <1>2, <1>4 DEF Init, SelectInv
<1>. QED
  BY <1>5, <1>6 DEF Base

-----------------------------------------------------------------------------
(* The loop over the files *)

\* What Append does to the bundle.
LEMMA BundleGrows ==
  ASSUME Base, AddFile
  PROVE  /\ bundle' \in Seq(1 .. Len(req.files)) /\ Len(bundle') = Len(bundle) + 1
         /\ \A k \in 1 .. Len(bundle) : bundle'[k] = bundle[k]
         /\ bundle'[Len(bundle) + 1] = at
         /\ Bundled' = Bundled \cup {at}
<1>1. bundle \in Seq(1 .. Len(req.files)) /\ at \in 1 .. Len(req.files)
  BY BundleLength DEF Base, TypeOK, AddFile
<1>2. bundle' = Append(bundle, at)
  BY DEF AddFile
<1>3. /\ bundle' \in Seq(1 .. Len(req.files)) /\ Len(bundle') = Len(bundle) + 1
      /\ \A k \in 1 .. Len(bundle) : bundle'[k] = bundle[k]
      /\ bundle'[Len(bundle) + 1] = at
  BY <1>1, <1>2, AppendProperties
<1>4. Bundled' = {bundle'[k] : k \in 1 .. Len(bundle) + 1}
  BY <1>3 DEF Bundled, Range
<1>5. Bundled = {bundle[k] : k \in 1 .. Len(bundle)}
  BY <1>1 DEF Bundled, Range
<1>6. Bundled' = Bundled \cup {at}
  <2>1. Len(bundle) \in Nat
    BY <1>1
  <2>2. \A k \in 1 .. Len(bundle) + 1 : k \in 1 .. Len(bundle) \/ k = Len(bundle) + 1
    BY <2>1
  <2>3. 1 .. Len(bundle) \subseteq 1 .. Len(bundle) + 1 /\ Len(bundle) + 1 \in 1 .. Len(bundle) + 1
    BY <2>1
  <2>4. Bundled' \subseteq Bundled \cup {at}
    BY <1>3, <1>4, <1>5, <2>2
  <2>5. Bundled \cup {at} \subseteq Bundled'
    BY <1>3, <1>4, <1>5, <2>3
  <2>. QED
    BY <2>4, <2>5
<1>. QED
  BY <1>3, <1>6

LEMMA SelectStepAdd ==
  ASSUME Base, AddFile
  PROVE  Base'
<1>1. /\ phase = "select" /\ phase' = "select" /\ at \in 1 .. Len(req.files)
      /\ at' = at + 1 /\ req' = req /\ Included(FileAt(at))
      /\ UNCHANGED <<settled, errs, operations, documents, outputs, result>>
  BY BundleLength DEF AddFile, Base
<1>2. /\ bundle' \in Seq(1 .. Len(req.files)) /\ Len(bundle') = Len(bundle) + 1
      /\ \A k \in 1 .. Len(bundle) : bundle'[k] = bundle[k]
      /\ bundle'[Len(bundle) + 1] = at
      /\ Bundled' = Bundled \cup {at}
  BY BundleGrows
<1>3. /\ IncludedFiles' = IncludedFiles /\ Carriers' = Carriers
      /\ \A i : FileAt(i)' = FileAt(i)
  BY <1>1 DEF IncludedFiles, Carriers, FileAt
<1>4. paths = Empty /\ hooks = Empty /\ Bundled = {i \in IncludedFiles : i < at} /\ Len(bundle) < at
  BY <1>1 DEF Base, SelectInv
<1>5. at \in IncludedFiles
  BY <1>1, BundleLength DEF IncludedFiles, Base
<1>6. root' \in Bundled'
  <2>1. CASE root = 0 \/ TakesOver(FileAt(at))
    BY <2>1, <1>2 DEF AddFile, TakesOver
  <2>2. CASE root # 0 /\ ~TakesOver(FileAt(at))
    BY <2>2, <1>2 DEF AddFile, Base, TypeOK
  <2>. QED
    BY <2>1, <2>2
<1>7. Operations' = {} /\ Operations = {}
  BY <1>1, <1>4 DEF operations, Operations, Empty, Range
<1>8. TypeOK'
  <2>1. at' \in 1 .. Len(req'.files) + 1
    BY <1>1, BundleLength DEF Base
  <2>2. bundle' \in Seq(1 .. Len(req'.files))
    BY <1>1, <1>2
  <2>3. RequestOK(req') /\ DOMAIN links' = DOMAIN links
    BY <1>1 DEF Base, TypeOK, outputs
  <2>. QED
    BY <1>1, <1>6, <1>7, <2>1, <2>2, <2>3
       DEF Base, TypeOK, settled, operations, documents, outputs
<1>9. Bundled' = {i \in IncludedFiles' : i < at'} /\ Len(bundle') < at'
  <2>1. \A i \in IncludedFiles : i \in Int
    BY BundleLength DEF IncludedFiles, Base
  <2>. QED
    BY <1>1, <1>2, <1>3, <1>4, <1>5, <2>1, BundleLength DEF Base
<1>10. \A k, l \in DOMAIN bundle' : bundle'[k] = bundle'[l] => k = l
  <2>1. DOMAIN bundle' = 1 .. Len(bundle) + 1 /\ DOMAIN bundle = 1 .. Len(bundle)
    BY <1>2, BundleLength DEF Base
  <2>2. \A k \in 1 .. Len(bundle) : bundle[k] # at
    BY <1>1, <1>4, <2>1, BundleLength DEF Base, Bundled, Range
  <2>. QED
    BY <1>2, <2>1, <2>2, BundleLength DEF Base, SelectInv
<1>11. Carriers' \cap Bundled' # {} => root' \in Carriers'
  <2>1. root # 0 => root \in Bundled
    BY DEF Base, TypeOK
  <2>2. root = 0 => Bundled = {}
    BY BundleLength DEF Base, TypeOK, Bundled, Range
  <2>3. Carriers \cap Bundled # {} => root \in Carriers
    BY DEF Base, SelectInv
  <2>4. root # 0 => (root \in Carriers <=> HasDocLevelOptions(Root))
    BY <2>1, <1>4 DEF Carriers, Root
  <2>5. at \in Carriers <=> HasDocLevelOptions(FileAt(at))
    BY <1>5 DEF Carriers
  <2>6. root' = IF TakesOver(FileAt(at)) THEN at ELSE root
    BY DEF AddFile
  <2>. QED
    BY <1>2, <1>3, <2>1, <2>2, <2>3, <2>4, <2>5, <2>6 DEF TakesOver
<1>12. Len(bundle') <= Len(req'.files)
  BY <1>1, <1>2, <1>4, BundleLength DEF Base
<1>13. SelectInv'
  <2>1. links = Empty
    BY <1>1 DEF Base, SelectInv
  <2>. QED
    BY <2>1, <1>1, <1>4, <1>9, <1>10, <1>11, <1>12 DEF SelectInv, operations, outputs
<1>. QED
  BY <1>8, <1>13 DEF Base

LEMMA SelectStepRest ==
  ASSUME Base, SkipFile \/ NothingMarked \/ Selected
  PROVE  Base'
<1>1. UNCHANGED <<req, selection, settled, errs, operations, documents, outputs>>
  BY DEF SkipFile, NothingMarked, Selected, Goto
<1>2. /\ Bundled' = Bundled /\ IncludedFiles' = IncludedFiles /\ Carriers' = Carriers
      /\ AllMethods' = AllMethods
  BY <1>1, SameFiles
<1>3. Operations' = Operations
  BY <1>1 DEF operations, Operations
<1>4. /\ phase = "select" /\ Bundled = {i \in IncludedFiles : i < at} /\ Len(bundle) < at
      /\ paths = Empty /\ hooks = Empty /\ links = Empty
  BY DEF Base, SelectInv, SkipFile, NothingMarked, Selected
<1>5. /\ phase' \in {"select", "validate", "end"} /\ at' \in 1 .. Len(req.files) + 1
      /\ result' \in {"running", "ok", "rejected", "broken"}
  <2>1. CASE SkipFile
    BY <2>1, <1>4, BundleLength DEF SkipFile, Base, TypeOK
  <2>2. CASE NothingMarked
    BY <2>2, <1>4, BundleLength DEF NothingMarked, Base, TypeOK
  <2>3. CASE Selected
    BY <2>3, <1>4, BundleLength DEF Selected, Goto, Base, TypeOK
  <2>. QED
    BY <2>1, <2>2, <2>3
<1>6. TypeOK'
  BY <1>1, <1>2, <1>3, <1>5
     DEF Base, TypeOK, selection, settled, documents, outputs
<1>7. Bundled' = {i \in IncludedFiles' : i < at'} \/ phase' # "select"
  <2>1. CASE SkipFile
    <3>1. at \notin IncludedFiles /\ at' = at + 1 /\ at \in Nat
      BY <2>1, BundleLength DEF SkipFile, IncludedFiles, Base
    <3>2. \A i \in IncludedFiles : i \in Int
      BY BundleLength DEF IncludedFiles, Base
    <3>. QED
      BY <3>1, <3>2, <1>2, <1>4
  <2>2. CASE NothingMarked \/ Selected
    BY <2>2 DEF NothingMarked, Selected, Goto
  <2>. QED
    BY <2>1, <2>2
<1>8. phase' # "select" => Bundled' = IncludedFiles'
  <2>1. CASE SkipFile
    BY <2>1, <1>4 DEF SkipFile
  <2>2. CASE NothingMarked \/ Selected
    <3>1. at > Len(req.files)
      BY <2>2 DEF NothingMarked, Selected
    <3>2. \A i \in IncludedFiles : i \in 1 .. Len(req.files)
      BY BundleLength DEF IncludedFiles, Base
    <3>3. \A i \in IncludedFiles : i < at
      BY <3>1, <3>2, BundleLength DEF Base
    <3>. QED
      BY <3>3, <1>2, <1>4
  <2>. QED
    BY <2>1, <2>2
<1>9. phase' = "select" => Len(bundle') < at'
  BY <1>1, <1>4, BundleLength DEF selection, SkipFile, NothingMarked, Selected, Goto, Base
<1>10. phase' = "validate" => bundle' # <<>>
  BY <1>1, <1>4 DEF selection, SkipFile, NothingMarked, Selected, Goto
<1>11. /\ Len(bundle') <= Len(req'.files)
       /\ \A k, l \in DOMAIN bundle' : bundle'[k] = bundle'[l] => k = l
       /\ Carriers' \cap Bundled' # {} => root' \in Carriers'
  BY <1>1, <1>2 DEF selection, Base, SelectInv
<1>12. SelectInv'
  BY <1>1, <1>4, <1>5, <1>7, <1>8, <1>9, <1>10, <1>11 DEF SelectInv, operations, outputs
<1>. QED
  BY <1>6, <1>12 DEF Base

-----------------------------------------------------------------------------
(* Types after the selection *)

\* Which action writes what.
LEMMA Writers ==
  ASSUME Works
  PROVE  /\ UNCHANGED settled \/ Validate
         /\ UNCHANGED errs \/ Validate \/ MergePaths \/ MergeHooks \/ Check
         /\ UNCHANGED paths \/ MergePaths
         /\ UNCHANGED hooks \/ MergeHooks
         /\ UNCHANGED documents \/ Check \/ Finalize \/ MarshalOgen \/ Secure
         /\ UNCHANGED disk \/ WriteDisk
         /\ UNCHANGED emitted \/ EmitDocument \/ Ogen \/ Adapter
         /\ UNCHANGED links \/ Adapter
<1>1. CASE Accept
  BY <1>1 DEF Accept, BadMode, ReportBundle, BundleAccepted, Validate,
              operations, outputs
<1>2. CASE Merge
  BY <1>2 DEF Merge, DuplicatePath, DuplicateHook, MergePaths, MergeHooks, operations, outputs
<1>3. CASE Document
  BY <1>3 DEF Document, CheckFails, ReportDocument, BadSecurity, Check, Finalize, MarshalOgen,
              Secure, operations, outputs
<1>4. CASE Generate
  BY <1>4 DEF Generate, DiskFails, OgenFails, ManyPackages, Finish, WriteDisk, EmitDocument,
              Ogen, Adapter, operations, outputs
<1>. QED
  BY <1>1, <1>2, <1>3, <1>4 DEF Works

Phases ==
  {"select", "validate", "report_bundle", "paths", "webhooks", "check",
   "report_document", "marshal_ogen", "secure", "write", "ogen", "adapter",
   "finish", "end"}

LEMMA TypeOfControl ==
  ASSUME Base, Works
  PROVE  /\ phase' \in Phases /\ at' \in 1 .. Len(req.files) + 1
         /\ result' \in {"running", "ok", "rejected", "broken"}
<1>. /\ at \in 1 .. Len(req.files) + 1 /\ 1 \in 1 .. Len(req.files) + 1
     /\ result \in {"running", "ok", "rejected", "broken"}
  BY BundleLength DEF Base, TypeOK
<1>1. CASE Accept
  BY <1>1 DEF Accept, BadMode, Validate, ReportBundle, BundleAccepted, Reject, FailAs, Goto,
              Phases
<1>2. CASE MergeHooks
  <2>1. at + 1 \in 1 .. Len(req.files) + 1
    BY <1>2, BundleLength DEF MergeHooks, Base, SelectInv
  <2>. QED
    BY <1>2, <2>1 DEF MergeHooks, Phases
<1>3. CASE DuplicatePath \/ MergePaths \/ DuplicateHook
  BY <1>3 DEF DuplicatePath, MergePaths, DuplicateHook, Reject, FailAs, Phases
<1>4. CASE Document
  BY <1>4 DEF Document, Check, CheckFails, ReportDocument, Finalize, MarshalOgen,
              BadSecurity, Secure, Reject, FailAs, Goto, Phases
<1>5. CASE Generate
  BY <1>5 DEF Generate, WriteDisk, DiskFails, EmitDocument, OgenFails, Ogen, ManyPackages,
              Adapter, Finish, Reject, FailAs, Goto, AfterWrite, Phases
<1>. QED
  BY <1>1, <1>2, <1>3, <1>4, <1>5 DEF Works, Merge

LEMMA TypeOfSettled ==
  ASSUME Base, Works
  PROVE  mode' \in {None, "one_of", "object"} /\ version' \in {None, "3.0", "3.1"}
<1>1. CASE UNCHANGED settled
  BY <1>1 DEF settled, Base, TypeOK
<1>2. CASE Validate
  <2>1. Root \in File
    BY <1>2, RootIsBundled DEF Validate, Base, SelectInv
  <2>2. Root.mode \in {None, "one_of", "object"} /\ Root.version \in {None, "3.0", "3.1"}
    BY <2>1 DEF File
  <2>3. req.flags.mode \in {None, "one_of", "object", "bad"}
    BY BundleLength DEF Base, Flags
  <2>. QED
    BY <1>2, <2>2, <2>3 DEF Validate, OpenAPIVersion
<1>. QED
  BY <1>1, <1>2, Writers

Kinds == {"document_level", "client_stream", "unsafe_verb", "path_param", "discriminator"}

LEMMA TypeOfErrs ==
  ASSUME Base, Works
  PROVE  errs' \subseteq Kinds
<1>. errs \subseteq Kinds
  BY DEF Base, TypeOK, Kinds
<1>1. CASE UNCHANGED errs
  BY <1>1
<1>2. CASE Validate
  BY <1>2 DEF Validate, DocLevelErrors, StreamingErrors, ErrorIf, Kinds
<1>3. CASE MergePaths \/ MergeHooks \/ Check
  BY <1>3 DEF MergePaths, MergeHooks, Check, IdempotencyErrors, ParameterErrors, ErrorIf, Kinds
<1>. QED
  BY <1>1, <1>2, <1>3, Writers

\* A set of indexes has a last one.
LEMMA LastIndex ==
  ASSUME NEW n \in Nat, NEW J \in SUBSET (1 .. n), J # {}
  PROVE  \E j \in J : \A k \in J : k <= j
<1> DEFINE T == {n - j : j \in J}
<1>1. T \subseteq Nat /\ T # {}
  <2>1. \A j \in 1 .. n : n - j \in Nat
    OBVIOUS
  <2>. QED
    BY <2>1
<1>2. PICK x \in T : \A y \in T : ~ (<<y, x>> \in OpToRel(<, Nat))
  BY <1>1, NatLessThanWellFounded, WFMin
<1>3. \A y \in T : ~ (y < x)
  BY <1>1, <1>2 DEF OpToRel
<1>4. PICK j \in J : x = n - j
  BY <1>2
<1>5. \A k \in J : ~ (n - k < n - j)
  BY <1>3, <1>4
<1>. QED
  BY <1>5

\* A file's operations are methods of it, each under its own name and verb.
LEMMA LastOfEachChooses ==
  ASSUME NEW i \in Nat, NEW n \in Nat, NEW S \in SUBSET ({i} \X (1 .. n))
  PROVE  /\ DOMAIN LastOfEach(S) = {Key(M(x)) : x \in S}
         /\ \A k \in DOMAIN LastOfEach(S) :
              LastOfEach(S)[k] \in S /\ Key(M(LastOfEach(S)[k])) = k
         /\ Range(LastOfEach(S)) \subseteq S
<1>1. DOMAIN LastOfEach(S) = {Key(M(x)) : x \in S}
  BY DEF LastOfEach
<1>2. ASSUME NEW k \in DOMAIN LastOfEach(S)
      PROVE  LastOfEach(S)[k] \in S /\ Key(M(LastOfEach(S)[k])) = k
  <2> DEFINE J == {j \in 1 .. n : <<i, j>> \in S /\ Key(M(<<i, j>>)) = k}
  <2>1. J # {}
    <3>1. PICK x \in S : Key(M(x)) = k
      BY <1>1, <1>2
    <3>2. x[2] \in J
      BY <3>1
    <3>. QED
      BY <3>2
  <2>2. PICK j \in J : \A l \in J : l <= j
    BY <2>1, LastIndex
  <2>3. \A y \in S : Key(M(y)) = k => y[2] \in J
    OBVIOUS
  <2>4. \E x \in S : Key(M(x)) = k /\ \A y \in S : Key(M(y)) = k => y[2] <= x[2]
    BY <2>2, <2>3
  <2>5. LastOfEach(S)[k] = CHOOSE x \in S : Key(M(x)) = k /\
                             \A y \in S : Key(M(y)) = k => y[2] <= x[2]
    BY <1>2 DEF LastOfEach
  <2>. QED
    BY <2>4, <2>5
<1>3. Range(LastOfEach(S)) \subseteq S
  BY <1>2 DEF Range
<1>. QED
  BY <1>1, <1>2, <1>3

LEMMA OperationsOfFile ==
  ASSUME TypeOK, NEW i \in Bundled
  PROVE  /\ DOMAIN PathsObject(i) = {Key(M(x)) : x \in PathMethods(i)}
         /\ DOMAIN WebhooksObject(i) = {Key(M(x)) : x \in HookMethods(i)}
         /\ Range(PathsObject(i)) \subseteq PathMethods(i)
         /\ Range(WebhooksObject(i)) \subseteq HookMethods(i)
         /\ PathMethods(i) \subseteq AllMethods
         /\ HookMethods(i) \subseteq AllMethods
<1>1. i \in Nat /\ FileAt(i).methods \in Seq(Method)
  BY BundleLength DEF File
<1>2. Len(FileAt(i).methods) \in Nat /\ DOMAIN FileAt(i).methods = 1 .. Len(FileAt(i).methods)
  BY <1>1
<1>3. ASSUME NEW x \in AllMethods, x[1] = i
      PROVE  x \in {i} \X (1 .. Len(FileAt(i).methods))
  <2>1. PICK h \in Bundled : x \in {<<h, j>> : j \in DOMAIN FileAt(h).methods}
    BY DEF AllMethods
  <2>. QED
    BY <2>1, <1>2, <1>3
<1>4. /\ PathMethods(i) \in SUBSET ({i} \X (1 .. Len(FileAt(i).methods)))
      /\ HookMethods(i) \in SUBSET ({i} \X (1 .. Len(FileAt(i).methods)))
  BY <1>3 DEF PathMethods, HookMethods
<1>5. PathMethods(i) \subseteq AllMethods /\ HookMethods(i) \subseteq AllMethods
  BY DEF PathMethods, HookMethods
<1>. QED
  BY <1>1, <1>2, <1>4, <1>5, LastOfEachChooses DEF PathsObject, WebhooksObject

LEMMA TypeOfOperations ==
  ASSUME Base, Works
  PROVE  Operations' \subseteq AllMethods'
<1>1. AllMethods' = AllMethods
  BY KeepsSelection, SameFiles
<1>2. Range(paths) \subseteq AllMethods /\ Range(hooks) \subseteq AllMethods
  BY DEF Base, TypeOK, Operations
<1>3. Range(paths') \subseteq AllMethods
  <2>1. CASE UNCHANGED paths
    BY <2>1, <1>2
  <2>2. CASE MergePaths
    <3>1. bundle[at] \in Bundled
      BY <2>2, BundleLength DEF MergePaths, Base, SelectInv, Bundled, Range
    <3>2. Range(PathsObject(bundle[at])) \subseteq AllMethods
      BY <3>1, OperationsOfFile DEF Base
    <3>. QED
      BY <2>2, <3>2, <1>2 DEF MergePaths, Override, Range
  <2>. QED
    BY <2>1, <2>2, Writers
<1>4. Range(hooks') \subseteq AllMethods
  <2>1. CASE UNCHANGED hooks
    BY <2>1, <1>2
  <2>2. CASE MergeHooks
    <3>1. bundle[at] \in Bundled
      BY <2>2, BundleLength DEF MergeHooks, Base, SelectInv, Bundled, Range
    <3>2. Range(WebhooksObject(bundle[at])) \subseteq AllMethods
      BY <3>1, OperationsOfFile DEF Base
    <3>. QED
      BY <2>2, <3>2, <1>2 DEF MergeHooks, Override, Range
  <2>. QED
    BY <2>1, <2>2, Writers
<1>. QED
  BY <1>1, <1>3, <1>4 DEF Operations

LEMMA TypeOfOutputs ==
  ASSUME Base, Works
  PROVE  /\ emitted' \subseteq {"yaml", "ogen", "converters", "adapter"}
         /\ DOMAIN links' \subseteq Operations'
<1>1. emitted' \subseteq {"yaml", "ogen", "converters", "adapter"}
  BY Writers DEF EmitDocument, Ogen, Adapter, Base, TypeOK
<1>2. UNCHANGED operations => Operations' = Operations
  BY DEF operations, Operations
<1>3. CASE Adapter
  <2>1. DOMAIN links' = Operations /\ UNCHANGED operations
    BY <1>3 DEF Adapter
  <2>. QED
    BY <2>1, <1>1, <1>2
<1>4. CASE UNCHANGED links /\ UNCHANGED operations
  <2>1. DOMAIN links \subseteq Operations /\ links' = links
    BY <1>4 DEF Base, TypeOK
  <2>. QED
    BY <2>1, <1>1, <1>2, <1>4
<1>5. CASE UNCHANGED links /\ (MergePaths \/ MergeHooks)
  <2>1. links = Empty
    BY <1>5 DEF MergePaths, MergeHooks, Base, SelectInv
  <2>2. DOMAIN links' = {}
    BY <2>1, <1>5 DEF Empty
  <2>. QED
    BY <2>2, <1>1
<1>. QED
  BY <1>3, <1>4, <1>5, Writers DEF operations

-----------------------------------------------------------------------------
(* The two documents *)

ObjectOneof == mode = "object" /\ \E i \in Bundled : FileAt(i).oneof

ForOgen == [oneof |-> "none", secured |-> FALSE]
Drafted == [oneof |-> IF ObjectOneof THEN "marker" ELSE "none", secured |-> FALSE]
Expanded == [oneof |-> IF ObjectOneof THEN "expanded" ELSE "none", secured |-> FALSE]
Public == [Expanded EXCEPT !.secured = (req.flags.security = "bearer")]

(* Nothing is written before the phase that writes, and the document and   *)
(* its copy have at each phase what the steps so far gave them.            *)
DocInv ==
  /\ phase \notin {"write", "ogen", "adapter", "finish", "end"} => disk = None
  /\ phase \in {"select", "validate", "report_bundle", "paths", "webhooks", "check"}
       => doc = None /\ copy = None /\ ogenData = None
  /\ phase = "report_document" => doc = Drafted /\ copy = None /\ ogenData = None
  /\ phase \in {"marshal_ogen", "secure"} => doc = Expanded
  /\ phase = "marshal_ogen" => copy = IF ObjectOneof THEN ForOgen ELSE None
  /\ phase \in {"write", "ogen", "adapter", "finish"} => doc = Public
  /\ {doc, copy} \subseteq Contents \cup {None}
  /\ ogenData \in {None, ForOgen}
  /\ disk \in {None, Public}

LEMMA DocumentsAreContents ==
  /\ ForOgen \in Contents /\ Drafted \in Contents /\ Expanded \in Contents
  /\ Public \in Contents
  /\ ForOgen # None /\ Public # None /\ Drafted # None
<1>1. /\ ForOgen \in Contents /\ Drafted \in Contents /\ Expanded \in Contents
      /\ Public \in Contents
  BY DEF ForOgen, Drafted, Expanded, Public, Contents
<1>. QED
  BY <1>1, BundleAssumption

\* The operands of a document keep their meaning once the mode is settled.
LEMMA SameDocument ==
  ASSUME UNCHANGED <<req, selection, mode>>
  PROVE  /\ ObjectOneof' <=> ObjectOneof
         /\ Drafted' = Drafted /\ Expanded' = Expanded /\ Public' = Public
<1>1. ObjectOneof' <=> ObjectOneof
  BY SameFiles DEF ObjectOneof
<1>. QED
  BY <1>1 DEF Drafted, Expanded, Public

LEMMA DocInvStep ==
  ASSUME Base, DocInv, Works
  PROVE  DocInv'
<1>. UNCHANGED <<req, selection>>
  BY KeepsSelection
<1>1. CASE Accept
  <2>1. /\ phase' \in {"report_bundle", "paths", "end"}
        /\ doc' = None /\ copy' = None /\ ogenData' = None /\ disk' = None
    BY <1>1 DEF Accept, BadMode, Validate, ReportBundle, BundleAccepted, Reject, FailAs, Goto,
                documents, outputs, DocInv
  <2>. QED
    BY <2>1 DEF DocInv
<1>2. CASE Merge
  <2>1. /\ phase' \in {"paths", "webhooks", "check", "end"}
        /\ doc' = None /\ copy' = None /\ ogenData' = None /\ disk' = None
    BY <1>2 DEF Merge, DuplicatePath, MergePaths, DuplicateHook, MergeHooks, Reject, FailAs,
                documents, outputs, DocInv
  <2>. QED
    BY <2>1 DEF DocInv
<1>9. Document \/ Generate => UNCHANGED mode
  BY DEF Document, Check, CheckFails, ReportDocument, Finalize, MarshalOgen, BadSecurity, Secure,
         Generate, WriteDisk, DiskFails, EmitDocument, OgenFails, Ogen, ManyPackages, Adapter,
         Finish, settled
<1>10. Document \/ Generate =>
         /\ ObjectOneof' <=> ObjectOneof
         /\ Drafted' = Drafted /\ Expanded' = Expanded /\ Public' = Public
  BY <1>9, SameDocument
<1>3. CASE Check
  <2>1. doc' = Drafted
    BY <1>3 DEF Check, Drafted, ObjectOneof
  <2>2. phase' = "report_document" /\ copy' = None /\ ogenData' = None /\ disk' = None
    BY <1>3 DEF Check, Goto, outputs, DocInv
  <2>. QED
    BY <2>1, <2>2, <1>3, <1>10, DocumentsAreContents DEF DocInv, Document
<1>4. CASE Finalize
  <2>1. phase = "report_document" /\ doc = Drafted /\ copy = None /\ ogenData = None /\ disk = None
    BY <1>4 DEF Finalize, DocInv
  <2>2. doc' = Expanded /\ copy' = IF ObjectOneof THEN ForOgen ELSE None
    BY <1>4, <2>1 DEF Finalize, Drafted, Expanded, ForOgen
  <2>3. phase' = "marshal_ogen" /\ UNCHANGED <<ogenData, disk>>
    BY <1>4 DEF Finalize, Goto, outputs
  <2>. QED
    BY <2>1, <2>2, <2>3, <1>4, <1>10, DocumentsAreContents DEF DocInv, Document
<1>5. CASE MarshalOgen
  <2>1. doc = Expanded /\ copy = (IF ObjectOneof THEN ForOgen ELSE None) /\ disk = None
    BY <1>5 DEF MarshalOgen, DocInv
  <2>2. ogenData' = ForOgen
    BY <1>5, <2>1, DocumentsAreContents DEF MarshalOgen, Expanded, ForOgen
  <2>3. phase' = "secure" /\ UNCHANGED <<doc, copy, disk>>
    BY <1>5 DEF MarshalOgen, Goto, outputs
  <2>. QED
    BY <2>1, <2>2, <2>3, <1>5, <1>10, DocumentsAreContents DEF DocInv, Document
<1>6. CASE Secure
  <2>1. doc = Expanded /\ disk = None
    BY <1>6 DEF Secure, DocInv
  <2>2. doc' = Public
    BY <1>6, <2>1 DEF Secure, Public
  <2>3. phase' = "write" /\ UNCHANGED <<copy, ogenData, disk>>
    BY <1>6 DEF Secure, Goto, outputs
  <2>. QED
    BY <2>1, <2>2, <2>3, <1>6, <1>10, DocumentsAreContents DEF DocInv, Document
<1>7. CASE CheckFails \/ ReportDocument \/ BadSecurity
  <2>1. phase' = "end" /\ UNCHANGED <<doc, copy, ogenData, disk>>
    BY <1>7 DEF CheckFails, ReportDocument, BadSecurity, Reject, FailAs, documents, outputs
  <2>. QED
    BY <2>1, <1>7, <1>10 DEF DocInv, Document
<1>8. CASE Generate
  <2>1. phase \in {"write", "ogen", "adapter", "finish"} /\ phase' \in {"ogen", "adapter", "finish", "end"}
    BY <1>8 DEF Generate, WriteDisk, DiskFails, EmitDocument, OgenFails, Ogen, ManyPackages,
                Adapter, Finish, Reject, FailAs, Goto, AfterWrite
  <2>2. UNCHANGED documents /\ disk' \in {disk, doc}
    BY <1>8 DEF Generate, WriteDisk, DiskFails, EmitDocument, OgenFails, Ogen, ManyPackages,
                Adapter, Finish, outputs
  <2>3. doc = Public
    BY <2>1 DEF DocInv
  <2>. QED
    BY <2>1, <2>2, <2>3, <1>8, <1>10 DEF DocInv, documents
<1>. QED
  BY <1>1, <1>2, <1>3, <1>4, <1>5, <1>6, <1>7, <1>8 DEF Works, Document

\* The type invariant and the selection, after the selection.
LEMMA BaseStep ==
  ASSUME Base, DocInv, Works
  PROVE  Base'
<1>1. /\ UNCHANGED <<req, selection>> /\ phase # "select" /\ phase' # "select"
      /\ Bundled' = Bundled /\ IncludedFiles' = IncludedFiles /\ Carriers' = Carriers
  BY KeepsSelection, SameFiles
<1>2. /\ phase' \in Phases /\ at' \in 1 .. Len(req.files) + 1
      /\ result' \in {"running", "ok", "rejected", "broken"}
  BY TypeOfControl
<1>3. {doc', copy', ogenData', disk'} \subseteq Contents \cup {None}
  <2>1. Public' \in Contents
    BY DEF Public, Expanded, Contents
  <2>. QED
    BY <2>1, DocInvStep, DocumentsAreContents DEF DocInv
<1>4. TypeOK'
  <2>1. RequestOK(req') /\ at' \in 1 .. Len(req'.files) + 1 /\ bundle' \in Seq(1 .. Len(req'.files))
    BY <1>1, <1>2 DEF Base, TypeOK, selection
  <2>2. root' \in Bundled' \/ (root' = 0 /\ bundle' = <<>>)
    BY <1>1 DEF Base, TypeOK, selection
  <2>3. errs' \subseteq Kinds
    BY TypeOfErrs
  <2>4. mode' \in {None, "one_of", "object"} /\ version' \in {None, "3.0", "3.1"}
    BY TypeOfSettled
  <2>5. Operations' \subseteq AllMethods'
    BY TypeOfOperations
  <2>6. /\ emitted' \subseteq {"yaml", "ogen", "converters", "adapter"}
        /\ DOMAIN links' \subseteq Operations'
    BY TypeOfOutputs
  <2>. QED
    BY <1>2, <1>3, <2>1, <2>2, <2>3, <2>4, <2>5, <2>6 DEF TypeOK, Phases, Kinds
<1>5. phase' # "end" => bundle' # <<>>
  <2>1. phase # "end"
    BY DEF Works, Accept, BadMode, Validate, ReportBundle, BundleAccepted, Merge, DuplicatePath,
           MergePaths, DuplicateHook, MergeHooks, Document, Check, CheckFails, ReportDocument,
           Finalize, MarshalOgen, BadSecurity, Secure, Generate, WriteDisk, DiskFails,
           EmitDocument, OgenFails, Ogen, ManyPackages, Adapter, Finish
  <2>. QED
    BY <2>1, <1>1 DEF Base, SelectInv, selection
<1>6. phase' \in {"paths", "webhooks"} => at' <= Len(bundle')
  <2>1. CASE Accept
    <3>1. phase' = "paths" => at' = 1 /\ bundle # <<>>
      BY <2>1 DEF Accept, BadMode, Validate, ReportBundle, BundleAccepted, Reject, FailAs, Goto,
                  Base, SelectInv
    <3>2. phase' # "webhooks"
      BY <2>1 DEF Accept, BadMode, Validate, ReportBundle, BundleAccepted, Reject, FailAs, Goto
    <3>3. bundle # <<>> => 1 <= Len(bundle)
      BY BundleLength DEF Base, TypeOK
    <3>. QED
      BY <1>1, <3>1, <3>2, <3>3 DEF selection
  <2>2. CASE MergePaths
    BY <2>2, <1>1 DEF MergePaths, Base, SelectInv, selection
  <2>3. CASE MergeHooks
    BY <2>3, <1>1, BundleLength DEF MergeHooks, Base, SelectInv, selection
  <2>4. CASE DuplicatePath \/ DuplicateHook \/ Document \/ Generate
    BY <2>4 DEF DuplicatePath, DuplicateHook, Reject, FailAs, Document, Check, CheckFails,
                ReportDocument, Finalize, MarshalOgen, BadSecurity, Secure, Goto, Generate,
                WriteDisk, DiskFails, EmitDocument, OgenFails, Ogen, ManyPackages, Adapter,
                Finish, AfterWrite
  <2>. QED
    BY <2>1, <2>2, <2>3, <2>4 DEF Works, Merge
<1>7. phase' \in {"validate", "report_bundle"} => paths' = Empty /\ hooks' = Empty
  BY DEF Works, Accept, BadMode, Validate, ReportBundle, BundleAccepted, Merge, DuplicatePath,
         MergePaths, DuplicateHook, MergeHooks, Document, Check, CheckFails, ReportDocument,
         Finalize, MarshalOgen, BadSecurity, Secure, Generate, WriteDisk, DiskFails,
         EmitDocument, OgenFails, Ogen, ManyPackages, Adapter, Finish, Reject, FailAs, Goto,
         AfterWrite, operations, Base, SelectInv
<1>8. phase' \notin {"finish", "end"} => links' = Empty
  <2>1. CASE Adapter
    BY <2>1 DEF Adapter, Goto
  <2>2. CASE UNCHANGED links
    <3>1. phase' \notin {"finish", "end"} => phase \notin {"finish", "end"}
      BY DEF Works, Accept, BadMode, Validate, ReportBundle, BundleAccepted, Merge,
             DuplicatePath, MergePaths, DuplicateHook, MergeHooks, Document, Check, CheckFails,
             ReportDocument, Finalize, MarshalOgen, BadSecurity, Secure, Generate, WriteDisk,
             DiskFails, EmitDocument, OgenFails, Ogen, ManyPackages, Adapter, Finish
    <3>. QED
      BY <2>2, <3>1 DEF Base, SelectInv
  <2>. QED
    BY <2>1, <2>2, Writers
<1>9. SelectInv'
  BY <1>1, <1>5, <1>6, <1>7, <1>8 DEF Base, SelectInv, selection
<1>. QED
  BY <1>4, <1>9 DEF Base

-----------------------------------------------------------------------------
(* Errors gathered and operations merged *)

(* m holds the entries of the first n objects of F, whose names do not     *)
(* meet.                                                                   *)
Merged(m, F, n) ==
  /\ DOMAIN m = UNION {DOMAIN F[k] : k \in 1 .. n}
  /\ Range(m) = UNION {Range(F[k]) : k \in 1 .. n}
  /\ \A k, l \in 1 .. n : k # l => DOMAIN F[k] \cap DOMAIN F[l] = {}

LEMMA MergedNone ==
  ASSUME NEW F, NEW n \in Int, n <= 0
  PROVE  Merged(Empty, F, n)
<1>1. 1 .. n = {}
  OBVIOUS
<1>2. DOMAIN Empty = {} /\ Range(Empty) = {}
  BY DEF Empty, Range
<1>. QED
  BY <1>1, <1>2 DEF Merged

LEMMA MergedOneMore ==
  ASSUME NEW F, NEW n \in Nat, NEW m, Merged(m, F, n), DOMAIN F[n + 1] \cap DOMAIN m = {}
  PROVE  Merged(Override(F[n + 1], m), F, n + 1)
<1> DEFINE o == Override(F[n + 1], m)
<1>1. \A k \in 1 .. n + 1 : k \in 1 .. n \/ k = n + 1
  OBVIOUS
<1>2. 1 .. n \subseteq 1 .. n + 1 /\ n + 1 \in 1 .. n + 1
  OBVIOUS
<1>3. DOMAIN o = DOMAIN F[n + 1] \cup DOMAIN m
  BY DEF Override
<1>4. \A k \in DOMAIN F[n + 1] : o[k] = F[n + 1][k]
  BY DEF Override
<1>5. \A k \in DOMAIN m : o[k] = m[k]
  BY DEF Override
<1>6. Range(o) = Range(F[n + 1]) \cup Range(m)
  BY <1>3, <1>4, <1>5 DEF Range
<1>7. DOMAIN o = UNION {DOMAIN F[k] : k \in 1 .. n + 1}
  <2>1. DOMAIN o = DOMAIN F[n + 1] \cup (UNION {DOMAIN F[k] : k \in 1 .. n})
    BY <1>3 DEF Merged
  <2>2. DOMAIN o \subseteq UNION {DOMAIN F[k] : k \in 1 .. n + 1}
    BY <2>1, <1>2
  <2>3. UNION {DOMAIN F[k] : k \in 1 .. n + 1} \subseteq DOMAIN o
    BY <2>1, <1>1
  <2>. QED
    BY <2>2, <2>3
<1>8. Range(o) = UNION {Range(F[k]) : k \in 1 .. n + 1}
  <2>1. Range(o) = Range(F[n + 1]) \cup (UNION {Range(F[k]) : k \in 1 .. n})
    BY <1>6 DEF Merged
  <2>2. Range(o) \subseteq UNION {Range(F[k]) : k \in 1 .. n + 1}
    BY <2>1, <1>2
  <2>3. UNION {Range(F[k]) : k \in 1 .. n + 1} \subseteq Range(o)
    BY <2>1, <1>1
  <2>. QED
    BY <2>2, <2>3
<1>9. \A k \in 1 .. n : DOMAIN F[k] \cap DOMAIN F[n + 1] = {}
  BY DEF Merged
<1>10. \A k, l \in 1 .. n + 1 : k # l => DOMAIN F[k] \cap DOMAIN F[l] = {}
  <2>1. SUFFICES ASSUME NEW k \in 1 .. n + 1, NEW l \in 1 .. n + 1, k # l
                 PROVE  DOMAIN F[k] \cap DOMAIN F[l] = {}
    OBVIOUS
  <2>2. CASE k \in 1 .. n /\ l \in 1 .. n
    BY <2>1, <2>2 DEF Merged
  <2>3. CASE k = n + 1 /\ l \in 1 .. n
    BY <2>3, <1>9
  <2>4. CASE k \in 1 .. n /\ l = n + 1
    BY <2>4, <1>9
  <2>. QED
    BY <2>1, <2>2, <2>3, <2>4, <1>1
<1>. QED
  BY <1>7, <1>8, <1>10 DEF Merged

PathObjects == [k \in 1 .. Len(bundle) |-> PathsObject(bundle[k])]
HookObjects == [k \in 1 .. Len(bundle) |-> WebhooksObject(bundle[k])]

(* How many files of the bundle have their paths, and their webhooks, in   *)
(* the document.                                                           *)
PathsUpTo ==
  IF phase = "paths" THEN at - 1 ELSE IF phase = "webhooks" THEN at ELSE Len(bundle)
HooksUpTo == IF phase \in {"paths", "webhooks"} THEN at - 1 ELSE Len(bundle)

Assembling ==
  {"paths", "webhooks", "check", "report_document", "marshal_ogen", "secure", "write", "ogen",
   "adapter", "finish"}

MergeInv ==
  phase \in Assembling =>
    /\ Merged(paths, PathObjects, PathsUpTo)
    /\ Merged(hooks, HookObjects, HooksUpTo)
    /\ errs = {} =>
         /\ \A k \in 1 .. PathsUpTo : IdempotencyErrors(PathMethods(bundle[k])) = {}
         /\ \A k \in 1 .. HooksUpTo :
              /\ IdempotencyErrors(HookMethods(bundle[k])) = {}
              /\ ParameterErrors(HookMethods(bundle[k])) = {}

LEMMA SameAssembly ==
  ASSUME UNCHANGED <<req, selection>>
  PROVE  PathObjects' = PathObjects /\ HookObjects' = HookObjects
  BY SameObjects DEF PathObjects, HookObjects, selection

\* The steps of a merge, and those that leave what is merged alone.
LEMMA MergeSteps ==
  ASSUME Base, Works, phase' \in Assembling
  PROVE  \/ BundleAccepted \/ MergePaths \/ MergeHooks
         \/ /\ phase \in Assembling \ {"paths", "webhooks"}
            /\ phase' \in Assembling \ {"paths", "webhooks"}
            /\ UNCHANGED operations /\ (errs' = {} => errs = {})
<1>1. CASE Accept
  BY <1>1 DEF Accept, BadMode, Validate, ReportBundle, Reject, FailAs, Goto, Assembling
<1>2. CASE Merge
  BY <1>2 DEF Merge, DuplicatePath, DuplicateHook, Reject, FailAs, Assembling
<1>3. CASE Document
  BY <1>3 DEF Document, Check, CheckFails, ReportDocument, Finalize, MarshalOgen, BadSecurity,
              Secure, Reject, FailAs, Goto, Assembling
<1>4. CASE Generate
  BY <1>4 DEF Generate, WriteDisk, DiskFails, EmitDocument, OgenFails, Ogen, ManyPackages,
              Adapter, Finish, Reject, FailAs, Goto, AfterWrite, Assembling
<1>. QED
  BY <1>1, <1>2, <1>3, <1>4 DEF Works

LEMMA MergeInvStep ==
  ASSUME Base, MergeInv, Works
  PROVE  MergeInv'
<1>1. UNCHANGED <<req, selection>>
  BY KeepsSelection
<1>2. PathObjects' = PathObjects /\ HookObjects' = HookObjects /\ bundle' = bundle
  BY <1>1, SameAssembly DEF selection
<1>3. /\ \A i : PathMethods(i)' = PathMethods(i) /\ HookMethods(i)' = HookMethods(i)
      /\ \A S : IdempotencyErrors(S)' = IdempotencyErrors(S)
      /\ \A S : ParameterErrors(S)' = ParameterErrors(S)
  BY <1>1, SameMethods, SameObjects
<1>4. at \in Nat \ {0} /\ Len(bundle) \in Nat
  BY BundleLength DEF Base
<1>5. SUFFICES ASSUME phase' \in Assembling
      PROVE  /\ Merged(paths', PathObjects, PathsUpTo')
             /\ Merged(hooks', HookObjects, HooksUpTo')
             /\ errs' = {} =>
                  /\ \A k \in 1 .. PathsUpTo' : IdempotencyErrors(PathMethods(bundle[k])) = {}
                  /\ \A k \in 1 .. HooksUpTo' :
                       /\ IdempotencyErrors(HookMethods(bundle[k])) = {}
                       /\ ParameterErrors(HookMethods(bundle[k])) = {}
  BY <1>2, <1>3 DEF MergeInv
<1>6. CASE BundleAccepted
  <2>1. paths' = Empty /\ hooks' = Empty
    BY <1>6 DEF BundleAccepted, Base, SelectInv, operations
  <2>2. PathsUpTo' = 0 /\ HooksUpTo' = 0
    BY <1>6 DEF BundleAccepted, Goto, PathsUpTo, HooksUpTo
  <2>. QED
    BY <2>1, <2>2, MergedNone
<1>7. CASE MergePaths
  <2>1. /\ phase = "paths" /\ phase' = "webhooks" /\ at' = at /\ at <= Len(bundle)
        /\ paths' = Override(PathsObject(bundle[at]), paths) /\ hooks' = hooks
        /\ DOMAIN PathsObject(bundle[at]) \cap DOMAIN paths = {}
        /\ errs' = errs \cup IdempotencyErrors(PathMethods(bundle[at]))
    BY <1>7 DEF MergePaths, Base, SelectInv
  <2>2. PathsUpTo = at - 1 /\ PathsUpTo' = at /\ HooksUpTo = at - 1 /\ HooksUpTo' = at - 1
    BY <2>1, <1>4 DEF PathsUpTo, HooksUpTo
  <2>3. PathObjects[at] = PathsObject(bundle[at]) /\ at - 1 \in Nat /\ (at - 1) + 1 = at
    BY <2>1, <1>4 DEF PathObjects
  <2>4. Merged(paths, PathObjects, at - 1) /\ Merged(hooks, HookObjects, at - 1)
    BY <2>1, <2>2 DEF MergeInv, Assembling
  <2>5. Merged(paths', PathObjects, at)
    BY <2>1, <2>3, <2>4, MergedOneMore
  <2>6. errs' = {} => \A k \in 1 .. at : IdempotencyErrors(PathMethods(bundle[k])) = {}
    <3>1. \A k \in 1 .. at : k \in 1 .. at - 1 \/ k = at
      BY <1>4
    <3>. QED
      BY <2>1, <2>2, <3>1 DEF MergeInv, Assembling
  <2>7. errs' = {} => errs = {}
    BY <2>1
  <2>. QED
    BY <2>1, <2>2, <2>4, <2>5, <2>6, <2>7 DEF MergeInv, Assembling
<1>8. CASE MergeHooks
  <2>1. /\ phase = "webhooks" /\ phase' = (IF at < Len(bundle) THEN "paths" ELSE "check")
        /\ at' = at + 1 /\ at <= Len(bundle)
        /\ hooks' = Override(WebhooksObject(bundle[at]), hooks) /\ paths' = paths
        /\ DOMAIN WebhooksObject(bundle[at]) \cap DOMAIN hooks = {}
        /\ errs' = errs \cup IdempotencyErrors(HookMethods(bundle[at]))
                        \cup ParameterErrors(HookMethods(bundle[at]))
    BY <1>8 DEF MergeHooks, Base, SelectInv
  <2>2. PathsUpTo = at /\ HooksUpTo = at - 1
    BY <2>1, <1>4 DEF PathsUpTo, HooksUpTo
  <2>3. PathsUpTo' = at /\ HooksUpTo' = at
    BY <2>1, <1>2, <1>4 DEF PathsUpTo, HooksUpTo
  <2>4. HookObjects[at] = WebhooksObject(bundle[at]) /\ at - 1 \in Nat /\ (at - 1) + 1 = at
    BY <2>1, <1>4 DEF HookObjects
  <2>5. Merged(paths, PathObjects, at) /\ Merged(hooks, HookObjects, at - 1)
    BY <2>1, <2>2 DEF MergeInv, Assembling
  <2>6. Merged(hooks', HookObjects, at)
    BY <2>1, <2>4, <2>5, MergedOneMore
  <2>7. errs' = {} => \A k \in 1 .. at : /\ IdempotencyErrors(HookMethods(bundle[k])) = {}
                                         /\ ParameterErrors(HookMethods(bundle[k])) = {}
    <3>1. \A k \in 1 .. at : k \in 1 .. at - 1 \/ k = at
      BY <1>4
    <3>. QED
      BY <2>1, <2>2, <3>1 DEF MergeInv, Assembling
  <2>8. errs' = {} => errs = {}
    BY <2>1
  <2>. QED
    BY <2>1, <2>2, <2>3, <2>5, <2>6, <2>7, <2>8 DEF MergeInv, Assembling
<1>9. CASE /\ phase \in Assembling \ {"paths", "webhooks"}
           /\ phase' \in Assembling \ {"paths", "webhooks"}
           /\ UNCHANGED operations /\ (errs' = {} => errs = {})
  <2>1. PathsUpTo' = PathsUpTo /\ HooksUpTo' = HooksUpTo
    BY <1>2, <1>9 DEF PathsUpTo, HooksUpTo
  <2>. QED
    BY <2>1, <1>9 DEF MergeInv, operations
<1>. QED
  BY <1>5, <1>6, <1>7, <1>8, <1>9, MergeSteps

-----------------------------------------------------------------------------
(* The errors say what the request lacks *)

LEMMA DocLevelErrorsTell ==
  ASSUME Base, phase # "select"
  PROVE  DocLevelErrors = {} <=> \A c, d \in Carriers : c = d
<1>1. Bundled = IncludedFiles /\ (Carriers # {} => root \in Carriers)
  BY DEF Base, SelectInv, Carriers
<1>2. DocLevelErrors = {} <=> ~ \E i \in Bundled \ {root} : HasDocLevelOptions(FileAt(i))
  BY DEF DocLevelErrors, ErrorIf
<1>3. (\E i \in Bundled \ {root} : HasDocLevelOptions(FileAt(i))) <=> Carriers \ {root} # {}
  BY <1>1 DEF Carriers
<1>. QED
  BY <1>1, <1>2, <1>3

LEMMA StreamingErrorsTell ==
  ASSUME Base, phase # "select"
  PROVE  StreamingErrors = {} <=>
           \A i \in IncludedFiles :
             \A m \in Range(FileAt(i).methods) : Exposed(m) => ~m.clientStream
<1>1. Bundled = IncludedFiles
  BY DEF Base, SelectInv
<1>2. StreamingErrors = {} <=> ~ \E x \in AllMethods : Exposed(M(x)) /\ M(x).clientStream
  BY DEF StreamingErrors, ErrorIf
<1>3. \A x \in AllMethods : \E i \in IncludedFiles : M(x) \in Range(FileAt(i).methods)
  <2>1. SUFFICES ASSUME NEW x \in AllMethods
                 PROVE  \E i \in IncludedFiles : M(x) \in Range(FileAt(i).methods)
    OBVIOUS
  <2>2. PICK i \in Bundled : \E j \in DOMAIN FileAt(i).methods : x = <<i, j>>
    BY <2>1 DEF AllMethods
  <2>. QED
    BY <2>2, <1>1 DEF M, Range
<1>4. ASSUME NEW i \in IncludedFiles, NEW m \in Range(FileAt(i).methods)
      PROVE  \E x \in AllMethods : M(x) = m
  <2>1. PICK j \in DOMAIN FileAt(i).methods : m = FileAt(i).methods[j]
    BY <1>4 DEF Range
  <2>2. <<i, j>> \in AllMethods /\ M(<<i, j>>) = m
    BY <2>1, <1>1 DEF AllMethods, M
  <2>. QED
    BY <2>2
<1>. QED
  BY <1>2, <1>3, <1>4

LEMMA MethodErrorsTell ==
  ASSUME NEW S
  PROVE  /\ IdempotencyErrors(S) = {} <=>
              \A x \in S : M(x).noSideEffects => M(x).verb = "get"
         /\ ParameterErrors(S) = {} <=> \A x \in S : ~M(x).pathParam
  BY DEF IdempotencyErrors, ParameterErrors, ErrorIf

(* Whatever error is gathered is the request's; none gathered means that   *)
(* what was looked at so far is in order.                                  *)
ErrsInv ==
  /\ errs # {} => ~ValidDocument
  /\ phase \in {"select", "validate"} => errs = {}
  /\ phase \in Assembling \cup {"report_bundle"} => req.flags.mode # "bad"
  /\ phase \in Assembling \cup {"report_bundle"} /\ errs = {}
       => DocLevelErrors = {} /\ StreamingErrors = {}
  /\ phase \in Assembling \ {"paths", "webhooks", "check"} /\ errs = {}
       => \A i \in Bundled : ~FileAt(i).badOneof

LEMMA NewErrors ==
  ASSUME Base, Works, errs' # errs, errs' # {}
  PROVE  errs # {} \/ ~ValidDocument
<1>1. CASE Validate
  <2>1. errs' = DocLevelErrors \cup StreamingErrors /\ phase # "select"
    BY <1>1 DEF Validate
  <2>. QED
    BY <2>1, DocLevelErrorsTell, StreamingErrorsTell DEF ValidDocument
<1>2. CASE MergePaths
  <2>1. bundle[at] \in IncludedFiles
    BY <1>2, BundleLength DEF MergePaths, Base, SelectInv, Bundled, Range
  <2>2. errs # {} \/ IdempotencyErrors(PathMethods(bundle[at])) # {}
    BY <1>2, <2>1 DEF MergePaths
  <2>3. IdempotencyErrors(PathMethods(bundle[at])) # {} => ~ValidDocument
    BY <2>1, MethodErrorsTell DEF ValidDocument, HttpMethods
  <2>. QED
    BY <2>2, <2>3
<1>3. CASE MergeHooks
  <2>1. bundle[at] \in IncludedFiles
    BY <1>3, BundleLength DEF MergeHooks, Base, SelectInv, Bundled, Range
  <2>2. \/ errs # {} \/ IdempotencyErrors(HookMethods(bundle[at])) # {}
        \/ ParameterErrors(HookMethods(bundle[at])) # {}
    BY <1>3 DEF MergeHooks
  <2>3. IdempotencyErrors(HookMethods(bundle[at])) # {} => ~ValidDocument
    BY <2>1, MethodErrorsTell DEF ValidDocument, HttpMethods
  <2>4. ParameterErrors(HookMethods(bundle[at])) # {} => ~ValidDocument
    BY <2>1, MethodErrorsTell DEF ValidDocument
  <2>. QED
    BY <2>2, <2>3, <2>4
<1>4. CASE Check
  <2>1. errs # {} \/ \E i \in Bundled : FileAt(i).badOneof
    BY <1>4 DEF Check, ErrorIf
  <2>2. Bundled = IncludedFiles
    BY <1>4 DEF Check, Base, SelectInv
  <2>. QED
    BY <2>1, <2>2 DEF ValidDocument
<1>. QED
  BY <1>1, <1>2, <1>3, <1>4, Writers

LEMMA ErrsInvStep ==
  ASSUME Base, ErrsInv, Works
  PROVE  ErrsInv'
<1>1. /\ UNCHANGED <<req, selection>> /\ Bundled' = Bundled
      /\ (ValidDocument' <=> ValidDocument)
      /\ DocLevelErrors' = DocLevelErrors /\ StreamingErrors' = StreamingErrors
      /\ \A i : FileAt(i)' = FileAt(i)
  BY KeepsSelection, SameFiles, SameValid
<1>2. errs' # {} => ~ValidDocument
  BY NewErrors DEF ErrsInv
<1>3. phase' \notin {"select", "validate"}
  BY DEF Works, Accept, BadMode, Validate, ReportBundle, BundleAccepted, Merge, DuplicatePath,
         MergePaths, DuplicateHook, MergeHooks, Document, Check, CheckFails, ReportDocument,
         Finalize, MarshalOgen, BadSecurity, Secure, Generate, WriteDisk, DiskFails,
         EmitDocument, OgenFails, Ogen, ManyPackages, Adapter, Finish, Reject, FailAs, Goto,
         AfterWrite
<1>4. CASE phase' \notin Assembling \cup {"report_bundle"}
  BY <1>1, <1>2, <1>3, <1>4 DEF ErrsInv
<1>5. CASE Validate
  <2>1. /\ req.flags.mode # "bad" /\ phase' = "report_bundle"
        /\ errs' = DocLevelErrors \cup StreamingErrors
    BY <1>5 DEF Validate, Goto
  <2>2. phase' \notin Assembling
    BY <2>1 DEF Assembling
  <2>3. errs' = {} => DocLevelErrors = {} /\ StreamingErrors = {}
    BY <2>1
  <2>. QED
    BY <1>1, <1>2, <1>3, <2>1, <2>2, <2>3 DEF ErrsInv
<1>6. CASE BundleAccepted
  <2>1. phase = "report_bundle" /\ phase' = "paths" /\ errs' = errs
    BY <1>6 DEF BundleAccepted, Goto
  <2>. QED
    BY <1>1, <1>2, <1>3, <2>1 DEF ErrsInv, Assembling
<1>7. CASE MergePaths \/ MergeHooks
  <2>1. /\ phase \in {"paths", "webhooks"} /\ phase' \in {"paths", "webhooks", "check"}
        /\ errs' = {} => errs = {}
    BY <1>7 DEF MergePaths, MergeHooks
  <2>. QED
    BY <1>1, <1>2, <1>3, <2>1 DEF ErrsInv, Assembling
<1>8. CASE Check
  <2>1. /\ phase = "check" /\ phase' = "report_document"
        /\ errs' = {} => errs = {} /\ \A i \in Bundled : ~FileAt(i).badOneof
    BY <1>8 DEF Check, Goto, ErrorIf
  <2>. QED
    BY <1>1, <1>2, <1>3, <2>1 DEF ErrsInv, Assembling
<1>9. CASE /\ phase' \in Assembling \cup {"report_bundle"}
           /\ ~(Validate \/ BundleAccepted \/ MergePaths \/ MergeHooks \/ Check)
  <2>1. phase \in Assembling \ {"paths", "webhooks", "check"} /\ phase' # "report_bundle"
    BY <1>9 DEF Assembling,
           Works, Accept, BadMode, ReportBundle, Merge, DuplicatePath,
           DuplicateHook, Document, CheckFails, ReportDocument,
           Finalize, MarshalOgen, BadSecurity, Secure, Generate, WriteDisk, DiskFails,
           EmitDocument, OgenFails, Ogen, ManyPackages, Adapter, Finish, Reject, FailAs, Goto,
           AfterWrite
  <2>2. errs' = errs
    BY <1>9, Writers
  <2>. QED
    BY <1>1, <1>2, <1>3, <2>1, <2>2 DEF ErrsInv
<1>. QED
  BY <1>4, <1>5, <1>6, <1>7, <1>8, <1>9

-----------------------------------------------------------------------------
(* A document that is written is valid, and no valid one is rejected *)

CheckedInv ==
  /\ phase \in Assembling \ {"paths", "webhooks", "check"} => ~HooksNeed31 /\ ~DuplicateIds
  /\ phase \in Assembling \ {"paths", "webhooks", "check", "report_document"} => errs = {}
  /\ phase \in {"write", "ogen", "adapter", "finish"} => req.flags.security # "bad"

LEMMA CheckedInvStep ==
  ASSUME Base, CheckedInv, Works
  PROVE  CheckedInv'
<1>1. UNCHANGED <<req, selection>> /\ Root' = Root
  BY KeepsSelection, SameFiles
<1>2. UNCHANGED operations => (HooksNeed31' <=> HooksNeed31) /\ (DuplicateIds' <=> DuplicateIds)
  <2>1. \A x : M(x)' = M(x)
    BY <1>1, SameFiles
  <2>. QED
    BY <1>1, <2>1 DEF operations, HooksNeed31, DuplicateIds, Operations
<1>3. CASE Accept \/ Merge
  <2>1. phase' \notin Assembling \ {"paths", "webhooks", "check"}
    BY <1>3 DEF Accept, BadMode, Validate, ReportBundle, BundleAccepted, Merge, DuplicatePath,
                MergePaths, DuplicateHook, MergeHooks, Reject, FailAs, Goto, Assembling
  <2>. QED
    BY <2>1 DEF CheckedInv, Assembling
<1>4. CASE Check
  <2>1. phase' = "report_document" /\ ~HooksNeed31 /\ ~DuplicateIds /\ UNCHANGED operations
    BY <1>4 DEF Check, Goto
  <2>. QED
    BY <1>2, <2>1 DEF CheckedInv, Assembling
<1>5. CASE Finalize \/ MarshalOgen
  <2>1. /\ phase \in {"report_document", "marshal_ogen"} /\ phase' \in {"marshal_ogen", "secure"}
        /\ UNCHANGED <<operations, errs>> /\ (phase = "report_document" => errs = {})
    BY <1>5 DEF Finalize, MarshalOgen, Goto
  <2>. QED
    BY <1>2, <2>1 DEF CheckedInv, Assembling
<1>6. CASE Secure
  <2>1. /\ phase = "secure" /\ phase' = "write" /\ req.flags.security # "bad"
        /\ UNCHANGED <<operations, errs, req>>
    BY <1>6 DEF Secure, Goto
  <2>. QED
    BY <1>2, <2>1 DEF CheckedInv, Assembling
<1>7. CASE CheckFails \/ ReportDocument \/ BadSecurity
  <2>1. phase' = "end"
    BY <1>7 DEF CheckFails, ReportDocument, BadSecurity, Reject, FailAs
  <2>. QED
    BY <2>1 DEF CheckedInv, Assembling
<1>8. CASE Generate
  <2>1. /\ phase \in {"write", "ogen", "adapter", "finish"}
        /\ phase' \in {"ogen", "adapter", "finish", "end"}
        /\ UNCHANGED <<operations, errs>>
    BY <1>8 DEF Generate, WriteDisk, DiskFails, EmitDocument, OgenFails, Ogen, ManyPackages,
                Adapter, Finish, Reject, FailAs, Goto, AfterWrite
  <2>. QED
    BY <1>1, <1>2, <2>1 DEF CheckedInv, Assembling
<1>. QED
  BY <1>3, <1>4, <1>5, <1>6, <1>7, <1>8 DEF Works, Document

\* Every file of the bundle has its place in it.
LEMMA PlacesInBundle ==
  ASSUME Base, phase # "select"
  PROVE  /\ IncludedFiles = {bundle[k] : k \in 1 .. Len(bundle)}
         /\ \A k, l \in 1 .. Len(bundle) : k # l => bundle[k] # bundle[l]
  BY BundleLength DEF Base, SelectInv, Bundled, Range

\* Once all files are merged, the document has the operations of each.
LEMMA AllMerged ==
  ASSUME Base, MergeInv, phase \in Assembling \ {"paths", "webhooks"}
  PROVE  /\ Operations = Kept
         /\ DOMAIN hooks = UNION {DOMAIN WebhooksObject(i) : i \in IncludedFiles}
<1>1. phase # "select" /\ PathsUpTo = Len(bundle) /\ HooksUpTo = Len(bundle)
  BY DEF PathsUpTo, HooksUpTo, Assembling
<1>2. IncludedFiles = {bundle[k] : k \in 1 .. Len(bundle)}
  BY <1>1, PlacesInBundle
<1>3. Merged(paths, PathObjects, Len(bundle)) /\ Merged(hooks, HookObjects, Len(bundle))
  BY <1>1 DEF MergeInv
<1>4. /\ \A k \in 1 .. Len(bundle) : PathObjects[k] = PathsObject(bundle[k])
      /\ \A k \in 1 .. Len(bundle) : HookObjects[k] = WebhooksObject(bundle[k])
  BY DEF PathObjects, HookObjects
<1>5. Range(paths) = UNION {Range(PathsObject(i)) : i \in IncludedFiles}
  BY <1>2, <1>3, <1>4 DEF Merged
<1>6. Range(hooks) = UNION {Range(WebhooksObject(i)) : i \in IncludedFiles}
  BY <1>2, <1>3, <1>4 DEF Merged
<1>7. DOMAIN hooks = UNION {DOMAIN WebhooksObject(i) : i \in IncludedFiles}
  BY <1>2, <1>3, <1>4 DEF Merged
<1>8. Operations = Kept
  BY <1>5, <1>6 DEF Operations, Kept
<1>. QED
  BY <1>7, <1>8

\* A method is the operation of a path or of a webhook, never of both.
LEMMA PathOrHook ==
  ASSUME NEW i
  PROVE  /\ \A x \in PathMethods(i) : ~IsHook(M(x))
         /\ \A x \in HookMethods(i) : IsHook(M(x))
  BY DEF PathMethods, HookMethods, IsPath, IsHook

\* Names that do not meet within the merged objects do not meet in the request.
LEMMA NamesApart ==
  ASSUME Base, MergeInv, phase \in Assembling \ {"paths", "webhooks"},
         NEW i \in IncludedFiles, NEW j \in IncludedFiles, i # j,
         NEW x \in HttpMethods(i), NEW y \in HttpMethods(j), IsHook(M(x)) = IsHook(M(y))
  PROVE  Key(M(x)) # Key(M(y))
<1>1. phase # "select" /\ PathsUpTo = Len(bundle) /\ HooksUpTo = Len(bundle)
  BY DEF PathsUpTo, HooksUpTo, Assembling
<1>2. PICK k \in 1 .. Len(bundle), l \in 1 .. Len(bundle) : i = bundle[k] /\ j = bundle[l]
  BY <1>1, PlacesInBundle
<1>3. Merged(paths, PathObjects, Len(bundle)) /\ Merged(hooks, HookObjects, Len(bundle))
  BY <1>1 DEF MergeInv
<1>4. /\ PathObjects[k] = PathsObject(i) /\ PathObjects[l] = PathsObject(j)
      /\ HookObjects[k] = WebhooksObject(i) /\ HookObjects[l] = WebhooksObject(j)
  BY <1>2 DEF PathObjects, HookObjects
<1>5. /\ DOMAIN PathsObject(i) \cap DOMAIN PathsObject(j) = {}
      /\ DOMAIN WebhooksObject(i) \cap DOMAIN WebhooksObject(j) = {}
  BY <1>2, <1>3, <1>4 DEF Merged
<1>6. i \in Bundled /\ j \in Bundled
  BY <1>1 DEF Base, SelectInv
<1>7. /\ DOMAIN PathsObject(i) = {Key(M(z)) : z \in PathMethods(i)}
      /\ DOMAIN WebhooksObject(i) = {Key(M(z)) : z \in HookMethods(i)}
      /\ DOMAIN PathsObject(j) = {Key(M(z)) : z \in PathMethods(j)}
      /\ DOMAIN WebhooksObject(j) = {Key(M(z)) : z \in HookMethods(j)}
  BY <1>6, OperationsOfFile DEF Base
<1>8. CASE IsHook(M(x))
  <2>1. x \in HookMethods(i) /\ y \in HookMethods(j)
    BY <1>8, PathOrHook DEF HttpMethods
  <2>. QED
    BY <2>1, <1>5, <1>7
<1>9. CASE ~IsHook(M(x))
  <2>1. x \in PathMethods(i) /\ y \in PathMethods(j)
    BY <1>9, PathOrHook DEF HttpMethods
  <2>. QED
    BY <2>1, <1>5, <1>7
<1>. QED
  BY <1>8, <1>9

LEMMA WrittenIsValid ==
  ASSUME Base, MergeInv, ErrsInv, CheckedInv, phase \in {"write", "ogen", "adapter", "finish"}
  PROVE  ValidDocument
<1>1. /\ phase \in Assembling \ {"paths", "webhooks", "check", "report_document"}
      /\ phase # "select" /\ errs = {}
      /\ PathsUpTo = Len(bundle) /\ HooksUpTo = Len(bundle)
  BY DEF CheckedInv, PathsUpTo, HooksUpTo, Assembling
<1>2. req.flags.mode # "bad" /\ req.flags.security # "bad"
  BY <1>1 DEF ErrsInv, CheckedInv
<1>3. \A c, d \in Carriers : c = d
  BY <1>1, DocLevelErrorsTell DEF ErrsInv
<1>4. ASSUME NEW i \in IncludedFiles
      PROVE  /\ ~FileAt(i).badOneof
             /\ \A m \in Range(FileAt(i).methods) : Exposed(m) => ~m.clientStream
             /\ \A x \in HttpMethods(i) : M(x).noSideEffects => M(x).verb = "get"
             /\ \A x \in HookMethods(i) :
                  ~M(x).pathParam /\ \A c \in Carriers : FileAt(c).version # "3.0"
  <2>1. ~FileAt(i).badOneof
    BY <1>1 DEF ErrsInv, Base, SelectInv
  <2>2. \A m \in Range(FileAt(i).methods) : Exposed(m) => ~m.clientStream
    BY <1>1, StreamingErrorsTell DEF ErrsInv
  <2>3. PICK k \in 1 .. Len(bundle) : i = bundle[k]
    BY <1>1, PlacesInBundle
  <2>4. /\ IdempotencyErrors(PathMethods(i)) = {}
        /\ IdempotencyErrors(HookMethods(i)) = {} /\ ParameterErrors(HookMethods(i)) = {}
    BY <1>1, <2>3 DEF MergeInv
  <2>5. \A x \in HttpMethods(i) : M(x).noSideEffects => M(x).verb = "get"
    BY <2>4, MethodErrorsTell DEF HttpMethods
  <2>6. \A x \in HookMethods(i) : ~M(x).pathParam
    BY <2>4, MethodErrorsTell
  <2>7. ASSUME NEW x \in HookMethods(i), NEW c \in Carriers
        PROVE  FileAt(c).version # "3.0"
    <3>1. Key(M(x)) \in DOMAIN WebhooksObject(i)
      BY <1>1, OperationsOfFile DEF Base, SelectInv
    <3>2. DOMAIN hooks # {}
      BY <1>1, <3>1, AllMerged
    <3>3. Root.version # "3.0"
      BY <1>1, <3>2 DEF CheckedInv, HooksNeed31
    <3>4. c \in Bundled /\ root \in Carriers
      BY <1>1 DEF Base, SelectInv, Carriers
    <3>. QED
      BY <1>3, <3>3, <3>4 DEF Root
  <2>. QED
    BY <2>1, <2>2, <2>5, <2>6, <2>7
<1>5. \A i, j \in IncludedFiles : i # j =>
        \A x \in HttpMethods(i), y \in HttpMethods(j) :
          IsHook(M(x)) = IsHook(M(y)) => Key(M(x)) # Key(M(y))
  BY <1>1, NamesApart
<1>6. \A x, y \in Kept : x # y => M(x).id # M(y).id
  <2>1. Operations = Kept
    BY <1>1, AllMerged
  <2>. QED
    BY <1>1, <2>1 DEF CheckedInv, DuplicateIds
<1>. QED
  BY <1>2, <1>3, <1>4, <1>5, <1>6 DEF ValidDocument

(* What the outputs say: nothing is out before the document is valid, and  *)
(* a run ends well only with something out, or with nothing asked.         *)
OutputInv ==
  /\ result = "running" <=> phase # "end"
  /\ phase \in {"ogen", "adapter"} => Root.ogen
  /\ phase = "adapter" => Root.converters /\ Root.adapter /\ {"ogen", "converters"} \subseteq emitted
  /\ phase = "finish" => ValidAdapter /\ (disk # None \/ emitted # {})
  /\ phase \notin {"ogen", "adapter", "finish", "end"} => emitted = {}
  /\ disk # None \/ emitted # {} => ValidDocument
  /\ "adapter" \in emitted => {"ogen", "converters"} \subseteq emitted
  /\ result = "ok" /\ emitted # {} => ValidAdapter
  /\ result = "ok" => disk # None \/ emitted # {} \/ IncludedFiles = {}
  /\ result = "rejected" => ~(ValidDocument /\ ValidAdapter)

\* The adapter's guard is about the files of the request.
LEMMA OnePackageTells ==
  ASSUME Base, phase # "select", bundle # <<>>
  PROVE  OnePackage <=>
           \A i, j \in IncludedFiles : FileAt(i).package = FileAt(j).package
<1> DEFINE S == {FileAt(i).package : i \in Bundled}
<1>1. IsFiniteSet(Bundled)
  <2>1. 1 \in Int /\ Len(req.files) \in Int /\ Bundled \in SUBSET (1 .. Len(req.files))
    BY BundleLength DEF Base
  <2>2. IsFiniteSet(1 .. Len(req.files))
    BY <2>1, FS_Interval
  <2>. QED
    BY <2>1, <2>2, FS_Subset
<1>2. IsFiniteSet(S)
  <2> DEFINE f == [i \in Bundled |-> FileAt(i).package]
  <2>1. f \in Surjection(Bundled, S)
    BY DEF Surjection
  <2>. QED
    BY <1>1, <2>1, FS_Surjection
<1>3. OnePackage <=> \E p : S = {p}
  BY <1>2, FS_Singleton DEF OnePackage
<1>4. Bundled = IncludedFiles /\ root \in Bundled
  BY RootIsBundled DEF Base, SelectInv
<1>. QED
  BY <1>3, <1>4

\* Two files of the bundle with one name for their paths.
LEMMA PathsMeet ==
  ASSUME Base, MergeInv, DuplicatePath
  PROVE  ~ValidDocument
<1>1. /\ phase = "paths" /\ at \in 1 .. Len(bundle) /\ at - 1 \in Nat /\ phase # "select"
      /\ DOMAIN PathsObject(bundle[at]) \cap DOMAIN paths # {}
  BY BundleLength DEF DuplicatePath, Base, SelectInv
<1>2. Merged(paths, PathObjects, at - 1)
  BY <1>1 DEF MergeInv, PathsUpTo, Assembling
<1>3. PICK n \in DOMAIN PathsObject(bundle[at]) : n \in DOMAIN paths
  BY <1>1
<1>4. PICK k \in 1 .. at - 1 : n \in DOMAIN PathObjects[k]
  BY <1>2, <1>3 DEF Merged
<1>5. k \in 1 .. Len(bundle) /\ k # at
  BY <1>1
<1>6. PathObjects[k] = PathsObject(bundle[k])
  BY <1>5 DEF PathObjects
<1>7. bundle[k] \in IncludedFiles /\ bundle[at] \in IncludedFiles /\ bundle[k] # bundle[at]
  BY <1>1, <1>5, PlacesInBundle
<1>8. bundle[k] \in Bundled /\ bundle[at] \in Bundled
  BY <1>1, <1>7 DEF Base, SelectInv
<1>9. PICK x \in PathMethods(bundle[at]) : Key(M(x)) = n
  BY <1>3, <1>8, OperationsOfFile DEF Base
<1>10. PICK y \in PathMethods(bundle[k]) : Key(M(y)) = n
  BY <1>4, <1>6, <1>8, OperationsOfFile DEF Base
<1>11. IsHook(M(x)) = IsHook(M(y))
  <2>1. ~IsHook(M(x)) /\ ~IsHook(M(y))
    BY PathOrHook
  <2>2. IsHook(M(x)) \in BOOLEAN /\ IsHook(M(y)) \in BOOLEAN
    BY DEF IsHook
  <2>. QED
    BY <2>1, <2>2
<1>. QED
  BY <1>7, <1>9, <1>10, <1>11 DEF ValidDocument, HttpMethods

LEMMA HooksMeet ==
  ASSUME Base, MergeInv, DuplicateHook
  PROVE  ~ValidDocument
<1>1. /\ phase = "webhooks" /\ at \in 1 .. Len(bundle) /\ at - 1 \in Nat /\ phase # "select"
      /\ DOMAIN WebhooksObject(bundle[at]) \cap DOMAIN hooks # {}
  BY BundleLength DEF DuplicateHook, Base, SelectInv
<1>2. Merged(hooks, HookObjects, at - 1)
  BY <1>1 DEF MergeInv, HooksUpTo, Assembling
<1>3. PICK n \in DOMAIN WebhooksObject(bundle[at]) : n \in DOMAIN hooks
  BY <1>1
<1>4. PICK k \in 1 .. at - 1 : n \in DOMAIN HookObjects[k]
  BY <1>2, <1>3 DEF Merged
<1>5. k \in 1 .. Len(bundle) /\ k # at
  BY <1>1
<1>6. HookObjects[k] = WebhooksObject(bundle[k])
  BY <1>5 DEF HookObjects
<1>7. bundle[k] \in IncludedFiles /\ bundle[at] \in IncludedFiles /\ bundle[k] # bundle[at]
  BY <1>1, <1>5, PlacesInBundle
<1>8. bundle[k] \in Bundled /\ bundle[at] \in Bundled
  BY <1>1, <1>7 DEF Base, SelectInv
<1>9. PICK x \in HookMethods(bundle[at]) : Key(M(x)) = n
  BY <1>3, <1>8, OperationsOfFile DEF Base
<1>10. PICK y \in HookMethods(bundle[k]) : Key(M(y)) = n
  BY <1>4, <1>6, <1>8, OperationsOfFile DEF Base
<1>11. IsHook(M(x)) = IsHook(M(y))
  <2>1. IsHook(M(x)) /\ IsHook(M(y))
    BY PathOrHook
  <2>2. IsHook(M(x)) \in BOOLEAN /\ IsHook(M(y)) \in BOOLEAN
    BY DEF IsHook
  <2>. QED
    BY <2>1, <2>2
<1>. QED
  BY <1>7, <1>9, <1>10, <1>11 DEF ValidDocument, HttpMethods

LEMMA CheckFailsTells ==
  ASSUME Base, MergeInv, CheckFails
  PROVE  ~ValidDocument
<1>1. phase = "check" /\ (HooksNeed31 \/ DuplicateIds)
  BY DEF CheckFails
<1>2. /\ Operations = Kept /\ Bundled = IncludedFiles /\ bundle # <<>>
      /\ DOMAIN hooks = UNION {DOMAIN WebhooksObject(i) : i \in IncludedFiles}
  BY <1>1, AllMerged DEF Assembling, Base, SelectInv
<1>3. CASE DuplicateIds
  BY <1>2, <1>3 DEF DuplicateIds, ValidDocument
<1>4. CASE HooksNeed31
  <2>1. PICK i \in IncludedFiles : DOMAIN WebhooksObject(i) # {}
    BY <1>2, <1>4 DEF HooksNeed31
  <2>2. PICK x : x \in HookMethods(i)
    BY <1>2, <2>1, OperationsOfFile DEF Base
  <2>3. Root.version = "3.0"
    BY <1>4 DEF HooksNeed31
  <2>4. root \in Carriers
    BY <1>2, <2>3, RootIsBundled, BundleAssumption DEF Carriers, HasDocLevelOptions, Root
  <2>. QED
    BY <2>1, <2>2, <2>3, <2>4 DEF ValidDocument, Root
<1>. QED
  BY <1>1, <1>3, <1>4

Inv == Base /\ DocInv /\ MergeInv /\ ErrsInv /\ CheckedInv /\ OutputInv

\* A step of Works that answers an error of the request has found one.
LEMMA RejectsTell ==
  ASSUME Inv, Works, result' = "rejected"
  PROVE  ~(ValidDocument /\ ValidAdapter)
<1>1. result # "rejected" /\ phase \notin {"select", "end"}
  <2>1. phase \notin {"select", "end"}
    BY DEF Works, Accept, BadMode, Validate, ReportBundle, BundleAccepted, Merge, DuplicatePath,
           MergePaths, DuplicateHook, MergeHooks, Document, Check, CheckFails, ReportDocument,
           Finalize, MarshalOgen, BadSecurity, Secure, Generate, WriteDisk, DiskFails,
           EmitDocument, OgenFails, Ogen, ManyPackages, Adapter, Finish
  <2>. QED
    BY <2>1 DEF Inv, OutputInv
<1>2. BadMode \/ ReportBundle \/ DuplicatePath \/ DuplicateHook \/ CheckFails \/ ReportDocument
        \/ BadSecurity \/ ManyPackages
  BY <1>1 DEF Works, Accept, Validate, BundleAccepted, Merge, MergePaths, MergeHooks, Document,
           Check, Finalize, MarshalOgen, Secure, Generate, WriteDisk, DiskFails, EmitDocument,
           OgenFails, Ogen, Adapter, Finish, FailAs, Goto
<1>3. CASE BadMode \/ BadSecurity
  BY <1>3 DEF BadMode, BadSecurity, ValidDocument
<1>4. CASE ReportBundle \/ ReportDocument
  BY <1>4 DEF ReportBundle, ReportDocument, Inv, ErrsInv
<1>5. CASE DuplicatePath
  BY <1>5, PathsMeet DEF Inv
<1>6. CASE DuplicateHook
  BY <1>6, HooksMeet DEF Inv
<1>7. CASE CheckFails
  BY <1>7, CheckFailsTells DEF Inv
<1>8. CASE ManyPackages
  <2>1. /\ ~OnePackage /\ phase # "select" /\ bundle # <<>>
        /\ Root.ogen /\ Root.converters /\ Root.adapter
    BY <1>8 DEF ManyPackages, Inv, Base, SelectInv, OutputInv
  <2>2. root \in Carriers
    BY <2>1, RootIsBundled DEF Inv, Base, SelectInv, Carriers, HasDocLevelOptions, Root
  <2>. QED
    BY <2>1, <2>2, OnePackageTells DEF ValidAdapter, Inv, Root
<1>. QED
  BY <1>2, <1>3, <1>4, <1>5, <1>6, <1>7, <1>8

\* A document whose root does not ask for everything needs no single package.
LEMMA NoAdapterAsked ==
  ASSUME Base, phase # "select", ValidDocument, ~(Root.ogen /\ Root.converters /\ Root.adapter)
  PROVE  ValidAdapter
<1>1. \A c \in Carriers : c = root
  BY DEF Base, SelectInv, Carriers, ValidDocument
<1>. QED
  BY <1>1 DEF ValidAdapter, Root

LEMMA OutputInvGenerate ==
  ASSUME Inv, Generate
  PROVE  OutputInv'
<1>. Works
  BY DEF Works
<1>1. /\ UNCHANGED <<req, selection>> /\ Root' = Root /\ IncludedFiles' = IncludedFiles
      /\ (ValidDocument' <=> ValidDocument) /\ (ValidAdapter' <=> ValidAdapter)
  BY KeepsSelection, SameFiles, SameValid
<1>2. phase \in {"write", "ogen", "adapter", "finish"} /\ phase # "select" /\ bundle # <<>>
  BY DEF Generate, WriteDisk, DiskFails, EmitDocument, OgenFails, Ogen, ManyPackages, Adapter,
         Finish, Inv, Base, SelectInv
<1>3. ValidDocument /\ doc # None
  BY <1>2, WrittenIsValid, DocumentsAreContents DEF Inv, DocInv
<1>4. ~(Root.ogen /\ Root.converters /\ Root.adapter) => ValidAdapter
  BY <1>2, <1>3, NoAdapterAsked DEF Inv
<1>5. result = "running"
  BY <1>2 DEF Inv, OutputInv
<1>6. CASE WriteDisk
  <2>1. /\ disk' = doc /\ emitted = {} /\ emitted' = {} /\ result' = "running"
        /\ phase' = (IF Root.ogen THEN "ogen" ELSE "finish")
    BY <1>5, <1>6 DEF WriteDisk, Goto, AfterWrite, Inv, OutputInv
  <2>. QED
    BY <1>1, <1>3, <1>4, <2>1 DEF OutputInv
<1>7. CASE EmitDocument
  <2>1. /\ emitted' = (IF Root.ogen THEN {} ELSE {"yaml"}) /\ result' = "running"
        /\ phase' = (IF Root.ogen THEN "ogen" ELSE "finish")
    BY <1>5, <1>7 DEF EmitDocument, Goto, AfterWrite, Inv, OutputInv
  <2>. QED
    BY <1>1, <1>3, <1>4, <2>1 DEF OutputInv
<1>8. CASE DiskFails \/ OgenFails \/ ManyPackages
  <2>1. /\ phase' = "end" /\ result' \in {"rejected", "broken"} /\ UNCHANGED <<disk, emitted>>
        /\ phase # "end"
    BY <1>8 DEF DiskFails, OgenFails, ManyPackages, Reject, FailAs, outputs
  <2>2. "adapter" \in emitted => {"ogen", "converters"} \subseteq emitted
    BY DEF Inv, OutputInv
  <2>3. result' = "rejected" => ~(ValidDocument /\ ValidAdapter)
    BY RejectsTell
  <2>. QED
    BY <1>1, <1>3, <2>1, <2>2, <2>3 DEF OutputInv
<1>9. CASE Ogen
  <2>1. /\ emitted' = emitted \cup {"ogen"} \cup (IF Root.converters THEN {"converters"} ELSE {})
        /\ result' = "running" /\ Root.ogen
        /\ phase' = (IF Root.converters /\ Root.adapter THEN "adapter" ELSE "finish")
    BY <1>5, <1>9 DEF Ogen, Goto, Inv, OutputInv
  <2>2. "adapter" \in emitted => {"ogen", "converters"} \subseteq emitted
    BY DEF Inv, OutputInv
  <2>3. "adapter" \in emitted' => {"ogen", "converters"} \subseteq emitted'
    BY <2>1, <2>2
  <2>4. phase' = "adapter" => {"ogen", "converters"} \subseteq emitted'
    BY <2>1
  <2>. QED
    BY <1>1, <1>3, <1>4, <2>1, <2>3, <2>4 DEF OutputInv
<1>10. CASE Adapter
  <2>1. /\ emitted' = emitted \cup (IF Operations = {} THEN {} ELSE {"adapter"})
        /\ result' = "running" /\ phase' = "finish" /\ {"ogen", "converters"} \subseteq emitted
        /\ OnePackage
    BY <1>5, <1>10 DEF Adapter, Goto, Inv, OutputInv
  <2>2. ValidAdapter
    BY <1>2, <2>1, OnePackageTells DEF Inv, ValidAdapter
  <2>. QED
    BY <1>1, <1>3, <2>1, <2>2 DEF OutputInv
<1>11. CASE Finish
  <2>1. /\ phase' = "end" /\ result' = "ok" /\ UNCHANGED <<disk, emitted>>
        /\ ValidAdapter /\ (disk # None \/ emitted # {})
    BY <1>11 DEF Finish, outputs, Inv, OutputInv
  <2>2. "adapter" \in emitted => {"ogen", "converters"} \subseteq emitted
    BY DEF Inv, OutputInv
  <2>. QED
    BY <1>1, <1>3, <2>1, <2>2 DEF OutputInv
<1>. QED
  BY <1>6, <1>7, <1>8, <1>9, <1>10, <1>11 DEF Generate

LEMMA OutputInvStep ==
  ASSUME Inv, Works
  PROVE  OutputInv'
<1>1. CASE Accept \/ Merge \/ Document
  <2>1. /\ phase \notin {"select", "write", "ogen", "adapter", "finish", "end"}
        /\ phase' \notin {"select", "ogen", "adapter", "finish"}
        /\ UNCHANGED <<disk, emitted>>
        /\ \/ phase' # "end" /\ result' = result
           \/ phase' = "end" /\ result' = "rejected"
    BY <1>1 DEF Accept, BadMode, Validate, ReportBundle, BundleAccepted, Merge, DuplicatePath,
                MergePaths, DuplicateHook, MergeHooks, Document, Check, CheckFails,
                ReportDocument, Finalize, MarshalOgen, BadSecurity, Secure, Reject, FailAs, Goto,
                outputs
  <2>2. emitted' = {} /\ disk' = None /\ result = "running"
    BY <2>1 DEF Inv, OutputInv, DocInv
  <2>3. result' = "rejected" => ~(ValidDocument' /\ ValidAdapter')
    BY RejectsTell, KeepsSelection, SameValid
  <2>. QED
    BY <2>1, <2>2, <2>3 DEF OutputInv
<1>2. CASE Generate
  BY <1>2, OutputInvGenerate
<1>. QED
  BY <1>1, <1>2 DEF Works

-----------------------------------------------------------------------------
(* The theorems *)

LEMMA InvInit ==
  ASSUME Init
  PROVE  Inv
<1>1. Base
  BY SelectInit
<1>. QED
  BY <1>1 DEF Inv, Init, DocInv, MergeInv, ErrsInv, CheckedInv, OutputInv, Assembling

LEMMA InvSelect ==
  ASSUME Inv, Select
  PROVE  Inv'
<1>1. Base'
  BY SelectStepAdd, SelectStepRest DEF Inv, Select
<1>2. /\ phase = "select" /\ phase' \in {"select", "validate", "end"}
      /\ UNCHANGED <<errs, documents, disk, emitted>>
      /\ \/ phase' # "end" /\ result' = result
         \/ phase' = "end" /\ result' = "ok" /\ bundle' = <<>>
  BY DEF Select, SkipFile, AddFile, NothingMarked, Selected, Goto, selection, outputs
<1>3. /\ doc' = None /\ copy' = None /\ ogenData' = None /\ disk' = None /\ emitted' = {}
      /\ errs' = {} /\ result = "running"
  BY <1>2 DEF Inv, DocInv, ErrsInv, OutputInv, documents
<1>4. bundle' = <<>> /\ phase' # "select" => IncludedFiles' = {}
  BY <1>1 DEF Base, SelectInv, Bundled, Range
<1>5. DocInv'
  BY <1>2, <1>3 DEF DocInv
<1>6. MergeInv' /\ ErrsInv' /\ CheckedInv'
  BY <1>2, <1>3 DEF MergeInv, ErrsInv, CheckedInv, Assembling
<1>7. OutputInv'
  BY <1>2, <1>3, <1>4 DEF OutputInv
<1>. QED
  BY <1>1, <1>5, <1>6, <1>7 DEF Inv

LEMMA InvWorks ==
  ASSUME Inv, Works
  PROVE  Inv'
  BY BaseStep, DocInvStep, MergeInvStep, ErrsInvStep, CheckedInvStep, OutputInvStep DEF Inv

LEMMA InvStutters ==
  ASSUME Inv, UNCHANGED vars
  PROVE  Inv'
<1>1. /\ UNCHANGED <<req, selection, mode, phase, at, bundle, root, version, errs, paths, hooks>>
      /\ UNCHANGED <<doc, copy, ogenData, disk, emitted, links, result>>
  BY DEF vars, selection
<1>2. UNCHANGED <<req, selection>>
  BY <1>1
<1>3. /\ Bundled' = Bundled /\ IncludedFiles' = IncludedFiles /\ Carriers' = Carriers
      /\ AllMethods' = AllMethods /\ Root' = Root
      /\ \A i : FileAt(i)' = FileAt(i)
      /\ \A x : M(x)' = M(x)
  BY <1>2, SameFiles
<1>4. Operations' = Operations
  BY <1>1 DEF Operations
<1>5. Base'
  <2>1. TypeOK'
    BY <1>1, <1>3, <1>4 DEF Inv, Base, TypeOK
  <2>2. SelectInv'
    BY <1>1, <1>3 DEF Inv, Base, SelectInv
  <2>. QED
    BY <2>1, <2>2 DEF Base
<1>6. DocInv'
  <2>1. /\ (ObjectOneof' <=> ObjectOneof) /\ Drafted' = Drafted /\ Expanded' = Expanded
        /\ Public' = Public
    BY <1>1, SameDocument
  <2>. QED
    BY <1>1, <2>1 DEF Inv, DocInv
<1>7. MergeInv'
  <2>1. PathObjects' = PathObjects /\ HookObjects' = HookObjects
    BY <1>2, SameAssembly
  <2>2. /\ \A i : PathMethods(i)' = PathMethods(i) /\ HookMethods(i)' = HookMethods(i)
        /\ \A S : IdempotencyErrors(S)' = IdempotencyErrors(S)
        /\ \A S : ParameterErrors(S)' = ParameterErrors(S)
    BY <1>2, SameMethods, SameObjects
  <2>3. PathsUpTo' = PathsUpTo /\ HooksUpTo' = HooksUpTo
    BY <1>1 DEF PathsUpTo, HooksUpTo
  <2>. QED
    BY <1>1, <2>1, <2>2, <2>3 DEF Inv, MergeInv
<1>8. /\ (ValidDocument' <=> ValidDocument) /\ (ValidAdapter' <=> ValidAdapter)
      /\ DocLevelErrors' = DocLevelErrors /\ StreamingErrors' = StreamingErrors
  BY <1>2, SameValid
<1>9. ErrsInv'
  BY <1>1, <1>3, <1>8 DEF Inv, ErrsInv
<1>10. CheckedInv'
  <2>1. (HooksNeed31' <=> HooksNeed31) /\ (DuplicateIds' <=> DuplicateIds)
    BY <1>1, <1>3, <1>4 DEF HooksNeed31, DuplicateIds
  <2>. QED
    BY <1>1, <2>1 DEF Inv, CheckedInv
<1>11. OutputInv'
  BY <1>1, <1>3, <1>8 DEF Inv, OutputInv
<1>. QED
  BY <1>5, <1>6, <1>7, <1>9, <1>10, <1>11 DEF Inv

(* At each step of a run the files looked at so far, the errors, the       *)
(* operations merged and the two documents are what they should be.        *)
THEOREM BundleInvariant == Spec => []Inv
<1>1. Init => Inv
  BY InvInit
<1>2. Inv /\ [Next]_vars => Inv'
  <2>1. SUFFICES ASSUME Inv, [Next]_vars PROVE Inv'
    OBVIOUS
  <2>2. Select \/ Works \/ UNCHANGED vars
    BY <2>1 DEF Next, Works, Terminated
  <2>. QED
    BY <2>1, <2>2, InvSelect, InvWorks, InvStutters
<1>. QED
  BY <1>1, <1>2, PTL DEF Spec

(* Every variable of a run holds a value of its kind.                      *)
THEOREM TypeCorrect == Spec => []TypeOK
<1>1. Inv => TypeOK
  BY DEF Inv, Base
<1>. QED
  BY <1>1, BundleInvariant, PTL

(* No document reaches the disk and no file reaches protoc for a request   *)
(* that is not valid, whatever the number and the order of its files.      *)
THEOREM OnlyValidOut == Spec => []OutputIsValid
<1>1. Inv => OutputIsValid
  BY DEF Inv, OutputInv, OutputIsValid, Delivered
<1>. QED
  BY <1>1, BundleInvariant, PTL

(* A valid request is never rejected.                                      *)
THEOREM OnlyInvalidRejected == Spec => []RejectsOnlyInvalid
<1>1. Inv => RejectsOnlyInvalid
  BY DEF Inv, OutputInv, RejectsOnlyInvalid
<1>. QED
  BY <1>1, BundleInvariant, PTL

(* A run that succeeds has taken the one file with document-level options  *)
(* for its root.                                                           *)
THEOREM CarrierIsRoot == Spec => []RootIsTheCarrier
<1>1. ASSUME Inv PROVE RootIsTheCarrier
  <2>1. SUFFICES ASSUME result = "ok", Carriers # {} PROVE Carriers = {root}
    BY DEF RootIsTheCarrier
  <2>2. phase = "end"
    BY <1>1, <2>1 DEF Inv, OutputInv
  <2>3. IncludedFiles # {} /\ Carriers \subseteq IncludedFiles
    BY <2>1 DEF Carriers
  <2>4. ValidDocument
    BY <1>1, <2>1, <2>3 DEF Inv, OutputInv
  <2>5. root \in Carriers
    BY <1>1, <2>1, <2>2, <2>3 DEF Inv, Base, SelectInv
  <2>. QED
    BY <2>4, <2>5 DEF ValidDocument
<1>. QED
  BY <1>1, BundleInvariant, PTL

(* The document given to ogen has no security scheme and no constraint of  *)
(* an OBJECT oneof; the one that is written has both where asked for.      *)
THEOREM DocumentsAreFinal == Spec => []DocumentsFinal
<1>1. ASSUME Inv PROVE DocumentsFinal
  <2>1. ogenData # None => ogenData = [oneof |-> "none", secured |-> FALSE]
    BY <1>1 DEF Inv, DocInv, ForOgen
  <2>2. disk # None => disk = Public
    BY <1>1 DEF Inv, DocInv
  <2>3. Public = [oneof |-> IF ObjectOneof THEN "expanded" ELSE "none",
                  secured |-> req.flags.security = "bearer"]
    BY DEF Public, Expanded
  <2>4. disk # None =>
          /\ disk.secured <=> req.flags.security = "bearer"
          /\ disk.oneof = IF ObjectOneof THEN "expanded" ELSE "none"
    <3>1. Public.oneof = IF ObjectOneof THEN "expanded" ELSE "none"
      BY <2>3
    <3>2. Public.secured = (req.flags.security = "bearer")
      BY <2>3
    <3>. QED
      BY <2>2, <3>1, <3>2
  <2>. QED
    BY <2>1, <2>4 DEF DocumentsFinal, ObjectOneof
<1>. QED
  BY <1>1, BundleInvariant, PTL

(* A run that succeeds on a marked file leaves the document on disk or     *)
(* hands protoc a file, and an adapter comes with what it calls.           *)
THEOREM SomethingProduced == Spec => []ProducesSomething
<1>1. Inv => ProducesSomething
  BY DEF Inv, OutputInv, ProducesSomething, Delivered
<1>. QED
  BY <1>1, BundleInvariant, PTL
=============================================================================
