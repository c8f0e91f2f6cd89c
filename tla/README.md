# Verification of protoc-gen-go-ogen

`protoc-gen-go-ogen` is a protoc plugin.  From annotated proto files it builds one
OpenAPI document, runs ogen in process on it, and emits converters between the
protobuf and the ogen types and a gRPC adapter that implements ogen's handler.
The generated code uses two small runtime packages, `grpcbridge` and `convert`.

This directory holds TLA+ models of the parts whose behaviour is hard to test,
TLC runs over small instances of them, and TLAPS proofs of what the runs check.

    tlc -workers 2 -config MCBundle.cfg MCBundle     # one run
    tlapm Components_proofs.tla                      # one proof module

## 1. Inventory

| Part | Source | State it keeps | Operations | Correct when |
|---|---|---|---|---|
| Plugin entry, flags | `main.go`, `generator/generator.go`, `settings.go` | four flags | run, report an error | an error yields no file |
| Bundle selection | `openapi.go` 43-129 | marked files, root, mode, version, gathered errors | `openAPIBundle`, `validateBundle`, streaming guard | no option is dropped, whatever the order of files |
| Operations | `openapi.go` 131-146, 373-540, 1085-1150 | two maps (paths, webhooks), operation ids | `pathsObject`, `webhooksObject`, merge, uniqueness | each exposed method has one operation; clashes are errors |
| Message closure, names | `openapi.go` 260-343, 1215-1289 | message list, `componentName` | `bundleMessages`, `collectComponentNames`, `uniqueComponentName` | names are distinct; exactly what is collected is named |
| Schemas | `openapi.go` 689-886 | schema maps, the recursion | `schemasObject`, `objectSchema`, `schemaForMessage` | every `$ref` made from a message resolves, to that message; one written by hand (`schema.ref`, `additional_properties_schema`) is copied unchecked |
| Two documents | `openapi.go` 176-231, 960-1053 | the document and its copy | copy, strip, expand, marshal, secure, write | ogen never sees a marker or a security scheme |
| PGV constraints | `validate.go` | none (pure) | rule to keyword | the schema admits what the rule admits |
| ogen run, output | `ogen_run.go` | files in memory | ogen, converters, adapter | nothing is emitted for a request in error |
| Converter generation | `converters.go` | which messages, which names | per file, cross-package | every converter that is called is defined |
| Converter semantics | `converters_value.go` | none (generated) | `ToOgen`, `FromOgen` | a round trip loses nothing |
| Adapter generation | `adapter.go` | operation id to RPC | link, method body | an operation delegates to its own RPC |
| Adapter runtime | generated, `grpcbridge.go` 104-184 | request being assembled, metadata | body, parameters, error mapping | the RPC sees what the client sent |
| Generated server and client | `example/gen/ogen/*_gen.go`, `example/gen/*.go` | a call and its attempts | client, router, codecs, validators, handlers, adapter | callers learn the truth about what was done |
| SSE bridge | `grpcbridge.go` 36-102, generated handler | pipe, goroutine, response | `ServerSentEventReader`, `Send` | the client gets a prefix of the stream, and all of it at the end |
| convert helpers | `convert/convert.go` | none (pure) | slices, maps, WKT | sizes, nil and errors are kept |
| ogen options | `ogen/ogen.proto` | - | - | read as input by the models |

How they interact: `main` calls `OpenAPIGenerator.Generate` once.  The generator is one
goroutine; its parts share `g.componentName` (names, read by schemas and by
converter generation), `g.errs` (written by five functions, read at two places),
and the document maps, which are aliased until `deepCopyNode`.  At run time the
generated HTTP server calls the adapter, the adapter calls the converters and
the gRPC service and converts back; for a server-streaming method it leaves a
goroutine behind that talks to the request goroutine through an `io.Pipe`.  ogen's
validators, made from the schemas, are all that checks a request: the gRPC
interceptors that would run PGV are not on this path.

What is hard here: the concurrency of the SSE bridge (four actors: service
goroutine, request goroutine, net/http, client); callers that give up and try again
while the service works, and services that fail or panic; values that cross four
representations with different ideas of "no value"; rules that one language checks
and another states; in the generator, errors that
are gathered and looked at later, aliased maps that are mutated in a fixed
order, a disk write before the last thing that can fail, several walks over
message graphs that must agree, and names that are invented to avoid clashes.
`PROJECT.json` lists these hazards at the lines where they bite.

## 2. Modules

| Module | Models | Lines |
|---|---|---|
| `EventStream` | abstract: what a stream served as SSE promises | specification only |
| `SSEBridge` | the bridge, its generated consumer, net/http, the client | `grpcbridge.go` 36-102, `adapter.go` 320-337, `example/gen/ogen/oas_handlers_gen.go` 1193-1329, `oas_response_encoders_gen.go` 371-384 |
| `SSEBridge_proofs` | theorems of `SSEBridge` | |
| `Components` | from messages to names, references and schemas | `openapi.go` 260-343, 689-789, 848-859, 1215-1289 |
| `Components_proofs` | theorems of `Components` | |
| `Bundle` | a whole plugin run | `openapi.go` 43-231, 373-448, 499-525, 960-1213, `ogen_run.go`, `adapter.go` 23-91 |
| `Bundle_proofs` | theorems of `Bundle` | |
| `Converters` | which converters are emitted and which are called | `converters.go`, `converters_value.go` 346-361 and 635-646, `adapter.go` 160-318 |
| `Converters_proofs` | theorems of `Converters` | |
| `Exchange` | abstract: what a call through the generated server promises | specification only |
| `Payloads` | what converters, codecs and validators do with a field, by its kind | `converters_value.go` 202-744, `oas_json_gen.go`, `oas_validators_gen.go`, `oas_schemas_gen.go` |
| `Messages` | the example's messages with their generated functions | `golden.converters.go`, `admin.converters.go`, `oas_json_gen.go`, `oas_validators_gen.go`, multipart codecs |
| `Messages_proofs` | what converters, codecs and validators do to a field and to a message | |
| `Gateway` | ten operations from a caller to the services and back | `oas_client_gen.go`, `oas_router_gen.go`, `oas_parameters_gen.go`, `oas_handlers_gen.go`, request and response codecs, `golden.ogenadapter.go`, `adapter.go` 160-318, `grpcbridge.go` 104-135 |
| `Gateway_proofs` | theorems of `Gateway`, with the refinement of `Exchange` | |
| `GatewayContents_proofs` | theorems of `Gateway` about the contents of requests and answers | |
| `Constraints` | from PGV rules and options to the schema of a field, and what rules, schema and converters say of values and of a field left out or null | `validate.go`, `openapi.go` 791-846 and 1291-1418, `converters_value.go` 122-158, 202-286 and 501-574, `convert.go` 63-89 |
| `Constraints_proofs` | theorems of `Constraints`, for all fields and rules | |
| `MCSSEBridge`, `MCComponents`, `MCBundle`, `MCConverters`, `MCGateway`, `MCConstraints` | the inputs TLC enumerates | |

A definition that begins with "Faulty variant of" is not part of a model: it is
a plausible mistake in the definition below it, put in its place to see
that a property notices.

### SSEBridge

State: `fn`, `sends`, `part`, `sendErr` are the service goroutine; `pw`, `pr` the two
ends of the pipe; `srv`, `copyErr`, `reg`, `status` the request goroutine in the handler
and in `io.Copy`; `buf`, `wire` the response; `client`, `cancelled` the other side and the
request context.  An event is cut into `Pieces` pipe reads, since `Send` writes it in
three `Write`s and the copy may take each in several reads.  `ReadPiece` is the
rendezvous of the unbuffered pipe: the reader takes a piece and, if it was the
last, `Send` returns.  `CloseReader` is the deferred `Close` of the encoder, which
releases a blocked `Write` (`WriteFails`).  The service is arbitrary: it may send,
fail to render, ignore what `Send` returned, and return at any time with nil, with
`io.EOF`, with ogen's `ErrInternalServerErrorResponse` or with any other error.  The
client may leave at any time.  What the service returns goes to `CloseWithError` as it
is, so only the last of the four ends in an error body: `io.Copy` takes `io.EOF` for
the end (`ReadError`), and the handler takes `ErrInternalServerErrorResponse` for an error
the encoder has answered (`ReportNothing`).  `ErrBodyIffReported` says exactly that.

`EventStream` states what a consumer may rely on: events arrive first to last,
and a response that ends on a kept connection has all of them.
`KeepsPromise` is the refinement `SSEBridge => EventStream`.

### Components

Three recursions of the code walk trees; each is a worklist `todo` whose head is
the message being visited (`VisitThen` adds what is nested in it).  The fourth,
`objectSchema`, is the stack `frames`.  `out` and `pos` are the list `bundleMessages` builds
and iterates over; `suffix` is the loop variable of `uniqueComponentName`; `refs` has each
`$ref` with the message it was meant for, `schemas` the message each component
describes.  A field is its message type and whether it is omitted: fields of
scalar, enum and well-known types refer to nothing, a map field stands as its
value type, and the members of a oneof are fields like others.  A name is a base
and the number it ends in, since that is all that `uniqueComponentName` builds:
"A" and 2 give "A2", which is what makes it clash with a message called A2.
`MaxDepth` stands for the size of Go's stack.

Two options write a `$ref` as it stands in the `.proto` file: a response's `schema.ref`
(`PathWritten`, which comes before the method's output) and a message's
`additional_properties_schema` (`EnterRefs`, whenever `objectSchema` enters it).  `ogen.proto`
calls them references to an existing schema, and no code checks that: nothing is collected
for them, and the name may belong to another message or have been given with a number
behind it.  They are in `refs` with `to |-> ByHand`, apart from those the
generator makes, of which `RefsResolve` speaks.  `WrittenRefsResolve` is what
their writer can rely on: if a collected message asks for the name, the reference does not
dangle, and leads to that message unless one collected before it has the name.  A name
that no collected message asks for may dangle, or be another message's numbered
name.  Strings that do not point into `components.schemas` are left out.

### Bundle

`phase` is the step of `generateBundle` that runs next, `at` the file its loop is at.
`errs` is `g.errs` by kind: errors are gathered by `Validate`, `MergePaths`, `MergeHooks`
and `Check`, and reported by `ReportBundle` and `ReportDocument`, as in the code.
`paths` and `hooks` map a name and a verb to the method whose operation is there, so an
overwritten operation is visible.  `doc` and `copy` are the document and its
deep copy as far as the last steps change them: the state of an OBJECT oneof's
constraint (marker, expanded, none) and the security scheme.  The disk and ogen
may fail.  `Delivered` is what protoc gets: protogen answers an error with no file.

### Converters

The step of `Bundle` that emits converters and adapter, in detail.  `defs` are the
converters emitted, `calls` those that emitted code calls; a converter is the
package it is in, its receiver (a method) or its name (a function), its
direction and the message it converts.  `ConvertFile` is `generateConverters` for one
marked file, `ConvertCross` is `generateCrossConverters`, `Adapter` the methods of the
adapter.  Each decides with `IsLocal` between the method and the function form, for
the package it writes into; the adapter has no `localPkg`, so everything is local
to it.  `Collected` is what `Components` computes step by step, here as the least
closed set; `Typed` is external: ogen makes a type for whatever the operations
lead to.  `goName` and `ogenName` are inputs, since protoc-gen-go and ogen choose them
independently (ogen renames, and a `schema_name` changes what it starts from).

`SelfContained` is the result of modelling: the conditions under which the emitted code
compiles, none of which the generator checks completely.  Each of its four parts is
needed (without it TLC finds a call without a converter, or two functions of one
name):

* all marked files are of one package (checked only when an adapter is asked
  for): a second package's converters call functions that exist in the first only;
* a message an operation leads to is not omitted, and if it is of the home
  package it is declared in a marked file;
* the adapter's bodies, parameters and responses are of the home package: others
  have no method, though the adapter calls one;
* no Go name of a home-package message is the ogen name of a message of another
  package: both name a function `<name>FromOgen`.

### Payloads, Messages, Gateway, Exchange

The generated example, as code of its own and as what the generators emit for a
document.  `Payloads` treats a field by its kind, the treatment the generators chose
for it (`"plain"` a required scalar, `"nilable"` an `OptNil`, `"json"` raw JSON, `"capped"` a map
whose entries are counted while it is decoded, ...), and a value by its class: zero,
good, bad (refused by the schema), odd (of another type, or without a counterpart),
or one of the several ways of having no value.  The generated `Encode` of a type with
forty fields is then one function over its fields.  `Messages` lists the fields of
each message with their kinds and what is particular to it: the rules its
`Validate` checks, flattened oneofs, the multipart form.

`Gateway` has a caller, which makes a call with ogen's client or sends an HTTP
request of its own and may try again, and per attempt one server.  `client`, `wire`,
`server`, `args`, `rpc`, `reply`, `answer`, `result` are the stages an attempt goes through, each
written once: `Send` (encode, validate), `Handle*` (route, parameters, decode, validate), the
adapter methods (`GetUser`, ...: assemble the request and the metadata), `Return` or `Panic`
of the service, `respond*` (the adapter's conversion back, validate, encode), `Receive`
(decode).  `Lose` is a response that never arrives, `GiveUp` a caller that stops waiting,
at any moment; the server then goes on.  A panic ends the attempt without an
answer; in the goroutine of a stream it ends the process, which for the
caller is the same and for other calls is a lost connection.

A parameter is validated by the server only: a page size of 0 or of 101 is sent by the
typed client and refused with 400, as the document has it (`minimum` 1, `maximum` 100).

`Exchange` says what that amounts to, whatever is carried: each attempt has a state
of its work, a verdict of the server and what the caller was told.  The caller is
blamed (4xx) only before the service has worked; a success was served; an attempt
reaches the server only when the one before was given up.  Of a stream, whose status
goes out first, the caller learns that it was `"cut"`, which is an error of the service,
or that it `"ended"`, which is not yet a success (`Unmarked`).  `KeepsExchange` is the
refinement `Gateway => Exchange`; `Honest` and `RepeatedOnlyUnknown` follow from it (`CallersKnow`).

### Constraints

The phases of `schemaForField`: the base schema, the rules of
`protoc-gen-validate` as keywords (`ApplyValidation`, `ApplyRepeatedRules`, `ApplyMapRules`), the
options of the field over both (`enum_json`, `format`, `nullable`), and whether the message requires it.
A schema is a partial function from keywords to values, so that a keyword that is
overwritten or missing is visible; `nullable` and `required` are beside it.  Against it stand two definitions of
meaning: `FieldAllows`, what the rules and options allow, and `FieldAdmits`, what the document
admits.  A field has one of three forms in a JSON object: it is not there (`Absent`), it is `Null`,
or it has a value (`Written`).  Between the two stand the converters: `ToOgen` is the set of forms a value
may be written in, `FromOgen` what the service may see of a form, the `Zero` of the
field where it has no value, with the converters of map keys inside (`MapKey`, `MapKeyErr`).  A field with
a `presence` of its own (`optional`, or a wrapper) may be unset, and PGV then checks nothing of it.

`Stricter` and `Looser` are the result of modelling: the fields for which the document is
not what the rules are.  Each part is necessary (without it TLC finds the value) and
outside of them `NeverRefuses` and `NeverAdmits` hold.  The document refuses what the rules
allow for

* optional bytes, a slice of ogen without presence: unset ones are written as empty ones;
* a list that is required: a nil slice, which the rules allow if they allow an empty list, is
  refused by ogen's validators (`oas_validators_gen.go:293` for the users of the example);
* bounds in reverse, which mean "outside" and are written as an empty range;
* `const` and `in` of 64-bit numbers, which are strings in JSON and compared with numbers;
  likewise of map keys of a number type, and the `const` of a bool key, which the
  document states in OpenAPI 3.1 as `enum: [true]` of strings, so that no entry is admitted;
* a prefix and a suffix that may overlap, in one pattern;
* lengths and patterns of bytes, which count base64 instead of bytes;
* `ignore_empty`, which is not read.

It admits what they refuse for

* a field that may be left out, because it is not required, or be null, because it is
  nullable, and whose rules refuse the zero or empty value that the service then sees: the
  example's own `pageSize` with `gte: 1`, a string with `min_len`, a list with `min_items`;
* rules that are never read: `not_in`, `not_contains`, lengths in bytes, `address`, `const`, `in` and
  affixes of bytes, everything about timestamps, durations and Any;
* bounds of 64-bit numbers, which are strings in JSON;
* affixes beside a pattern and rules beside a `const`, which hide them;
* minimal lengths of bytes, counted in base64;
* rules of keys in OpenAPI 3.0, which cannot express them;
* a minimal number of entries of a map with integer keys: `"1"` and `"+1"` are two
  entries for the validator and one for the service.

## 3. Runs

| Run | Checks | Result |
|---|---|---|
| `sse_bridge` | `TypeOK`, the inductive `BridgeInv`, `WireIsStreamPrefix`, `EndIsComplete`, `ErrBodyIffReported`, `TornOnlyWhenGone`, `KeepsPromise`, `SendReturns`, `StreamEnds`, `NoGoroutineLeak` | hold: no piece is lost, repeated or reordered, a normal end is complete, an error body shows exactly an error that reached the handler and is not marked as answered (an `io.EOF` of the service does not); a blocked `Send` always returns, a finished service ends the request, and with a cooperative service a client that leaves frees both goroutines |
| `components` | `TypeOK`, `NamesDistinct`, `CollectsReachable`, `NamesWhatItCollects`, `RenamedOnlyOnClash`, `RefsResolve`, `WrittenRefsResolve`, the inductive `ComponentsInv`, `Terminates` | hold: names, references and schemas fit together; a reference written by hand leads somewhere if a collected message asks for its name |
| `bundle` | `TypeOK`, `OutputIsValid`, `RejectsOnlyInvalid`, `RootIsTheCarrier`, `DocumentsFinal`, `ProducesSomething` | hold |
| `converters` | `TypeOK`, `CallsResolve`, `ConvertersLegal`, `StructsConvertible`, the inductive `ConvertersInv` | hold: for self-contained requests every call has exactly one converter |
| `gateway` | `TypeOK`, the inductive `GatewayInv`, `ServiceSeesSent`, `OnlyConformingServed`, `ConformingServed`, `ClientReadsAnswers`, `KeepsExchange`, `EveryCallEnds` | hold: what is sent is what the service sees; exactly what the document allows is served; success, blame and doubt are told truly |
| `constraints` | `NeverRefuses`, `NeverAdmits` | hold: outside `Stricter` and `Looser` the document and the rules agree on every value, and on a field left out or null |
| `inline_overflow`, `mode_dropped`, `method_lost`, `adapter_link`, `error_status`, `request_reassembled` | one statement of the documentation each | violated, see below |

### Bounds

* `sse_bridge`: 4 events of 4 pieces, a response buffer of 5.  The buffer is larger than
  an event and smaller than two, so flushes fall inside events and between
  them; a fourth event shows no interleaving a third does not.
* `components`: three messages.  One family has every graph of field lists over
  three messages (none, one to any of them, two, one omitted), with every
  nesting of depth up to two, every marking and omission that matters: cycles,
  self-reference, a message reached only through an omitted one or through nesting.
  The other has all namings of three messages in which a simple name, a
  numbered one, a reserved one or a `schema_name` can meet, with references written by hand to
  a plain, a numbered and a qualified name.  A clash needs two
  messages, one with a number already taken needs three.  `MaxDepth` 5 exceeds the
  longest chain of distinct messages, so whatever overflows is a recursion
  that repeats a message.
* `bundle`: three files in any order of eight roles (selection); two methods
  in one file or two, one of them ranging over everything that can be wrong
  with a method (merge and links); one file with all flags and outputs.  An
  order effect between files needs two of them plus one that is not marked,
  a clash two methods.
* `converters`: message 1 in a marked file, 2 and 3 in any of two files or none, of
  two packages; every field list that lets one lead to another, an omitted field,
  an omitted message, three sets of operations; and all Go and ogen names out of
  four.  A call needs a caller and a callee, a chain through another package a
  third message; two names meet or they do not.
* `gateway`: a usual call of each operation, made up to two times, and once each
  those that differ from it in one field, parameter or header, in every class of
  its kind, or in two members of a oneof; requests of other clients likewise, with
  wrong paths, methods and bodies; for a usual call every answer that differs in one
  field, and an error.  Generated code treats the fields of a message one by
  one, except for oneofs, so two that are unusual at once show nothing new.  An
  order of attempts needs two.  Of the many fields of `Coverage` of one kind one is varied.
* `constraints`: every kind of value with the rules of its type, in the combinations
  that share a keyword or hide one another; numbers from -1 to 4 around bounds 1
  and 3, strings of up to three letters over two, bytes of up to four, lists and maps
  of up to two entries with string, unsigned and bool keys, two spellings of a key and
  one that is no number; with and without presence, required, nullable, not nullable
  or silent about it, with an option for the enum and for one of two formats over the rules.  Each
  rule compares with at most two limits, so values below, at, between and above
  them are all there is.

### Fairness

`sse_bridge` assumes weak fairness of the request goroutine (the Go scheduler runs it,
and a connected client reads), of `WriteFails` (a `Write` on a closed pipe returns) and of
`ContextCancelled` (net/http notices a closed connection and cancels the context).
Nothing makes the service send or return.  `NoGoroutineLeak` adds, as an
assumption of the property, a service that returns once a `Send` failed or the
context is done: without it no adapter could free the goroutine.
`components` assumes that the generator, one goroutine that nothing
blocks, keeps taking steps.  `gateway` assumes `Progress` of each attempt: the goroutine of
a request and the connection do not stop forever, and the service returns (or the
connection is lost).  Nothing makes a caller send, give up or try again, or a
service panic.  Its runs, and `constraints`, do end, so they do not check deadlock.

## 4. What the violated runs show

* `inline_overflow`: a message without a component (omitted, or of a file that no
  marked message reaches) that contains itself makes `objectSchema` recurse until
  the process dies.
* `mode_dropped`: `hasDocLevelOptions` misses `default_oneof_schema_mode`, so the mode of
  a file that is not the root is ignored without an error.
* `method_lost`: two methods of one file with the same path and verb: the first
  one's operation is overwritten; the check only sees different files.
* `adapter_link`: a method with a verb but no path has no operation, yet is entered in
  `byOpID`, and takes over the operation of a method with the same operation id.
* `error_status`: `NewError` with its mapping is generated, but ogen calls it only when
  the document has one default error response for all operations, which the example
  has not.  Then every error of a unary RPC is answered 500.
* `request_reassembled`: a query parameter that is a map, a body that is one bytes field
  and the header of an idempotent operation are in the document, decoded and
  validated, and never reach the service.

Met while modelling and not kept as runs: a streaming call is answered 200 before the
service has run, whatever gRPC error follows; the name that replaces a reserved one
is not compared with the reserved names again, so `Value` in package `list` becomes
`ListValue`; the root is the file that carries options, not the first marked one as the
README says; with no file that carries options the root
does depend on the order of the files (`openapi.go` 68-71 says it does not); a
`schema_name` gets a number when the name is taken; the message types of a method
that no marked file declares and no field reaches get no component, though
`ogen.proto` 232 says messages reachable from services do; the "Scope" section
of the README says that all streaming is rejected, its "Streaming" section that
server streaming is served; the README says that the document is written only when
`openapi_out` is set (165-166), but without it and without `generate_ogen` it comes out
through protoc (`openapi.go` 217).

## 5. Proofs

`SSEBridge_proofs` proves `Spec => []BridgeInv` for all numbers of events, pieces and buffer
sizes (`BridgeAssumption`: the bounds are naturals, an event and the buffer have
at least one piece).  None of the safety properties is inductive: `EndIsComplete`
speaks of the last state only, and `WireIsStreamPrefix` of pieces that have arrived, while
a step can move a piece from the copy's register to the buffer and from there
to the wire.  `BridgeInv` therefore adds `Control` (where the two goroutines can be at
the same time, and what the pipe's ends are then) and `Live`: while the client is
there, what is on the wire, in the buffer and in the register, in this order, is a
prefix of the stream, and the piece a blocked `Send` offers is the next one.  The
proof has one lemma per conjunct, with one step per action; the other theorems
(`TypeCorrect`, `WireSafe`, `EndComplete`, `ErrBodyTells`, `TornOnlyGone`) follow from it.
It also proves the refinement `Spec => KeepsPromise` (`BridgeImplementsStream`): every step of the bridge
is a step of `EventStream` or leaves the promise's state alone.  The hard step is the one by
which pieces arrive, since the promise lets whole events and a prefix of the next one arrive
and the bridge delivers whatever the buffer holds; one lemma
turns `BridgeInv` into what the promise needs (after a flush every event before the current
one is there in full), and one more invariant, `StartedInv`, says that no piece has arrived
of an event the service has not begun.

`Components_proofs` proves `Spec => []ComponentsInv` for every set of requests, of any number
of messages (`ComponentsAssumption`: the requests are well formed, `NoName` is no
name).  `NamesWhatItCollects` and `RefsResolve` speak of the moment a walk is over; the
invariant says what is true on the way: whatever a collected message leads to is
collected or still in `todo` (`CollectInv`), the walk that names stays inside the
collected list and has every collected message named or in `todo` (`NameInv`),
references are to named messages under their names, and each collected
message is described or in `todo`, and only messages without a name are expanded inside it
(`RenderInv`).  That names are distinct carries
this: without it a later schema could overwrite an earlier one.  From it follow
`NamesAreDistinct`, `NamesTheCollected`, `RefsAlwaysResolve` and, with `RenamesOnlyOnClash` below, `WrittenRefsAlwaysResolve`.

Three more invariants carry the other properties.  `CollectsTheReachable`: the set that is
collected is the *least* closed one.  `Reachable` is defined as the intersection of all closed sets,
so no induction over the graph is needed: `LeastInv` says that whatever is collected or
pending lies in every closed set, which each step keeps, and at the end the collected
messages are a closed set themselves (`ComponentsInv`).  That no message is there twice
comes with it, by counting.  `RenamesOnlyOnClash`: a name is another than the message asks for only when a
message *collected before* it has that name, although names are given by a second
walk.  So the two walks must visit in one order, which holds since both go depth first
through the same nesting.  `OrderInv` states that without recursion: `Walk` describes `todo` of a walk that has
visited the first `n` messages of the list as what is left of the lists it entered, in the
order in which they nest, `First` is the next new message in that order, and `NestedFollow` says of
the list that each message is the one that a walk over the messages before it would
visit next; the collecting walk makes such a list (`ListFollows`), and the naming walk has
at each moment named exactly the first `n` of it (`NameWalks`).  `ComponentsTypes` is the type invariant.

`Converters_proofs` proves `ConvertersLegal`, `StructsConvertible` and `CallsResolve` for every
set of messages, packages and requests (`ConvertersAssumption`: requests are well
formed; in particular Go names differ within a package and ogen names differ).
`ConvertersInv` says what `defs` is exactly, and where each call can come from, at each
step; at the end all files are behind the loop.  Then each origin of a call is traced to
a struct (`FieldsOfStructs`, from the two closures being closed), and each struct of
a self-contained request to the walk that emitted it (`StructResolves`); `DefsDistinct`
compares the names the two walks give.

`Bundle_proofs` proves all of `Bundle`'s properties for every set of requests: any number of
files in any order, any methods and options (`BundleAssumption`: the requests are
well formed, `None` is no value of an option and no document).  `OutputIsValid` and
`RejectsOnlyInvalid` compare the end of a run with the request as a whole, while the
code looks at one file after another.  The invariant `Inv` says how far it has come:
the files before `at` that belong are in `bundle`, once each, and the root has
document-level options as soon as one of them has (`SelectInv`); `paths` and `hooks` are
exactly the operations of the files merged so far, whose names do not meet
(`MergeInv`); gathered errors are the request's, and while there is none, what was
looked at is in order (`ErrsInv`, `CheckedInv`); the two documents have, at each phase,
what the steps so far gave them (`DocInv`).  `WrittenIsValid` draws the first property from
this and `RejectsTell` the second, with one lemma per error.  That within a file the last of
several methods is an operation of its own name needs a greatest index
(`LastIndex`, from the library's theorem that the naturals are well founded).

`Gateway_proofs` proves `Spec => []GatewayInv`, the refinement `Spec => KeepsExchange` and, from it,
`CallersKnow`, for all calls, replies and numbers of attempts (`GatewayAssumption`: a service
does not return a code that means it has not returned; `PayloadsAssumption`: the
three special constants are no classes of values).  That a 4xx is an answer to a call whose service never ran
speaks of one moment; `GatewayInv` adds, per phase of the server, what of request, reply and
answer is already there (`Phases`), what the status says about the reply (`Verdicts`), and
that an attempt is only made when those before ended unknown.  The ten operations
enter the proof through what their handlers have in common: one lemma for each form
of a step, so that the contents of messages never matter.

`GatewayContents_proofs` adds what the attempts carry: `ServiceSeesSent`, `OnlyConformingServed`,
`ConformingServed` and `ClientReadsAnswers`, for every call, request of another client and reply
that the types admit, with every field in any class at once, where TLC varies one
field at a time.  The assumptions say what the types say: a struct that the caller fills
holds in each field what Go's or protobuf's type of the field can hold
(`ContentsAssumption`; a request of another client may have anything in any place, but a body of
the content type's form), and that the special constants are none of these
(`PayloadsAssumption`, `MessagesAssumption`).  `Messages_proofs` lifts from fields to messages: a field's
conversion there and back gives what was there (up to `Same`, the two ways of having no
value), `Encode` then `Decode` likewise, and `Validate` on one side accepts what the schema
admits; then each of these for a message, by its fields, with one lemma per message
that has rules or oneofs of its own.  On this rest three lemmas about one operation, whatever
it is: what a conforming request is decoded to is what it says and is accepted
(`ServesConforming`), a request that the client sends conforms (`Requests`), and an answer with a
success is one that the client decodes to the message returned (`ReadsAnswers`).
The invariant `IInv /\ ContentsInv` (`ContentsInvariant`) then only has to say that each variable of an attempt is the image of
the one before it: `wire` of the call, `args` and `rpc` of `wire`, `answer` of `reply`, `result` of `answer`; the
properties compare the first with the last.  Its control part comes from `GatewayInv`.

`Constraints_proofs` proves `NeverRefuses` and `NeverAdmits` (`NeverRefusesAlways`, `NeverAdmitsAlways`) for
every field: any rules that PGV accepts (`RulesOK`), any presence and any enum, format, nullable
and required options (`FieldOK`), alone, as the
elements of lists and as keys and values of maps, in both versions, whatever values
are compared (`ConstraintsAssumption`: fields and rules have their types, and `None` is none of
their values; `ScalarsAssumption`: the values compared have theirs).  So, of the rules,
options and forms modelled, `Stricter` and `Looser` are complete: no field outside of them is
left out, null or written in a way that its rules judge otherwise.  The
proof is by what keywords say.  `SameRest` separates `enum`, which an option may replace, from the other
keywords.  For numbers `BelowIsLower` and `AboveIsUpper` say what a bound leaves in the schema (the
exclusive bound is a mark in 3.0 and a keyword in 3.1, and a lower bound may replace
the minimum of an unsigned type), `LengthsSay`, `PatternIs` and `StringRest` the same of texts, `BytesSay` of bytes
counted in base64, `NumericOnText` of bounds on a number that is written as a string.  They
meet in `RulesNeverRefuse` and `RulesNeverAdmit`, for one value of any kind; `WithoutSetsRest` and `WithoutSetsListed` add the
enum option, `WithoutFormatWrites` and `FormatSays` the format, which are compared with the rules less what the option replaces.  The invariant `RenderInv` says what the steps of the rendering have written, and
one lemma per label concludes: `OneIsExact`, `ListIsExact` (with `ZeroIsAllowed`, `NoneIsAdmitted` and `NilIsAdmitted` for
what is left out, null or unset), and for maps `MapRefuses` and `MapAdmits`, where the texts of
keys are as many as the keys (`MapKeySize`, a bijection), are read back as those keys (`ReadBack`),
and are never fewer than the entries they are read as (`ReadAs`, a surjection).  The proof
attempt is what showed the `const` of bool keys, which no run had.
`NumbersAlwaysExact` is the same for every number of a number type instead of those that are
compared (a `double` is an integer in the model).

Only model-checked: liveness (`Terminates`, `EveryCallEnds`, `SendReturns`, `StreamEnds`, `NoGoroutineLeak`), which is out
of the prover's reach.  Every invariant of the passing runs, and both refinements, are theorems.

## 6. Not modelled

* In `Constraints`, the options `default_json`, `examples_json`, `read_only`, `write_only` and
  extensions, and a `format` on a field that is no string; a default
  would take the place of the zero value when the field is left out.  Options on lists and
  maps other than required, nullable on plain bytes and on messages, and a field that is both
  `optional` and required but never null, whose converter does not compile.  A string that has a
  format is assumed to come back from ogen as it went in.  Null is admitted where `nullable` says so in
  both versions of OpenAPI, as ogen reads it, though 3.1 has no such keyword.
* What a schema says of the formats of numbers, times and well-known types, the schema of
  a oneof, and the contents of operations (summaries, tags, servers, extensions):
  data no property so far tells apart.
* How the bodies of the adapter's methods are generated for a document other than the
  example's.  `Converters` also leaves out multipart messages, for which no
  faker test is written, and responses that are lists or well-known types, on
  which the adapter calls `ToOgen` although they have none.
* Widths of numbers, precision of times, texts of errors; newlines in strings, which
  an affix pattern does not match; the helpers of `convert` that apply a function to
  each element.
* OPTIONS requests (answered 204 or 405 by the router), telemetry, middleware, security
  handlers: they change no state of a call of the example.
* ogen itself, protogen, io, net/http: external.  They appear as what the code
  relies on (`OgenFails`/`Ogen`, `Delivered`, the pipe, `Accept`, `Finish`).
* In `SSEBridge`, a panic of the service goroutine (`Gateway` has it as the end of the
  call); the delay of events in the response buffer, which nothing promises to bound:
  `codeRecorder` (`oas_response_encoders_gen.go:380`) hides `http.Flusher`, so events wait
  until the buffer fills or the handler returns.
* `ogen.pb.go`, `golden.pb.go` and the like: declarations made by protoc-gen-go.

## 7. Plan

1. `SSEBridge` with `EventStream` and its proofs: done.
2. `Components` and its proofs: done.
3. `Bundle` and its proofs: done.
4. `Converters` and its proofs: done.
5. `Payloads`, `Messages`, `Gateway` with `Exchange`, and their proofs: done.
6. `Constraints` and its proofs: done.
7. The schemas of oneofs in their modes, and the adapter's method bodies as a function
   of the document.
