------------------------------ MODULE MCGateway ------------------------------
(* Small instances of Gateway.  Calls: a usual one and an empty one of each *)
(* operation, made twice; and once each, those that differ from them in one *)
(* field, parameter or header, or in two members of a oneof.  What one      *)
(* field does depends on its kind and its rules only.                       *)
EXTENDS Gateway, TLC

(* The fields with rules of the schema.                                    *)
Ruled(kinds) ==
  CASE kinds = UserInputKinds -> UserInputRules
    [] kinds = UserKinds -> UserRules
    [] kinds = CoverageKinds -> CoverageRules
    [] kinds = ListUsersResponseKinds -> {"users"}
    [] OTHER -> {}

Bad(f, fields) == IF f \in fields THEN {"bad"} ELSE {}

OgenClasses(kinds, f) == OgenField(kinds[f]) \cup Bad(f, Ruled(kinds))

WireClasses(kinds, f) == WireField(kinds[f]) \cup Bad(f, Ruled(kinds) \ NotANumber)

(* Every number of an enum but its own is one that has no name.            *)
ProtoClasses(kinds, f) ==
  ProtoField(kinds[f])
    \cup Bad(f, {g \in Ruled(kinds) : kinds[g] \notin Enums})

GoodMessage(kinds) == [f \in DOMAIN kinds |-> "good"]

(* One member of each oneof.                                               *)
OneMember == [f \in DOMAIN CoverageKinds |->
                IF f \in {"refSlug", "refNested", "kindCount"} THEN "none" ELSE "good"]

Fill(m, v) == [f \in DOMAIN m |-> IF m[f] = "none" THEN v ELSE m[f]]

(* Fields of Coverage: each kind, each rule, the members of the oneofs.    *)
CoverageFields ==
  CoverageRules \cup
  {"boolWrapper", "optionalInt64", "refSlug", "refNested", "kindInt", "kindCount",
   "stringValue", "repeatedString", "nestedMap", "structValue", "anyJsonValue",
   "bytesValue", "bytesWrapper", "enumValue", "repeatedEnum", "fieldMaskValue", "refId"}

(* The messages that differ from m in a field.                             *)
Near(kinds, m, classes(_, _)) ==
  UNION { {(f :> v) @@ m : v \in classes(kinds, f) \cup {m[f]}} :
          f \in IF kinds = CoverageKinds THEN CoverageFields ELSE DOMAIN kinds }

Blanks(kinds, classes(_, _), blank) ==
  [f \in DOMAIN kinds |->
     IF blank \in classes(kinds, f) THEN blank
     ELSE IF "nil" \in classes(kinds, f) THEN "nil"
     ELSE IF "zero" \in classes(kinds, f) THEN "zero" ELSE "good"]

-----------------------------------------------------------------------------
NoParams == [p \in ParamNames |-> "unset"]

With(p, v) == [NoParams EXCEPT ![p] = v]

Typically(op, params, req, tries) ==
  [op |-> op, params |-> params, req |-> req, tries |-> tries]

UserInputs == Near(UserInputKinds, GoodMessage(UserInputKinds), OgenClasses)
                \cup {Blanks(UserInputKinds, OgenClasses, "unset")}

CoverageGood == Fill(OneMember, "unset")

Coverages ==
  Near(CoverageKinds, CoverageGood, OgenClasses)
    \cup {Blanks(CoverageKinds, OgenClasses, "unset")}
    \cup {[CoverageGood EXCEPT ![x[1]] = "good", ![x[2]] = "good"] :
            x \in {"refId", "refSlug"} \X {"refNested", "kindCount", "refSlug"}}
    \cup {[CoverageGood EXCEPT !.refId = "unset", !.refSlug = "good"]}

Users == Near(UserKinds, GoodMessage(UserKinds), OgenClasses)

Posts == Near(CreatePostRequestKinds, GoodMessage(CreatePostRequestKinds), OgenClasses)

Event(u) == [action |-> "good", user |-> u]

Headers == {"unset", "null", "good"}

TypedCalls ==
  {Typically("createPost", NoParams, r, 1) : r \in Posts}
  \cup {Typically("createUser", With("idempotencyKey", k), r, 1) :
          k \in {"unset", "good"}, r \in UserInputs}
  \cup {Typically("deleteUser", With("id", "good"), None, 1)}
  \cup {Typically("echoCoverage", NoParams, [payload |-> r], 1) : r \in Coverages}
  \cup {Typically("getHealth", NoParams, None, 1)}
  \cup {Typically("getUser", [With("id", "good") EXCEPT !.xRequestID = x], None, 1) :
          x \in Headers}
  \cup {Typically("listUsers",
          [With("pageSize", s) EXCEPT !.pageToken = k, !.filters = f], None, 1) :
          s \in {"unset", "zero", "good", "bad"}, k, f \in {"unset", "zero", "good"}}
  \cup {Typically("uploadAvatar", NoParams, [data |-> d], 1) : d \in {"zero", "good"}}
  \cup {Typically("watchCoverage", With("topic", v), None, 1) : v \in {"zero", "good"}}
  \cup {Typically("userChangedWebhook", With("xWebhookDelivery", "good"), Event(u), 1) :
          u \in Users}

IsUsual(c) ==
  CASE c.op = "createUser" -> c.req = GoodMessage(UserInputKinds)
    [] c.op = "echoCoverage" -> c.req.payload = CoverageGood
    [] c.op = "createPost" -> c.req = GoodMessage(CreatePostRequestKinds)
    [] c.op = "userChangedWebhook" -> c.req.user = GoodMessage(UserKinds)
    [] OTHER -> TRUE

Repeated == {[c EXCEPT !.tries = 2] : c \in {d \in TypedCalls : IsUsual(d)}}

-----------------------------------------------------------------------------
(* Requests of other clients.                                              *)
Absent == [p \in ParamNames |-> "absent"]

RawPosts ==
  {Http("POST", "/v1/posts", Absent, ty, b) :
     ty \in {"multipart", "json"},
     b \in {None, Odd} \cup
           {[title |-> t, content |-> "good", thumbnail |-> n, attachments |-> f] :
              t \in {"absent", "zero", "good"}, n \in {"absent", "zero"},
              f \in {"absent", "good"}}}

RawUserInputs ==
  {Http("POST", "/v1/users", [Absent EXCEPT !.idempotencyKey = k], "json", b) :
     k \in {"absent", "good", "odd"},
     b \in {None, Odd} \cup Near(UserInputKinds, GoodMessage(UserInputKinds), WireClasses)}

RawCoverages ==
  {Http("POST", "/v1/coverage/echo", Absent, "json", b) :
     b \in {None, Odd} \cup
           {[payload |-> x] :
              x \in {None, Odd, [f \in DOMAIN CoverageKinds |-> "absent"]}
                \cup Near(CoverageKinds, Fill(OneMember, "absent"), WireClasses)
                \cup {[Fill(OneMember, "absent") EXCEPT ![f] = "good"] :
                        f \in {"refSlug", "refNested", "kindCount"}}}}

RawEvents ==
  {Http("POST", "webhook", [Absent EXCEPT !.xWebhookDelivery = d], "json", b) :
     d \in {"absent", "good", "odd"},
     b \in {None, Odd} \cup
           {[action |-> x, user |-> GoodMessage(UserKinds)] : x \in {"absent", "null", "zero", "good", "odd"}}
           \cup {Event(u) : u \in {None, Odd} \cup
                              Near(UserKinds, GoodMessage(UserKinds), WireClasses)}}

RawOthers ==
  {Http(m, p, [Absent EXCEPT !.id = i, !.xRequestID = x], "none", None) :
     m \in {"GET", "DELETE", "PUT"}, p \in {"/v1/users/{id}", "/v1/nothing"},
     i \in {"absent", "good", "odd"}, x \in {"absent", "good", "odd"}}
  \cup {Http("GET", "/v1/users", [Absent EXCEPT !.pageSize = s, !.pageToken = k], "none", None) :
     s \in {"absent", "zero", "good", "bad", "odd"}, k \in {"absent", "zero", "good"}}
  \cup {Http("GET", "/v1/coverage/watch", [Absent EXCEPT !.topic = v], "none", None) :
     v \in {"absent", "zero", "good"}}
  \cup {Http("POST", p, Absent, ty, b) :
     p \in {"/v1/avatar", "/v1/users", "/v1/coverage/echo"},
     ty \in {"none", "other"}, b \in {None, Odd}}
  \cup {Http("POST", p, Absent, "png", [data |-> v]) :
     p \in {"/v1/avatar", "/v1/users", "/v1/coverage/echo"}, v \in {"zero", "good"}}

RawCalls ==
  {[op |-> "raw", http |-> h, tries |-> 1] :
     h \in RawPosts \cup RawUserInputs \cup RawCoverages \cup RawEvents \cup RawOthers}

MCCalls == {c \in Repeated \cup TypedCalls \cup RawCalls : c.tries <= MaxTries}

-----------------------------------------------------------------------------
Ok(m) == [code |-> "OK", msg |-> m]

Error == [code |-> "NotFound", msg |-> None]

(* Errors without a status that a stream takes for its end.                *)
Quiet == {[code |-> c, msg |-> None] : c \in Unmarked \ {"OK"}}

UserReplies ==
  {Ok([user |-> u]) :
     u \in {None, Blanks(UserKinds, ProtoClasses, "nil")}
             \cup Near(UserKinds, GoodMessage(UserKinds), ProtoClasses)}

EchoReplies ==
  {Ok([payload |-> u]) :
     u \in {None, Blanks(CoverageKinds, ProtoClasses, "nil")}
             \cup Near(CoverageKinds, Fill(OneMember, "nil"), ProtoClasses)}

PageReplies ==
  {Ok([users |-> u, nextPageToken |-> t]) :
     u \in ProtoClasses(ListUsersResponseKinds, "users"), t \in {"zero", "good"}}

AllReplies(op) ==
  {Error, Ok(None)} \cup Quiet \cup
  CASE op \in {"createUser", "getUser"} -> UserReplies
    [] op = "echoCoverage" -> EchoReplies
    [] op = "listUsers" -> PageReplies
    [] op = "getHealth" -> {Ok([status |-> v]) : v \in {"zero", "good"}}
    [] OTHER -> {}

GoodReply(op) ==
  CASE op \in {"createUser", "getUser"} -> Ok([user |-> GoodMessage(UserKinds)])
    [] op = "echoCoverage" -> Ok([payload |-> Fill(OneMember, "nil")])
    [] op = "listUsers" -> Ok([users |-> "good", nextPageToken |-> "good"])
    [] op = "getHealth" -> Ok([status |-> "good"])
    [] OTHER -> Ok(None)

RawOp(h) == (CHOOSE r \in Routes \cup WebhookRoutes \cup {<<h.method, h.path, "none">>} :
               r[1] = h.method /\ r[2] = h.path)[3]

MCReplies(c) ==
  IF c.op = "raw" THEN {GoodReply(RawOp(c.http))}
  ELSE IF c.tries = 2 THEN {GoodReply(c.op), Error} \cup (IF c.op = "watchCoverage" THEN Quiet ELSE {})
  ELSE IF IsUsual(c) THEN AllReplies(c.op)
  ELSE {GoodReply(c.op)}
=============================================================================
