------------------------ MODULE GatewayContents_proofs ------------------------
(***************************************************************************)
(* TLAPS proofs about the contents of Gateway's messages: what services    *)
(* see of a request, which requests they see, and what callers get of a    *)
(* response, for any calls that the types of the program allow.            *)
(***************************************************************************)
EXTENDS Gateway_proofs, Messages_proofs

Served == Ops \ {"raw"}

-----------------------------------------------------------------------------
(* Routes *)

\* A request is for one operation at most.
LEMMA OneRoute ==
  ASSUME NEW h, NEW op, NEW other, Routed(h, op), Routed(h, other)
  PROVE  op = other
<1>. DEFINE At(m, p) ==
              CASE p = "/v1/admin/health" -> "getHealth"
                [] p = "/v1/avatar" -> "uploadAvatar"
                [] p = "/v1/coverage/echo" -> "echoCoverage"
                [] p = "/v1/coverage/watch" -> "watchCoverage"
                [] p = "/v1/posts" -> "createPost"
                [] p = "/v1/users" -> IF m = "GET" THEN "listUsers" ELSE "createUser"
                [] p = "/v1/users/{id}" -> IF m = "GET" THEN "getUser" ELSE "deleteUser"
                [] OTHER -> "userChangedWebhook"
<1>1. /\ At("GET", "/v1/admin/health") = "getHealth"
      /\ At("POST", "/v1/avatar") = "uploadAvatar"
      /\ At("POST", "/v1/coverage/echo") = "echoCoverage"
      /\ At("GET", "/v1/coverage/watch") = "watchCoverage"
      /\ At("POST", "/v1/posts") = "createPost"
      /\ At("GET", "/v1/users") = "listUsers"
      /\ At("POST", "/v1/users") = "createUser"
      /\ At("DELETE", "/v1/users/{id}") = "deleteUser"
      /\ At("GET", "/v1/users/{id}") = "getUser"
      /\ At("POST", "webhook") = "userChangedWebhook"
  OBVIOUS
<1>. HIDE DEF At
<1>2. ASSUME NEW o, Routed(h, o) PROVE o = At(h.method, h.path)
  <2>. DEFINE m == h.method  p == h.path
  <2>1. \/ m = "GET" /\ p = "/v1/admin/health" /\ o = "getHealth"
        \/ m = "POST" /\ p = "/v1/avatar" /\ o = "uploadAvatar"
        \/ m = "POST" /\ p = "/v1/coverage/echo" /\ o = "echoCoverage"
        \/ m = "GET" /\ p = "/v1/coverage/watch" /\ o = "watchCoverage"
        \/ m = "POST" /\ p = "/v1/posts" /\ o = "createPost"
        \/ m = "GET" /\ p = "/v1/users" /\ o = "listUsers"
        \/ m = "POST" /\ p = "/v1/users" /\ o = "createUser"
        \/ m = "DELETE" /\ p = "/v1/users/{id}" /\ o = "deleteUser"
        \/ m = "GET" /\ p = "/v1/users/{id}" /\ o = "getUser"
        \/ m = "POST" /\ p = "webhook" /\ o = "userChangedWebhook"
    BY <1>2 DEF Routed, Routes, WebhookRoutes
  <2>. HIDE DEF m, p
  <2>2. o = At(m, p)
    BY <1>1, <2>1
  <2>. QED
    BY <2>2 DEF m, p
<1>. QED
  BY <1>2

LEMMA RouteServed ==
  ASSUME NEW h, NEW op, Routed(h, op)
  PROVE  op \in Served
BY DEF Routed, Routes, WebhookRoutes, Served, Ops

\* What an operation's parameters have to be.
ParamsConform(op, ps) ==
  \A op_p \in RequiredParams \cup OptionalParams : op_p[1] = op =>
    /\ ps[op_p[2]] \notin {"odd", "bad"}
    /\ op_p \in RequiredParams => ps[op_p[2]] # "absent"
    /\ op_p \in NonzeroParams => ps[op_p[2]] # "zero"

LEMMA ConformsByOp ==
  ASSUME NEW h, NEW op, Routed(h, op)
  PROVE  Conforms(h) <=> BodyConforms(op, h.type, h.body) /\ ParamsConform(op, h.params)
<1>1. ASSUME NEW r \in Routes \cup WebhookRoutes, Routed(h, r[3]) PROVE r[3] = op
  BY <1>1, OneRoute
<1>2. <<h.method, h.path, op>> \in Routes \cup WebhookRoutes /\ <<h.method, h.path, op>>[3] = op
  BY DEF Routed
<1>. QED
  BY <1>1, <1>2 DEF Conforms, ParamsConform

LEMMA NoRouteConforms ==
  ASSUME NEW h, Conforms(h)
  PROVE  \E r \in Routes \cup WebhookRoutes : r[1] = h.method /\ r[2] = h.path
<1>1. PICK r \in Routes \cup WebhookRoutes : Routed(h, r[3])
  BY DEF Conforms
<1>2. <<h.method, h.path, r[3]>> \in Routes \cup WebhookRoutes
  BY <1>1 DEF Routed
<1>. QED
  BY <1>2

-----------------------------------------------------------------------------
(* What a handler passes on, and what the adapter makes of it *)

ParamsOf(op, h) ==
  CASE op = "createUser" -> decodeCreateUserParams(h)
    [] op = "deleteUser" -> decodeDeleteUserParams(h)
    [] op = "getUser" -> decodeGetUserParams(h)
    [] op = "listUsers" -> decodeListUsersParams(h)
    [] op = "watchCoverage" -> decodeWatchCoverageParams(h)
    [] op = "userChangedWebhook" -> decodeUserChangedWebhookParams(h)
    [] OTHER -> None

BodyOf(op, h) ==
  CASE op = "createPost" -> decodeCreatePostRequest(h)
    [] op = "createUser" -> decodeCreateUserRequest(h)
    [] op = "echoCoverage" -> decodeEchoCoverageRequest(h)
    [] op = "uploadAvatar" -> decodeUploadAvatarRequest(h)
    [] op = "userChangedWebhook" -> decodeUserChangedWebhookRequest(h)
    [] OTHER -> None

MessageOf(op, ps, req) ==
  CASE op = "createPost" -> CreatePostRequestFromOgen(req)
    [] op = "createUser" -> Around("user", UserInputFromOgen(req))
    [] op = "deleteUser" -> [id |-> ps.id]
    [] op = "echoCoverage" -> EchoCoverageRequestFromOgen(req)
    [] op = "getUser" -> [id |-> ps.id, requestId |-> OrNil(ps.xRequestID)]
    [] op = "listUsers" ->
         [pageSize |-> OrZero(ps.pageSize), pageToken |-> OrZero(ps.pageToken), filters |-> "nil"]
    [] op = "uploadAvatar" -> [data |-> "nil"]
    [] op = "watchCoverage" -> [topic |-> ps.topic]
    [] op = "userChangedWebhook" ->
         IF UserChangedPayloadFromOgen(req) = Failed THEN Failed
         ELSE [event |-> UserChangedPayloadFromOgen(req), deliveryId |-> ps.xWebhookDelivery]
    [] OTHER -> None

MetadataOf(op, ps) ==
  CASE op = "getUser" -> IF OrNil(ps.xRequestID) = "nil" THEN {} ELSE {"xRequestID"}
    [] op = "userChangedWebhook" -> {"xWebhookDelivery"}
    [] OTHER -> {}

\* Every handler is one of its operation's request.
LEMMA HandlingByOp ==
  ASSUME NEW a, Handling(a)
  PROVE  \/ notFound(a) \/ notAllowed(a)
         \/ \E op \in Served : Handle(a, op, ParamsOf(op, wire[a]), BodyOf(op, wire[a]))
<1>. DEFINE Goal == \E op \in Served : Handle(a, op, ParamsOf(op, wire[a]), BodyOf(op, wire[a]))
<1>1. handleCreatePostRequest(a) => Goal
  BY DEF handleCreatePostRequest, ParamsOf, BodyOf, Served, Ops
<1>2. handleCreateUserRequest(a) => Goal
  BY DEF handleCreateUserRequest, ParamsOf, BodyOf, Served, Ops
<1>3. handleDeleteUserRequest(a) => Goal
  BY DEF handleDeleteUserRequest, ParamsOf, BodyOf, Served, Ops
<1>4. handleEchoCoverageRequest(a) => Goal
  BY DEF handleEchoCoverageRequest, ParamsOf, BodyOf, Served, Ops
<1>5. handleGetHealthRequest(a) => Goal
  BY DEF handleGetHealthRequest, ParamsOf, BodyOf, Served, Ops
<1>6. handleGetUserRequest(a) => Goal
  BY DEF handleGetUserRequest, ParamsOf, BodyOf, Served, Ops
<1>7. handleListUsersRequest(a) => Goal
  BY DEF handleListUsersRequest, ParamsOf, BodyOf, Served, Ops
<1>8. handleUploadAvatarRequest(a) => Goal
  BY DEF handleUploadAvatarRequest, ParamsOf, BodyOf, Served, Ops
<1>9. handleWatchCoverageRequest(a) => Goal
  BY DEF handleWatchCoverageRequest, ParamsOf, BodyOf, Served, Ops
<1>10. handleUserChangedWebhookRequest(a) => Goal
  BY DEF handleUserChangedWebhookRequest, ParamsOf, BodyOf, Served, Ops
<1>. HIDE DEF Goal
<1>11. notFound(a) \/ notAllowed(a) \/ Goal
  BY <1>1, <1>2, <1>3, <1>4, <1>5, <1>6, <1>7, <1>8, <1>9, <1>10 DEF Handling
<1>. QED
  BY <1>11 DEF Goal

\* So is every method of the adapter.
LEMMA InvokingByOp ==
  ASSUME NEW a, Invoking(a)
  PROVE  \E op \in Served :
           Invoke(a, op, MessageOf(op, args[a].params, args[a].req), MetadataOf(op, args[a].params))
<1>. DEFINE Goal == \E op \in Served :
           Invoke(a, op, MessageOf(op, args[a].params, args[a].req), MetadataOf(op, args[a].params))
<1>1. CreatePost(a) => Goal
  BY DEF CreatePost, MessageOf, MetadataOf, Served, Ops
<1>2. CreateUser(a) => Goal
  BY DEF CreateUser, MessageOf, MetadataOf, Served, Ops
<1>3. DeleteUser(a) => Goal
  BY DEF DeleteUser, MessageOf, MetadataOf, Served, Ops
<1>4. EchoCoverage(a) => Goal
  BY DEF EchoCoverage, MessageOf, MetadataOf, Served, Ops
<1>5. GetHealth(a) => Goal
  BY DEF GetHealth, MessageOf, MetadataOf, Served, Ops
<1>6. GetUser(a) => Goal
  BY DEF GetUser, MessageOf, MetadataOf, Served, Ops
<1>7. ListUsers(a) => Goal
  BY DEF ListUsers, MessageOf, MetadataOf, Served, Ops
<1>8. UploadAvatar(a) => Goal
  BY DEF UploadAvatar, MessageOf, MetadataOf, Served, Ops
<1>9. WatchCoverage(a) => Goal
  BY DEF WatchCoverage, MessageOf, MetadataOf, Served, Ops
<1>10. UserChangedWebhook(a) => Goal
  BY DEF UserChangedWebhook, MessageOf, MetadataOf, Served, Ops
<1>. HIDE DEF Goal
<1>11. Goal
  BY <1>1, <1>2, <1>3, <1>4, <1>5, <1>6, <1>7, <1>8, <1>9, <1>10 DEF Invoking
<1>. QED
  BY <1>11 DEF Goal

-----------------------------------------------------------------------------
(* Parameters *)

LEMMA ParamPairs ==
  ASSUME NEW op, NEW ps
  PROVE  ParamsConform(op, ps) <=>
           /\ op = "deleteUser" => ps["id"] \notin {"odd", "bad", "absent"}
           /\ op = "getUser" => /\ ps["id"] \notin {"odd", "bad", "absent"}
                                /\ ps["xRequestID"] \notin {"odd", "bad"}
           /\ op = "watchCoverage" => ps["topic"] \notin {"odd", "bad", "absent"}
           /\ op = "userChangedWebhook" => ps["xWebhookDelivery"] \notin {"odd", "bad", "absent"}
           /\ op = "createUser" => ps["idempotencyKey"] \notin {"odd", "bad"}
           /\ op = "listUsers" => /\ ps["pageSize"] \notin {"odd", "bad", "zero"}
                                  /\ ps["pageToken"] \notin {"odd", "bad"}
                                  /\ ps["filters"] \notin {"odd", "bad"}
<1>. DEFINE Given(x) == x[1] = op => ps[x[2]] \notin {"odd", "bad", "absent"}
            Legal(x) == x[1] = op => ps[x[2]] \notin {"odd", "bad"}
            Above(x) == x[1] = op => ps[x[2]] # "zero"
<1>1. RequiredParams \cap OptionalParams = {} /\ NonzeroParams \subseteq OptionalParams
  BY DEF RequiredParams, OptionalParams, NonzeroParams
<1>2. ParamsConform(op, ps) <=>
        /\ \A x \in RequiredParams : Given(x)
        /\ \A x \in OptionalParams : Legal(x)
        /\ \A x \in NonzeroParams : Above(x)
  BY <1>1 DEF ParamsConform
<1>. HIDE DEF Given, Legal, Above
<1>3. (\A x \in RequiredParams : Given(x)) <=>
        /\ Given(<<"deleteUser", "id">>) /\ Given(<<"getUser", "id">>)
        /\ Given(<<"watchCoverage", "topic">>)
        /\ Given(<<"userChangedWebhook", "xWebhookDelivery">>)
  BY DEF RequiredParams
<1>4. (\A x \in OptionalParams : Legal(x)) <=>
        /\ Legal(<<"createUser", "idempotencyKey">>) /\ Legal(<<"getUser", "xRequestID">>)
        /\ Legal(<<"listUsers", "pageSize">>) /\ Legal(<<"listUsers", "pageToken">>)
        /\ Legal(<<"listUsers", "filters">>)
  BY DEF OptionalParams
<1>5. (\A x \in NonzeroParams : Above(x)) <=> Above(<<"listUsers", "pageSize">>)
  BY DEF NonzeroParams
<1>. QED
  BY <1>2, <1>3, <1>4, <1>5 DEF Given, Legal, Above

-----------------------------------------------------------------------------
(* What the service sees *)

Sees(h, x, ps, msg, md) ==
  /\ SameBody(h, x, msg)
  /\ \A pf \in ParamFields : Routed(h, pf[1]) => Same(ParamKind(pf[2]), ps[pf[2]], msg[pf[3]])
  /\ Routed(h, "getUser") => (("xRequestID" \in md) <=> ~Blank("presence", ps["xRequestID"]))
  /\ Routed(h, "userChangedWebhook") => "xWebhookDelivery" \in md

\* The same for the one operation that a request is for.
Says(op, x, ps, msg, md) ==
  /\ op = "createPost" => SameMessage(CreatePostRequestKinds, x, msg)
  /\ op = "createUser" => SameMessage(UserInputKinds, x, msg.user)
  /\ op = "echoCoverage" =>
       (OneOfEach(x.payload) => SameMessage(CoverageKinds, x.payload, msg.payload))
  /\ op = "userChangedWebhook" =>
       /\ x.action = msg.event.action
       /\ SameMessage(UserKinds, x.user, msg.event.user)
       /\ Same("opt", ps["xWebhookDelivery"], msg["deliveryId"])
       /\ "xWebhookDelivery" \in md
  /\ op = "deleteUser" => Same("opt", ps["id"], msg["id"])
  /\ op = "getUser" =>
       /\ Same("opt", ps["id"], msg["id"])
       /\ Same("presence", ps["xRequestID"], msg["requestId"])
       /\ ("xRequestID" \in md) <=> ~Blank("presence", ps["xRequestID"])
  /\ op = "listUsers" =>
       /\ Same("opt", ps["pageSize"], msg["pageSize"])
       /\ Same("opt", ps["pageToken"], msg["pageToken"])
  /\ op = "watchCoverage" => Same("opt", ps["topic"], msg["topic"])

LEMMA SeesByOp ==
  ASSUME NEW h, NEW op, Routed(h, op), NEW x, NEW ps, NEW msg, NEW md, Says(op, x, ps, msg, md)
  PROVE  Sees(h, x, ps, msg, md)
<1>1. \A o : Routed(h, o) => o = op
  BY OneRoute
<1>2. SameBody(h, x, msg)
  BY <1>1 DEF SameBody, Says
<1>3. \A pf \in ParamFields : Routed(h, pf[1]) => Same(ParamKind(pf[2]), ps[pf[2]], msg[pf[3]])
  <2>. DEFINE P(pf) == pf[1] = op => Same(ParamKind(pf[2]), ps[pf[2]], msg[pf[3]])
  <2>1. /\ ParamKind("id") = "opt" /\ ParamKind("pageSize") = "opt" /\ ParamKind("pageToken") = "opt"
        /\ ParamKind("topic") = "opt" /\ ParamKind("xWebhookDelivery") = "opt"
        /\ ParamKind("xRequestID") = "presence"
    BY DEF ParamKind
  <2>2. /\ P(<<"deleteUser", "id", "id">>) /\ P(<<"getUser", "id", "id">>)
        /\ P(<<"getUser", "xRequestID", "requestId">>)
    BY <2>1 DEF Says
  <2>3. /\ P(<<"listUsers", "pageSize", "pageSize">>) /\ P(<<"listUsers", "pageToken", "pageToken">>)
        /\ P(<<"watchCoverage", "topic", "topic">>)
    BY <2>1 DEF Says
  <2>4. P(<<"userChangedWebhook", "xWebhookDelivery", "deliveryId">>)
    BY <2>1 DEF Says
  <2>. HIDE DEF P
  <2>5. \A pf \in ParamFields : P(pf)
    BY <2>2, <2>3, <2>4 DEF ParamFields
  <2>. QED
    BY <1>1, <2>5 DEF P
<1>4. /\ Routed(h, "getUser") => (("xRequestID" \in md) <=> ~Blank("presence", ps["xRequestID"]))
      /\ Routed(h, "userChangedWebhook") => "xWebhookDelivery" \in md
  BY <1>1 DEF Says
<1>. QED
  BY <1>2, <1>3, <1>4 DEF Sees

\* A request as HTTP can have it.
WireOK(h) ==
  /\ \A p \in ParamNames : h.params[p] \in WireParam(p)
  /\ \A op \in Ops : Routed(h, op) /\ h.type = ContentType(op) => h.body \in WireBodies(op)

Accepts(op, h) ==
  /\ ParamsOf(op, h) # Failed
  /\ BodyOf(op, h) \notin {Failed, Unsupported}
  /\ MessageOf(op, ParamsOf(op, h), BodyOf(op, h)) # Failed

Received(op, h) ==
  Says(op, h.body, h.params, MessageOf(op, ParamsOf(op, h), BodyOf(op, h)),
       MetadataOf(op, ParamsOf(op, h)))

\* Arguments are no errors.
LEMMA NoArgument ==
  ASSUME NEW m \in {Failed, Unsupported}
  PROVE  /\ m # None
         /\ m \notin Structs(CreatePostRequestKinds) /\ m \notin Structs(UserInputKinds)
         /\ m \notin [payload: Structs(CoverageKinds)]
         /\ m \notin [action: Classes, user: Structs(UserKinds)]
         /\ m \notin [idempotencyKey: Classes] /\ m \notin [id: Classes]
         /\ m \notin [id: Classes, xRequestID: Classes]
         /\ m \notin [id: Classes, requestId: Classes]
         /\ m \notin [pageSize: Classes, pageToken: Classes, filters: Classes]
         /\ m \notin [topic: Classes] /\ m \notin [xWebhookDelivery: Classes]
         /\ m \notin [data: Classes] /\ m \notin [user: Structs(UserInputKinds)]
         /\ m \notin [event: [action: Classes, user: Structs(UserKinds)], deliveryId: Classes]
BY ContentsAssumption DEF IsNoArgument, IsNoMessage

LEMMA WireParams ==
  ASSUME NEW h, WireOK(h), NEW p \in ParamNames
  PROVE  /\ h.params[p] \in {"absent", "zero", "good", "bad", "odd"}
         /\ h.params[p] = "bad" => p = "pageSize"
         /\ h.params[p] = "odd" => p \notin {"pageToken", "topic", "filters"}
<1>1. h.params[p] \in WireParam(p)
  BY DEF WireOK
<1>. QED
  BY <1>1 DEF WireParam

LEMMA DecodedParam ==
  ASSUME NEW c \in {"absent", "zero", "good", "bad", "odd"}
  PROVE  /\ Decoded(c) \in Classes /\ OrNil(Decoded(c)) \in Classes /\ OrZero(Decoded(c)) \in Classes
         /\ Same("opt", c, OrZero(Decoded(c))) /\ Same("presence", c, OrNil(Decoded(c)))
         /\ OrNil(Decoded(c)) = "nil" <=> Blank("presence", c)
BY DEF Decoded, OrNil, OrZero, Classes, Same, Blank, HasPresence, Nullable

\* A body is checked when it is decoded and valid.
LEMMA CheckedBody ==
  ASSUME NEW h, NEW type, type # "none", NEW v, v # Unsupported
  PROVE  /\ Typed(h, type, v) \notin {Failed, Unsupported} <=> h.type = type /\ v # Failed
         /\ h.type = type => Typed(h, type, v) = v
BY DEF Typed

-----------------------------------------------------------------------------
(* Each operation: the service is called when the request is as the        *)
(* document has it, and sees what the request says.                        *)

LEMMA ServesCreatePost ==
  ASSUME NEW h, WireOK(h), Routed(h, "createPost")
  PROVE  /\ Accepts("createPost", h) <=> Conforms(h)
         /\ Accepts("createPost", h) => Received("createPost", h)
<1>. DEFINE v == CreatePostRequestDecode(h.body)
            m == CreatePostRequestFromOgen(v)
            body == BodyOf("createPost", h)
<1>1. body = Typed(h, "multipart", v) /\ ParamsOf("createPost", h) = None
      /\ \A req : MessageOf("createPost", None, req) = CreatePostRequestFromOgen(req)
  BY DEF BodyOf, decodeCreatePostRequest, ParamsOf, MessageOf
<1>2. Conforms(h) <=> h.type = "multipart" /\ FieldsConform(CreatePostRequestKinds, {}, h.body)
  BY ConformsByOp, ParamPairs DEF BodyConforms
<1>3. CASE h.type # "multipart"
  <2>1. body \in {Failed, Unsupported}
    BY <1>1, <1>3 DEF Typed
  <2>. QED
    BY <1>2, <1>3, <2>1 DEF Accepts
<1>4. CASE h.type = "multipart"
  <2>1. h.body \in {None, Odd} \cup WireMessages(CreatePostRequestKinds, {})
    BY <1>4 DEF WireOK, ContentType, WireBodies, Ops
  <2>2. body = v
    BY <1>1, <1>4 DEF Typed
  <2>3. /\ v # Failed /\ m # Failed <=> FieldsConform(CreatePostRequestKinds, {}, h.body)
        /\ v # Failed /\ m # Failed => /\ v \in Structs(CreatePostRequestKinds)
                                       /\ SameMessage(CreatePostRequestKinds, h.body, m)
    BY <2>1, CreatePostReceived
  <2>. HIDE DEF v, body
  <2>4. Accepts("createPost", h) <=> v # Failed /\ m # Failed
    BY <1>1, <2>2, <2>3, NoArgument DEF Accepts, body
  <2>5. Accepts("createPost", h) => Received("createPost", h)
    BY <1>1, <2>2, <2>3, <2>4 DEF Received, Says, body
  <2>. QED
    BY <1>2, <1>4, <2>3, <2>4, <2>5
<1>. QED
  BY <1>3, <1>4

LEMMA ServesCreateUser ==
  ASSUME NEW h, WireOK(h), Routed(h, "createUser")
  PROVE  /\ Accepts("createUser", h) <=> Conforms(h)
         /\ Accepts("createUser", h) => Received("createUser", h)
<1>. DEFINE v == UserInputDecode(h.body)
            u == UserInputFromOgen(v)
            c == Checked(v, UserInputValidate)
            body == BodyOf("createUser", h)
            key == h.params["idempotencyKey"]
            ps == ParamsOf("createUser", h)
<1>1. /\ body = Typed(h, "json", c)
      /\ \A p, req : MessageOf("createUser", p, req) = Around("user", UserInputFromOgen(req))
      /\ ps = IF ~ParamOk(key, FALSE) THEN Failed ELSE [idempotencyKey |-> Decoded(key)]
  BY DEF BodyOf, decodeCreateUserRequest, ParamsOf, MessageOf, decodeCreateUserParams
<1>2. Conforms(h) <=>
        /\ h.type = "json" /\ FieldsConform(UserInputKinds, {"email", "displayName", "roles"}, h.body)
        /\ key \notin {"odd", "bad"}
  BY ConformsByOp, ParamPairs DEF BodyConforms
<1>3. ps # Failed <=> key \notin {"odd", "bad"}
  <2>1. key \in {"absent", "zero", "good", "odd"}
    BY WireParams DEF ParamNames
  <2>2. [idempotencyKey |-> Decoded(key)] \in [idempotencyKey: Classes]
    BY <2>1, DecodedParam
  <2>. QED
    BY <1>1, <2>1, <2>2, NoArgument DEF ParamOk
<1>4. CASE h.type # "json"
  <2>1. body \in {Failed, Unsupported}
    BY <1>1, <1>4 DEF Typed
  <2>. QED
    BY <1>2, <1>4, <2>1 DEF Accepts
<1>5. CASE h.type = "json"
  <2>1. h.body \in {None, Odd} \cup WireMessages(UserInputKinds, UserInputRules)
    BY <1>5 DEF WireOK, ContentType, WireBodies, Ops
  <2>2. body = c
    BY <1>1, <1>5 DEF Typed
  <2>3. /\ FieldsConform(UserInputKinds, {"email", "displayName", "roles"}, h.body) <=>
             v # Failed /\ UserInputValidate(v) /\ u # Failed
        /\ v # Failed /\ u # Failed => SameMessage(UserInputKinds, h.body, u)
    BY <2>1, UserInputReceived
  <2>4. v # Failed => v \in Structs(UserInputKinds)
    BY <2>1, WireClasses, Forms, NoMessageDecoded DEF UserInputDecode
  <2>5. v # Failed /\ u # Failed => u \in Structs(UserInputKinds)
    BY <2>4, Forms DEF UserInputFromOgen
  <2>. HIDE DEF v
  <2>6. c = IF v # Failed /\ UserInputValidate(v) THEN v ELSE Failed
    BY DEF Checked
  <2>. HIDE DEF c, body, ps
  <2>7. CASE v # Failed /\ UserInputValidate(v)
    <3>1. body = v /\ body \notin {Failed, Unsupported}
      BY <2>2, <2>4, <2>6, <2>7, NoArgument
    <3>2. MessageOf("createUser", ps, body) = Around("user", u)
      BY <1>1, <3>1
    <3>. HIDE DEF u
    <3>3. u = Failed => MessageOf("createUser", ps, body) = Failed
      BY <3>2 DEF Around
    <3>4. u # Failed => MessageOf("createUser", ps, body) = [user |-> u]
      BY <3>2 DEF Around
    <3>5. u # Failed => [user |-> u] # Failed
      BY <2>5, <2>7, NoArgument
    <3>6. Accepts("createUser", h) <=> ps # Failed /\ u # Failed
      BY <3>1, <3>3, <3>4, <3>5 DEF Accepts, body, ps
    <3>7. u # Failed => Received("createUser", h)
      BY <2>3, <2>7, <3>4 DEF Received, Says, body, ps
    <3>. QED
      BY <1>2, <1>3, <1>5, <2>3, <2>7, <3>6, <3>7
  <2>8. CASE ~(v # Failed /\ UserInputValidate(v))
    BY <1>2, <2>2, <2>3, <2>6, <2>8 DEF Accepts, body
  <2>. QED
    BY <2>7, <2>8
<1>. QED
  BY <1>4, <1>5

LEMMA ServesDeleteUser ==
  ASSUME NEW h, WireOK(h), Routed(h, "deleteUser")
  PROVE  /\ Accepts("deleteUser", h) <=> Conforms(h)
         /\ Accepts("deleteUser", h) => Received("deleteUser", h)
<1>. DEFINE id == h.params["id"]
            ps == ParamsOf("deleteUser", h)
<1>1. /\ BodyOf("deleteUser", h) = None
      /\ \A p : MessageOf("deleteUser", p, None) = [id |-> p.id] /\ MetadataOf("deleteUser", p) = {}
      /\ ps = IF ~ParamOk(id, TRUE) THEN Failed ELSE [id |-> id]
  BY DEF BodyOf, ParamsOf, MessageOf, MetadataOf, decodeDeleteUserParams
<1>2. Conforms(h) <=> id \notin {"odd", "bad", "absent"}
  BY ConformsByOp, ParamPairs DEF BodyConforms
<1>3. id \in {"absent", "zero", "good", "odd"}
  BY WireParams DEF ParamNames
<1>4. [id |-> id] \in [id: Classes]
  BY <1>3 DEF Classes
<1>. HIDE DEF ps, id
<1>5. Accepts("deleteUser", h) <=> ParamOk(id, TRUE)
  BY <1>1, <1>4, NoArgument DEF Accepts, ps
<1>6. ParamOk(id, TRUE) <=> id \notin {"odd", "bad", "absent"}
  BY <1>3 DEF ParamOk
<1>7. ParamOk(id, TRUE) => MessageOf("deleteUser", ps, None) = [id |-> id]
  BY <1>1
<1>8. ParamOk(id, TRUE) => Received("deleteUser", h)
  BY <1>1, <1>7 DEF Received, Says, ps, id, Same
<1>. QED
  BY <1>2, <1>5, <1>6, <1>8

LEMMA ServesEchoCoverage ==
  ASSUME NEW h, WireOK(h), Routed(h, "echoCoverage")
  PROVE  /\ Accepts("echoCoverage", h) <=> Conforms(h)
         /\ Accepts("echoCoverage", h) => Received("echoCoverage", h)
<1>. DEFINE v == EchoCoverageRequestDecode(h.body)
            m == EchoCoverageRequestFromOgen(v)
            c == Checked(v, EchoCoverageRequestValidate)
            body == BodyOf("echoCoverage", h)
<1>1. /\ body = Typed(h, "json", c) /\ ParamsOf("echoCoverage", h) = None
      /\ \A req : MessageOf("echoCoverage", None, req) = EchoCoverageRequestFromOgen(req)
  BY DEF BodyOf, decodeEchoCoverageRequest, ParamsOf, MessageOf
<1>2. Conforms(h) <=> /\ h.type = "json" /\ h.body \notin {None, Odd}
                      /\ FieldsConform(CoverageKinds, {}, h.body.payload)
  BY ConformsByOp, ParamPairs DEF BodyConforms
<1>3. CASE h.type # "json"
  <2>1. body \in {Failed, Unsupported}
    BY <1>1, <1>3 DEF Typed
  <2>. QED
    BY <1>2, <1>3, <2>1 DEF Accepts
<1>4. CASE h.type = "json"
  <2>1. h.body \in {None, Odd} \cup
          [payload: {None, Odd} \cup WireMessages(CoverageKinds, CoverageRules)]
    BY <1>4 DEF WireOK, ContentType, WireBodies, Ops
  <2>2. body = c
    BY <1>1, <1>4 DEF Typed
  <2>3. /\ v # Failed /\ EchoCoverageRequestValidate(v) /\ m # Failed <=>
             h.body \notin {None, Odd} /\ FieldsConform(CoverageKinds, {}, h.body.payload)
        /\ v # Failed /\ EchoCoverageRequestValidate(v) /\ m # Failed =>
             /\ v \in [payload: Structs(CoverageKinds)]
             /\ OneOfEach(h.body.payload) =>
                  SameMessage(CoverageKinds, h.body.payload, m.payload)
    BY <2>1, EchoCoverageReceived
  <2>. HIDE DEF v
  <2>4. c = IF v # Failed /\ EchoCoverageRequestValidate(v) THEN v ELSE Failed
    BY DEF Checked
  <2>. HIDE DEF c, body
  <2>5. Accepts("echoCoverage", h) <=> v # Failed /\ EchoCoverageRequestValidate(v) /\ m # Failed
    <3>1. c # Failed => c = v
      BY <2>4
    <3>2. v # Failed /\ EchoCoverageRequestValidate(v) /\ m # Failed => v \notin {Failed, Unsupported}
      BY <2>3, NoArgument
    <3>. QED
      BY <1>1, <2>2, <2>4, <3>1, <3>2, NoArgument DEF Accepts, body
  <2>6. Accepts("echoCoverage", h) => Received("echoCoverage", h)
    BY <1>1, <2>2, <2>3, <2>4, <2>5 DEF Received, Says, body
  <2>. QED
    BY <1>2, <1>4, <2>3, <2>5, <2>6
<1>. QED
  BY <1>3, <1>4

LEMMA ServesGetHealth ==
  ASSUME NEW h, WireOK(h), Routed(h, "getHealth")
  PROVE  /\ Accepts("getHealth", h) <=> Conforms(h)
         /\ Accepts("getHealth", h) => Received("getHealth", h)
<1>1. /\ BodyOf("getHealth", h) = None /\ ParamsOf("getHealth", h) = None
      /\ \A p : MessageOf("getHealth", p, None) = None
  BY DEF BodyOf, ParamsOf, MessageOf
<1>2. Conforms(h)
  BY ConformsByOp, ParamPairs DEF BodyConforms
<1>3. Accepts("getHealth", h)
  BY <1>1, NoArgument DEF Accepts
<1>4. Received("getHealth", h)
  BY DEF Received, Says
<1>. QED
  BY <1>2, <1>3, <1>4

LEMMA ServesGetUser ==
  ASSUME NEW h, WireOK(h), Routed(h, "getUser")
  PROVE  /\ Accepts("getUser", h) <=> Conforms(h)
         /\ Accepts("getUser", h) => Received("getUser", h)
<1>. DEFINE id == h.params["id"]
            x == h.params["xRequestID"]
            ps == ParamsOf("getUser", h)
<1>1. /\ BodyOf("getUser", h) = None
      /\ \A p : MessageOf("getUser", p, None) = [id |-> p.id, requestId |-> OrNil(p.xRequestID)]
      /\ \A p : MetadataOf("getUser", p) = IF OrNil(p.xRequestID) = "nil" THEN {} ELSE {"xRequestID"}
      /\ ps = IF ~ParamOk(id, TRUE) \/ ~ParamOk(x, FALSE) THEN Failed
              ELSE [id |-> id, xRequestID |-> Decoded(x)]
  BY DEF BodyOf, ParamsOf, MessageOf, MetadataOf, decodeGetUserParams
<1>2. Conforms(h) <=> id \notin {"odd", "bad", "absent"} /\ x \notin {"odd", "bad"}
  BY ConformsByOp, ParamPairs DEF BodyConforms
<1>3. id \in {"absent", "zero", "good", "odd"} /\ x \in {"absent", "zero", "good", "odd"}
  BY WireParams DEF ParamNames
<1>4. ParamOk(id, TRUE) /\ ParamOk(x, FALSE) <=>
        id \notin {"odd", "bad", "absent"} /\ x \notin {"odd", "bad"}
  BY <1>3 DEF ParamOk
<1>5. /\ Decoded(x) \in Classes /\ OrNil(Decoded(x)) \in Classes /\ id \in Classes
      /\ Same("presence", x, OrNil(Decoded(x)))
      /\ OrNil(Decoded(x)) = "nil" <=> Blank("presence", x)
  BY <1>3, DecodedParam DEF Classes
<1>. HIDE DEF ps, id, x
<1>6. CASE ParamOk(id, TRUE) /\ ParamOk(x, FALSE)
  <2>1. ps = [id |-> id, xRequestID |-> Decoded(x)]
    BY <1>1, <1>6
  <2>2. ps \in [id: Classes, xRequestID: Classes] /\ ps.id = id /\ ps.xRequestID = Decoded(x)
    BY <1>5, <2>1
  <2>3. MessageOf("getUser", ps, None) = [id |-> id, requestId |-> OrNil(Decoded(x))]
    BY <1>1, <2>2
  <2>4. MessageOf("getUser", ps, None) \in [id: Classes, requestId: Classes]
    BY <1>5, <2>3
  <2>5. Accepts("getUser", h)
    BY <1>1, <2>2, <2>4, NoArgument DEF Accepts, ps
  <2>. DEFINE msg == MessageOf("getUser", ps, None)
              md == MetadataOf("getUser", ps)
  <2>6a. msg["id"] = id /\ msg["requestId"] = OrNil(Decoded(x))
    BY <2>3
  <2>6b. md = IF OrNil(ps.xRequestID) = "nil" THEN {} ELSE {"xRequestID"}
    BY <1>1
  <2>6. /\ msg["id"] = id /\ msg["requestId"] = OrNil(Decoded(x))
        /\ md = IF OrNil(Decoded(x)) = "nil" THEN {} ELSE {"xRequestID"}
    BY <2>2, <2>6a, <2>6b
  <2>. HIDE DEF msg, md
  <2>7. /\ Same("opt", id, msg["id"]) /\ Same("presence", x, msg["requestId"])
        /\ ("xRequestID" \in md) <=> ~Blank("presence", x)
    BY <1>5, <2>6 DEF Same
  <2>8. Received("getUser", h)
    BY <1>1, <2>7 DEF Received, Says, msg, md, ps, id, x
  <2>. QED
    BY <1>2, <1>4, <1>6, <2>5, <2>8
<1>7. CASE ~(ParamOk(id, TRUE) /\ ParamOk(x, FALSE))
  BY <1>1, <1>2, <1>4, <1>7 DEF Accepts, ps
<1>. QED
  BY <1>6, <1>7

LEMMA ServesListUsers ==
  ASSUME NEW h, WireOK(h), Routed(h, "listUsers")
  PROVE  /\ Accepts("listUsers", h) <=> Conforms(h)
         /\ Accepts("listUsers", h) => Received("listUsers", h)
<1>. DEFINE s == h.params["pageSize"]
            t == h.params["pageToken"]
            f == h.params["filters"]
            ps == ParamsOf("listUsers", h)
<1>1. /\ BodyOf("listUsers", h) = None
      /\ \A p : MessageOf("listUsers", p, None) =
                  [pageSize |-> OrZero(p.pageSize), pageToken |-> OrZero(p.pageToken),
                   filters |-> "nil"]
      /\ ps = IF s \in {"odd", "bad", "zero"} THEN Failed
              ELSE [pageSize |-> Decoded(s), pageToken |-> Decoded(t), filters |-> Decoded(f)]
  BY DEF BodyOf, ParamsOf, MessageOf, decodeListUsersParams
<1>2. /\ s \in {"absent", "zero", "good", "bad", "odd"}
      /\ t \in {"absent", "zero", "good"} /\ f \in {"absent", "zero", "good"}
  BY WireParams DEF ParamNames
<1>3. Conforms(h) <=> s \notin {"odd", "bad", "zero"}
  BY <1>2, ConformsByOp, ParamPairs DEF BodyConforms
<1>4. /\ Decoded(s) \in Classes /\ OrZero(Decoded(s)) \in Classes
      /\ Decoded(t) \in Classes /\ OrZero(Decoded(t)) \in Classes /\ Decoded(f) \in Classes
      /\ Same("opt", s, OrZero(Decoded(s))) /\ Same("opt", t, OrZero(Decoded(t)))
  BY <1>2, DecodedParam
<1>. HIDE DEF ps, s, t, f
<1>5. CASE s \notin {"odd", "bad", "zero"}
  <2>1. ps = [pageSize |-> Decoded(s), pageToken |-> Decoded(t), filters |-> Decoded(f)]
    BY <1>1, <1>5
  <2>2. /\ ps \in [pageSize: Classes, pageToken: Classes, filters: Classes]
        /\ ps.pageSize = Decoded(s) /\ ps.pageToken = Decoded(t)
    BY <1>4, <2>1
  <2>. DEFINE msg == MessageOf("listUsers", ps, None)
  <2>3. msg = [pageSize |-> OrZero(Decoded(s)), pageToken |-> OrZero(Decoded(t)), filters |-> "nil"]
    BY <1>1, <2>2
  <2>. HIDE DEF msg
  <2>4. /\ msg \in [pageSize: Classes, pageToken: Classes, filters: Classes]
        /\ msg["pageSize"] = OrZero(Decoded(s)) /\ msg["pageToken"] = OrZero(Decoded(t))
    BY <1>4, <2>3 DEF Classes
  <2>5. Accepts("listUsers", h)
    BY <1>1, <2>2, <2>4, NoArgument DEF Accepts, ps, msg
  <2>6. Received("listUsers", h)
    BY <1>1, <1>4, <2>4 DEF Received, Says, msg, ps, s, t
  <2>. QED
    BY <1>3, <1>5, <2>5, <2>6
<1>6. CASE s \in {"odd", "bad", "zero"}
  BY <1>1, <1>3, <1>6 DEF Accepts, ps
<1>. QED
  BY <1>5, <1>6

LEMMA ServesUploadAvatar ==
  ASSUME NEW h, WireOK(h), Routed(h, "uploadAvatar")
  PROVE  /\ Accepts("uploadAvatar", h) <=> Conforms(h)
         /\ Accepts("uploadAvatar", h) => Received("uploadAvatar", h)
<1>1. /\ BodyOf("uploadAvatar", h) = Typed(h, "png", h.body) /\ ParamsOf("uploadAvatar", h) = None
      /\ \A req : MessageOf("uploadAvatar", None, req) = [data |-> "nil"]
  BY DEF BodyOf, decodeUploadAvatarRequest, ParamsOf, MessageOf
<1>2. Conforms(h) <=> h.type = "png"
  BY ConformsByOp, ParamPairs DEF BodyConforms
<1>3. [data |-> "nil"] \in [data: Classes]
  BY DEF Classes
<1>4. CASE h.type = "png"
  <2>1. h.body \in [data: {"zero", "good"}]
    BY <1>4 DEF WireOK, ContentType, WireBodies, Ops
  <2>2. h.body \in [data: Classes]
    BY <2>1 DEF Classes
  <2>3. Accepts("uploadAvatar", h)
    BY <1>1, <1>3, <1>4, <2>2, NoArgument DEF Accepts, Typed
  <2>. QED
    BY <1>2, <1>4, <2>3 DEF Received, Says
<1>5. CASE h.type # "png"
  BY <1>1, <1>2, <1>5 DEF Accepts, Typed
<1>. QED
  BY <1>4, <1>5

LEMMA ServesWatchCoverage ==
  ASSUME NEW h, WireOK(h), Routed(h, "watchCoverage")
  PROVE  /\ Accepts("watchCoverage", h) <=> Conforms(h)
         /\ Accepts("watchCoverage", h) => Received("watchCoverage", h)
<1>. DEFINE t == h.params["topic"]
            ps == ParamsOf("watchCoverage", h)
<1>1. /\ BodyOf("watchCoverage", h) = None
      /\ \A p : MessageOf("watchCoverage", p, None) = [topic |-> p.topic]
      /\ ps = IF ~ParamOk(t, TRUE) THEN Failed ELSE [topic |-> t]
  BY DEF BodyOf, ParamsOf, MessageOf, decodeWatchCoverageParams
<1>2. Conforms(h) <=> t \notin {"odd", "bad", "absent"}
  BY ConformsByOp, ParamPairs DEF BodyConforms
<1>3. t \in {"absent", "zero", "good"}
  BY WireParams DEF ParamNames
<1>4. [topic |-> t] \in [topic: Classes]
  BY <1>3 DEF Classes
<1>. HIDE DEF ps, t
<1>5. Accepts("watchCoverage", h) <=> ParamOk(t, TRUE)
  BY <1>1, <1>4, NoArgument DEF Accepts, ps
<1>6. ParamOk(t, TRUE) <=> t \notin {"odd", "bad", "absent"}
  BY <1>3 DEF ParamOk
<1>7. ParamOk(t, TRUE) => MessageOf("watchCoverage", ps, None) = [topic |-> t]
  BY <1>1
<1>8. ParamOk(t, TRUE) => Received("watchCoverage", h)
  BY <1>1, <1>7 DEF Received, Says, ps, t, Same
<1>. QED
  BY <1>2, <1>5, <1>6, <1>8

LEMMA ServesUserChanged ==
  ASSUME NEW h, WireOK(h), Routed(h, "userChangedWebhook")
  PROVE  /\ Accepts("userChangedWebhook", h) <=> Conforms(h)
         /\ Accepts("userChangedWebhook", h) => Received("userChangedWebhook", h)
<1>. DEFINE v == UserChangedPayloadDecode(h.body)
            m == UserChangedPayloadFromOgen(v)
            c == Checked(v, UserChangedPayloadValidate)
            body == BodyOf("userChangedWebhook", h)
            d == h.params["xWebhookDelivery"]
            ps == ParamsOf("userChangedWebhook", h)
            msg == MessageOf("userChangedWebhook", ps, body)
<1>1. /\ body = Typed(h, "json", c)
      /\ \A p, req : MessageOf("userChangedWebhook", p, req) =
           IF UserChangedPayloadFromOgen(req) = Failed THEN Failed
           ELSE [event |-> UserChangedPayloadFromOgen(req), deliveryId |-> p.xWebhookDelivery]
      /\ \A p : MetadataOf("userChangedWebhook", p) = {"xWebhookDelivery"}
      /\ ps = IF ~ParamOk(d, TRUE) THEN Failed ELSE [xWebhookDelivery |-> d]
  BY DEF BodyOf, decodeUserChangedWebhookRequest, ParamsOf, MessageOf, MetadataOf,
         decodeUserChangedWebhookParams
<1>2. Conforms(h) <=> /\ h.type = "json" /\ h.body \notin {None, Odd}
                      /\ h.body.action \notin {"absent", "null", "odd"}
                      /\ FieldsConform(UserKinds, {"email"}, h.body.user)
                      /\ d \notin {"odd", "bad", "absent"}
  BY ConformsByOp, ParamPairs DEF BodyConforms
<1>3. d \in {"absent", "zero", "good", "odd"}
  BY WireParams DEF ParamNames
<1>4. ParamOk(d, TRUE) <=> d \notin {"odd", "bad", "absent"}
  BY <1>3 DEF ParamOk
<1>5. d \in Classes /\ [xWebhookDelivery |-> d] \in [xWebhookDelivery: Classes]
  BY <1>3 DEF Classes
<1>6. ps # Failed <=> ParamOk(d, TRUE)
  BY <1>1, <1>5, NoArgument
<1>7. CASE h.type # "json"
  <2>1. body \in {Failed, Unsupported}
    BY <1>1, <1>7 DEF Typed
  <2>. QED
    BY <1>2, <1>7, <2>1 DEF Accepts
<1>8. CASE h.type = "json"
  <2>1. h.body \in {None, Odd} \cup
          [action: {"absent", "null", "zero", "good", "odd"},
           user: {None, Odd} \cup WireMessages(UserKinds, UserRules)]
    BY <1>8 DEF WireOK, ContentType, WireBodies, Ops
  <2>2. body = c
    BY <1>1, <1>8 DEF Typed
  <2>3. /\ v # Failed /\ UserChangedPayloadValidate(v) /\ m # Failed <=>
             /\ h.body \notin {None, Odd} /\ h.body.action \notin {"absent", "null", "odd"}
             /\ FieldsConform(UserKinds, {"email"}, h.body.user)
        /\ v # Failed /\ UserChangedPayloadValidate(v) /\ m # Failed =>
             /\ v \in [action: Classes, user: Structs(UserKinds)]
             /\ m \in [action: Classes, user: Structs(UserKinds)]
             /\ m.action = h.body.action /\ SameMessage(UserKinds, h.body.user, m.user)
    BY <2>1, UserChangedReceived
  <2>. HIDE DEF v
  <2>4. c = IF v # Failed /\ UserChangedPayloadValidate(v) THEN v ELSE Failed
    BY DEF Checked
  <2>. HIDE DEF c, body, ps, d
  <2>5. CASE v # Failed /\ UserChangedPayloadValidate(v) /\ m # Failed
    <3>1. body = v /\ body \notin {Failed, Unsupported}
      BY <2>2, <2>3, <2>4, <2>5, NoArgument
    <3>. HIDE DEF m
    <3>2. msg = [event |-> m, deliveryId |-> ps.xWebhookDelivery]
      BY <1>1, <2>5, <3>1 DEF m
    <3>3. CASE ParamOk(d, TRUE)
      <4>1. ps.xWebhookDelivery = d
        BY <1>1, <3>3
      <4>. HIDE DEF msg
      <4>2. /\ msg = [event |-> m, deliveryId |-> d]
            /\ msg \in [event: [action: Classes, user: Structs(UserKinds)], deliveryId: Classes]
            /\ msg.event = m /\ msg["deliveryId"] = d
        BY <1>5, <2>3, <2>5, <3>2, <4>1
      <4>3. Accepts("userChangedWebhook", h)
        BY <1>6, <3>1, <3>3, <4>2, NoArgument DEF Accepts, body, ps, msg
      <4>4. Received("userChangedWebhook", h)
        BY <1>1, <2>3, <2>5, <4>2 DEF Received, Says, body, ps, msg, d, Same
      <4>. QED
        BY <1>2, <1>4, <1>8, <2>3, <2>5, <3>3, <4>3, <4>4
    <3>4. CASE ~ParamOk(d, TRUE)
      BY <1>2, <1>4, <1>6, <3>4 DEF Accepts, ps
    <3>. QED
      BY <3>3, <3>4
  <2>6. CASE ~(v # Failed /\ UserChangedPayloadValidate(v) /\ m # Failed)
    <3>1. body = Failed \/ (body = v /\ m = Failed)
      BY <2>2, <2>4, <2>6
    <3>2. body = Failed \/ msg = Failed
      BY <1>1, <3>1
    <3>3. ~Accepts("userChangedWebhook", h)
      BY <3>2 DEF Accepts, body, msg, ps
    <3>. QED
      BY <1>2, <2>3, <2>6, <3>3
  <2>. QED
    BY <2>5, <2>6
<1>. QED
  BY <1>7, <1>8

\* Every service is called with the requests for it that conform to the
\* document, with no others, and sees what they say.
LEMMA ServesConforming ==
  ASSUME NEW h, WireOK(h), NEW op, Routed(h, op)
  PROVE  /\ Accepts(op, h) <=> Conforms(h)
         /\ Accepts(op, h) => Received(op, h)
<1>1. op \in Served
  BY RouteServed
<1>. QED
  BY <1>1, ServesCreatePost, ServesCreateUser, ServesDeleteUser, ServesEchoCoverage,
     ServesGetHealth, ServesGetUser, ServesListUsers, ServesUploadAvatar, ServesWatchCoverage,
     ServesUserChanged DEF Served, Ops

-----------------------------------------------------------------------------
(* What the typed client sends *)

\* The body and the parameters that the client encodes.
LEMMA EncodedParams ==
  ASSUME NEW c \in Calls, c.op # "raw", NEW names
  PROVE  /\ EncodeParams(c, names) \in [ParamNames -> Classes]
         /\ \A p \in ParamNames : EncodeParams(c, names)[p] \in WireParam(p)
         /\ \A p \in names \cap ParamNames : p # "filters" =>
              \/ EncodeParams(c, names)[p] = c.params[p]
              \/ c.params[p] \in {"unset", "null"} /\ EncodeParams(c, names)[p] = "absent"
<1>. DEFINE e == EncodeParams(c, names)
<1>1. \A p \in ParamNames :
        e[p] = IF p \notin names \/ c.params[p] \in {"unset", "null"} THEN "absent"
               ELSE IF p = "filters" /\ c.params[p] = "zero" THEN "absent"
               ELSE c.params[p]
  BY DEF EncodeParams
<1>2. DOMAIN e = ParamNames /\ e = [p \in ParamNames |-> e[p]]
  BY DEF EncodeParams
<1>. HIDE DEF e
<1>3. \A p \in ParamNames : c.params[p] \in ClientParam(p)
  BY ContentsAssumption DEF CallOK
<1>4. \A p \in ParamNames : e[p] \in {"absent", "zero", "good"} \/ (e[p] = "bad" /\ p = "pageSize")
  BY <1>1, <1>3 DEF ClientParam
<1>5. \A p \in ParamNames : e[p] \in WireParam(p)
  BY <1>4 DEF WireParam
<1>6. \A p \in ParamNames : e[p] \in Classes
  BY <1>4 DEF Classes
<1>7. e \in [ParamNames -> Classes]
  BY <1>2, <1>6
<1>8. \A p \in names \cap ParamNames : p # "filters" =>
        e[p] = c.params[p] \/ (c.params[p] \in {"unset", "null"} /\ e[p] = "absent")
  BY <1>1
<1>. QED
  BY <1>5, <1>7, <1>8 DEF e

LEMMA SentParamSame ==
  ASSUME NEW v, NEW w, w = v \/ (v \in {"unset", "null"} /\ w = "absent")
  PROVE  /\ \A k, z : Same(k, w, z) => Same(k, v, z)
         /\ Blank("presence", w) <=> Blank("presence", v)
<1>1. \A k : Same(k, v, w)
  BY DEF Same, Blank
<1>2. \A k, z : Same(k, w, z) => Same(k, v, z)
  BY <1>1, SameChain
<1>3. Blank("presence", w) <=> Blank("presence", v)
  BY DEF Blank, HasPresence
<1>. QED
  BY <1>2, <1>3

\* A request is no error.
LEMMA HttpForm ==
  ASSUME NEW op \in Ops, NEW method, NEW path, Routed([method |-> method, path |-> path], op),
         NEW params \in [ParamNames -> Classes], NEW type, type = ContentType(op),
         NEW body \in {None} \cup Structs(CreatePostRequestKinds) \cup Structs(UserInputKinds)
                        \cup [payload: Structs(CoverageKinds)] \cup [data: Classes]
                        \cup [action: Classes, user: Structs(UserKinds)]
  PROVE  LET h == Http(method, path, params, type, body)
         IN  /\ h # Failed /\ Routed(h, op) /\ h.params = params
             /\ h.type = ContentType(op) /\ h.body = body
<1>. DEFINE h == Http(method, path, params, type, body)
            routes == Routes \cup WebhookRoutes
            methods == {r[1] : r \in routes}
            paths == {r[2] : r \in routes}
            types == {ContentType(o) : o \in Ops}
            bodies == {None} \cup Structs(CreatePostRequestKinds) \cup Structs(UserInputKinds)
                        \cup [payload: Structs(CoverageKinds)] \cup [data: Classes]
                        \cup [action: Classes, user: Structs(UserKinds)]
<1>1. Failed \notin [method: methods, path: paths, params: [ParamNames -> Classes], type: types,
                     body: bodies]
  BY ContentsAssumption DEF IsNoArgument
<1>2. body \in bodies /\ type \in types
  OBVIOUS
<1>3. h = [method |-> method, path |-> path, params |-> params, type |-> type, body |-> body]
  BY DEF Http
<1>4. <<method, path, op>> \in routes
  BY DEF Routed
<1>. HIDE DEF bodies, h, routes, types
<1>5. method \in methods
  <2>1. <<method, path, op>>[1] = method
    OBVIOUS
  <2>. QED
    BY <1>4, <2>1
<1>6. path \in paths
  <2>1. <<method, path, op>>[2] = path
    OBVIOUS
  <2>. QED
    BY <1>4, <2>1
<1>. HIDE DEF methods, paths
<1>7. h \in [method: methods, path: paths, params: [ParamNames -> Classes], type: types,
             body: bodies]
  BY <1>2, <1>3, <1>5, <1>6
<1>8. h # Failed
  BY <1>1, <1>7
<1>9. h.method = method /\ h.path = path /\ h.params = params /\ h.type = type /\ h.body = body
  BY <1>3
<1>10. Routed(h, op)
  BY <1>4, <1>9 DEF Routed, routes
<1>. QED
  BY <1>8, <1>9, <1>10 DEF h

\* The request of a call: for its operation, as HTTP can have it, and what it
\* says the call does.
Sent(c, h) ==
  /\ h # Failed /\ Routed(h, c.op) /\ h.type = ContentType(c.op) /\ h.body \in WireBodies(c.op)
  /\ \A p \in ParamNames : h.params[p] \in WireParam(p)
  /\ \A msg, md : Says(c.op, h.body, h.params, msg, md) => Says(c.op, c.req, c.params, msg, md)

LEMMA SendsBare ==
  ASSUME NEW c \in Calls, c.op \in {"deleteUser", "getHealth", "getUser", "listUsers", "watchCoverage"}
  PROVE  Sent(c, Request(c))
<1>. DEFINE names == CASE c.op = "deleteUser" -> {"id"} [] c.op = "getHealth" -> {}
                       [] c.op = "getUser" -> {"id", "xRequestID"}
                       [] c.op = "listUsers" -> {"pageSize", "pageToken", "filters"}
                       [] c.op = "watchCoverage" -> {"topic"}
            method == IF c.op = "deleteUser" THEN "DELETE" ELSE "GET"
            path == CASE c.op \in {"deleteUser", "getUser"} -> "/v1/users/{id}"
                      [] c.op = "getHealth" -> "/v1/admin/health"
                      [] c.op = "listUsers" -> "/v1/users"
                      [] c.op = "watchCoverage" -> "/v1/coverage/watch"
            e == EncodeParams(c, names)
            h == Request(c)
<1>1. h = Http(method, path, e, "none", None)
  <2>1. CASE c.op = "deleteUser"
    BY <2>1 DEF Request, sendDeleteUser
  <2>2. CASE c.op = "getHealth"
    BY <2>2 DEF Request, sendGetHealth
  <2>3. CASE c.op = "getUser"
    BY <2>3 DEF Request, sendGetUser
  <2>4. CASE c.op = "listUsers"
    BY <2>4 DEF Request, sendListUsers
  <2>5. CASE c.op = "watchCoverage"
    BY <2>5 DEF Request, sendWatchCoverage
  <2>. QED
    BY <2>1, <2>2, <2>3, <2>4, <2>5
<1>2. Routed([method |-> method, path |-> path], c.op)
  BY DEF Routed, Routes, WebhookRoutes
<1>3. c.op \in Ops /\ ContentType(c.op) = "none" /\ WireBodies(c.op) = {None}
  BY DEF Ops, ContentType, WireBodies
<1>4. /\ e \in [ParamNames -> Classes]
      /\ \A p \in ParamNames : e[p] \in WireParam(p)
      /\ \A p \in names \cap ParamNames : p # "filters" =>
           e[p] = c.params[p] \/ (c.params[p] \in {"unset", "null"} /\ e[p] = "absent")
  BY EncodedParams
<1>5. names \subseteq ParamNames
  BY DEF ParamNames
<1>. HIDE DEF h, e, path, method
<1>6. /\ h # Failed /\ Routed(h, c.op) /\ h.params = e
      /\ h.type = ContentType(c.op) /\ h.body = None
  <2>1. None \in {None} \cup Structs(CreatePostRequestKinds) \cup Structs(UserInputKinds)
                 \cup [payload: Structs(CoverageKinds)] \cup [data: Classes]
                 \cup [action: Classes, user: Structs(UserKinds)]
    OBVIOUS
  <2>. QED
    BY <1>1, <1>2, <1>3, <1>4, <2>1, HttpForm
<1>8. h.body \in WireBodies(c.op)
  BY <1>3, <1>6
<1>9. \A p \in names : p # "filters" =>
        /\ \A k, z : Same(k, e[p], z) => Same(k, c.params[p], z)
        /\ Blank("presence", e[p]) <=> Blank("presence", c.params[p])
  BY <1>4, <1>5, SentParamSame
<1>10. ASSUME NEW msg, NEW md, Says(c.op, h.body, h.params, msg, md)
       PROVE  Says(c.op, c.req, c.params, msg, md)
  <2>1. Says(c.op, h.body, e, msg, md)
    BY <1>6, <1>10
  <2>2. CASE c.op = "deleteUser"
    BY <1>9, <2>1, <2>2 DEF Says
  <2>3. CASE c.op = "getHealth"
    BY <2>3 DEF Says
  <2>4. CASE c.op = "getUser"
    BY <1>9, <2>1, <2>4 DEF Says
  <2>5. CASE c.op = "listUsers"
    BY <1>9, <2>1, <2>5 DEF Says
  <2>6. CASE c.op = "watchCoverage"
    BY <1>9, <2>1, <2>6 DEF Says
  <2>. QED
    BY <2>2, <2>3, <2>4, <2>5, <2>6
<1>. QED
  BY <1>4, <1>6, <1>8, <1>10 DEF Sent, h

LEMMA SendsCreatePost ==
  ASSUME NEW c \in Calls, c.op = "createPost"
  PROVE  Sent(c, Request(c))
<1>. DEFINE e == EncodeParams(c, {})
            j == CreatePostRequestEncode(c.req)
            h == Request(c)
<1>1. h = Http("POST", "/v1/posts", e, "multipart", j)
  BY DEF Request, sendCreatePost, encodeCreatePostRequest
<1>2. c.req \in OgenMessages(CreatePostRequestKinds, {})
  BY ContentsAssumption DEF CallOK, ClientBodies
<1>3. j \in WireMessages(CreatePostRequestKinds, {}) /\ SameMessage(CreatePostRequestKinds, c.req, j)
  BY <1>2, CreatePostSent
<1>4. j \in Structs(CreatePostRequestKinds)
  BY <1>3, WireClasses
<1>5. e \in [ParamNames -> Classes] /\ \A p \in ParamNames : e[p] \in WireParam(p)
  BY EncodedParams
<1>. HIDE DEF h, e, j
<1>6. /\ h # Failed /\ Routed(h, c.op) /\ h.params = e
      /\ h.type = ContentType(c.op) /\ h.body = j
  <2>1. /\ c.op \in Ops /\ Routed([method |-> "POST", path |-> "/v1/posts"], c.op)
        /\ ContentType(c.op) = "multipart"
    BY DEF Ops, Routed, Routes, ContentType
  <2>2. j \in {None} \cup Structs(CreatePostRequestKinds) \cup Structs(UserInputKinds)
              \cup [payload: Structs(CoverageKinds)] \cup [data: Classes]
              \cup [action: Classes, user: Structs(UserKinds)]
    BY <1>4
  <2>. QED
    BY <1>1, <1>5, <2>1, <2>2, HttpForm
<1>8. h.body \in WireBodies(c.op)
  BY <1>3, <1>6 DEF WireBodies
<1>9. ASSUME NEW msg, NEW md, Says(c.op, h.body, h.params, msg, md)
      PROVE  Says(c.op, c.req, c.params, msg, md)
  <2>1. SameMessage(CreatePostRequestKinds, c.req, msg)
    BY <1>3, <1>6, <1>9, SameMessageChain DEF Says
  <2>. QED
    BY <2>1 DEF Says
<1>. QED
  BY <1>5, <1>6, <1>8, <1>9 DEF Sent, h

LEMMA SendsUploadAvatar ==
  ASSUME NEW c \in Calls, c.op = "uploadAvatar"
  PROVE  Sent(c, Request(c))
<1>. DEFINE e == EncodeParams(c, {})
            j == encodeUploadAvatarRequest(c.req)
            h == Request(c)
<1>1. h = Http("POST", "/v1/avatar", e, "png", j)
  BY DEF Request, sendUploadAvatar
<1>2. c.req \in [data: {"zero", "good"}]
  BY ContentsAssumption DEF CallOK, ClientBodies
<1>3. j \in [data: {"zero", "good"}] /\ j \in [data: Classes]
  BY <1>2 DEF encodeUploadAvatarRequest, Classes
<1>5. e \in [ParamNames -> Classes] /\ \A p \in ParamNames : e[p] \in WireParam(p)
  BY EncodedParams
<1>. HIDE DEF h, e, j
<1>6. /\ h # Failed /\ Routed(h, c.op) /\ h.params = e
      /\ h.type = ContentType(c.op) /\ h.body = j
  <2>1. /\ c.op \in Ops /\ Routed([method |-> "POST", path |-> "/v1/avatar"], c.op)
        /\ ContentType(c.op) = "png"
    BY DEF Ops, Routed, Routes, ContentType
  <2>2. j \in {None} \cup Structs(CreatePostRequestKinds) \cup Structs(UserInputKinds)
              \cup [payload: Structs(CoverageKinds)] \cup [data: Classes]
              \cup [action: Classes, user: Structs(UserKinds)]
    BY <1>3
  <2>. QED
    BY <1>1, <1>5, <2>1, <2>2, HttpForm
<1>8. h.body \in WireBodies(c.op)
  BY <1>3, <1>6 DEF WireBodies
<1>9. \A msg, md : Says(c.op, c.req, c.params, msg, md)
  BY DEF Says
<1>. QED
  BY <1>5, <1>6, <1>8, <1>9 DEF Sent, h

\* The three bodies with rules: what the client refuses to send would not
\* conform to the document.
LEMMA SendsCreateUser ==
  ASSUME NEW c \in Calls, c.op = "createUser"
  PROVE  /\ Request(c) # Failed => Sent(c, Request(c))
         /\ Request(c) = Failed => ~BodyConforms(c.op, "json", UserInputEncode(c.req))
<1>. DEFINE e == EncodeParams(c, {"idempotencyKey"})
            j == UserInputEncode(c.req)
            h == Http("POST", "/v1/users", e, "json", j)
            ruled == {"email", "displayName", "roles"}
<1>1. Request(c) = IF ~UserInputValidate(c.req) THEN Failed ELSE h
  BY DEF Request, sendCreateUser, encodeCreateUserRequest
<1>2. c.req \in OgenMessages(UserInputKinds, UserInputRules)
  BY ContentsAssumption DEF CallOK, ClientBodies
<1>3. /\ j \in WireMessages(UserInputKinds, UserInputRules)
      /\ SameMessage(UserInputKinds, c.req, j)
  BY <1>2, EncodedWire, EncodedSame DEF UserInputEncode
<1>4. j \in Structs(UserInputKinds)
  BY <1>3, WireClasses
<1>5. e \in [ParamNames -> Classes] /\ \A p \in ParamNames : e[p] \in WireParam(p)
  BY EncodedParams
<1>6. ASSUME ~UserInputValidate(c.req)
      PROVE  ~BodyConforms(c.op, "json", j)
  <2>1. ruled \subseteq DOMAIN UserInputKinds /\ \A f \in ruled : UserInputKinds[f] # "items"
    BY DEF UserInputKinds
  <2>2. ~Valid(c.req, ruled, ruled)
    BY <1>6 DEF UserInputValidate
  <2>3. ~FieldsConform(UserInputKinds, ruled, Encode(UserInputKinds, c.req))
    BY <2>1, <2>2, EncodedValid
  <2>. QED
    BY <2>3 DEF BodyConforms, UserInputEncode
<1>. HIDE DEF h, e, j
<1>7. /\ h # Failed /\ Routed(h, c.op) /\ h.params = e
      /\ h.type = ContentType(c.op) /\ h.body = j
  <2>1. /\ c.op \in Ops /\ Routed([method |-> "POST", path |-> "/v1/users"], c.op)
        /\ ContentType(c.op) = "json"
    BY DEF Ops, Routed, Routes, ContentType
  <2>2. j \in {None} \cup Structs(CreatePostRequestKinds) \cup Structs(UserInputKinds)
              \cup [payload: Structs(CoverageKinds)] \cup [data: Classes]
              \cup [action: Classes, user: Structs(UserKinds)]
    BY <1>4
  <2>. QED
    BY <1>5, <2>1, <2>2, HttpForm DEF h
<1>8. h.body \in WireBodies(c.op)
  BY <1>3, <1>7 DEF WireBodies
<1>9. ASSUME NEW msg, NEW md, Says(c.op, h.body, h.params, msg, md)
      PROVE  Says(c.op, c.req, c.params, msg, md)
  <2>1. SameMessage(UserInputKinds, c.req, msg.user)
    BY <1>3, <1>7, <1>9, SameMessageChain DEF Says
  <2>. QED
    BY <2>1 DEF Says
<1>10. Sent(c, h)
  BY <1>5, <1>7, <1>8, <1>9 DEF Sent
<1>11. CASE UserInputValidate(c.req)
  BY <1>1, <1>7, <1>10, <1>11
<1>12. CASE ~UserInputValidate(c.req)
  BY <1>1, <1>6, <1>12 DEF j
<1>. QED
  BY <1>11, <1>12

LEMMA SendsEchoCoverage ==
  ASSUME NEW c \in Calls, c.op = "echoCoverage"
  PROVE  /\ Request(c) # Failed => Sent(c, Request(c))
         /\ Request(c) = Failed => ~BodyConforms(c.op, "json", EchoCoverageRequestEncode(c.req))
<1>. DEFINE e == EncodeParams(c, {})
            j == EchoCoverageRequestEncode(c.req)
            x == c.req.payload
            y == Encode(CoverageKinds, x)
            h == Http("POST", "/v1/coverage/echo", e, "json", j)
<1>1. Request(c) = IF ~EchoCoverageRequestValidate(c.req) THEN Failed ELSE h
  BY DEF Request, sendEchoCoverage, encodeEchoCoverageRequest
<1>2. x \in OgenMessages(CoverageKinds, CoverageRules)
  BY ContentsAssumption DEF CallOK, ClientBodies
<1>3. /\ y \in WireMessages(CoverageKinds, CoverageRules)
      /\ SameMessage(CoverageKinds, x, y)
  BY <1>2, EncodedWire, EncodedSame
<1>4. y \in Structs(CoverageKinds) /\ y # Failed
  BY <1>3, WireClasses, NoStruct
<1>5. j = [payload |-> y]
  BY <1>4, AroundPayload DEF EchoCoverageRequestEncode, CoverageEncode
<1>6. e \in [ParamNames -> Classes] /\ \A p \in ParamNames : e[p] \in WireParam(p)
  BY EncodedParams
<1>7. ASSUME ~EchoCoverageRequestValidate(c.req)
      PROVE  ~BodyConforms(c.op, "json", j)
  <2>. DEFINE checked == {"doubleValue", "doubleWrapper", "floatValue", "enumValue",
                          "repeatedEnum", "fixed32Value", "uint32Value"}
  <2>1. checked \subseteq DOMAIN CoverageKinds
    BY DEF CoverageKinds
  <2>2. ~Valid(x, checked, {})
    BY <1>7 DEF EchoCoverageRequestValidate, CoverageValidate
  <2>3. ~FieldsConform(CoverageKinds, {}, y)
    BY <2>1, <2>2, EncodedValid
  <2>4. j.payload = y
    BY <1>5
  <2>. QED
    BY <2>3, <2>4 DEF BodyConforms
<1>. HIDE DEF h, e, j, y
<1>8. /\ h # Failed /\ Routed(h, c.op) /\ h.params = e
      /\ h.type = ContentType(c.op) /\ h.body = j
  <2>1. /\ c.op \in Ops /\ Routed([method |-> "POST", path |-> "/v1/coverage/echo"], c.op)
        /\ ContentType(c.op) = "json"
    BY DEF Ops, Routed, Routes, ContentType
  <2>2. j \in [payload: Structs(CoverageKinds)]
    BY <1>4, <1>5
  <2>3. j \in {None} \cup Structs(CreatePostRequestKinds) \cup Structs(UserInputKinds)
              \cup [payload: Structs(CoverageKinds)] \cup [data: Classes]
              \cup [action: Classes, user: Structs(UserKinds)]
    BY <2>2
  <2>. QED
    BY <1>6, <2>1, <2>3, HttpForm DEF h
<1>9. h.body \in WireBodies(c.op)
  <2>1. j \in [payload: {None, Odd} \cup WireMessages(CoverageKinds, CoverageRules)]
    BY <1>3, <1>5
  <2>. QED
    BY <1>8, <2>1 DEF WireBodies
<1>10. ASSUME NEW msg, NEW md, Says(c.op, h.body, h.params, msg, md)
       PROVE  Says(c.op, c.req, c.params, msg, md)
  <2>1. OneOfEach(x) => SameMessage(CoverageKinds, x, msg.payload)
    <3>1. SUFFICES ASSUME OneOfEach(x) PROVE SameMessage(CoverageKinds, x, msg.payload)
      OBVIOUS
    <3>2. OneOfEach(y)
      BY <1>3, <3>1, SameOneofs
    <3>3. h.body.payload = y
      BY <1>5, <1>8
    <3>4. SameMessage(CoverageKinds, y, msg.payload)
      BY <1>10, <3>2, <3>3 DEF Says
    <3>. QED
      BY <1>3, <3>4, SameMessageChain
  <2>. QED
    BY <2>1 DEF Says
<1>11. Sent(c, h)
  BY <1>6, <1>8, <1>9, <1>10 DEF Sent
<1>12. CASE EchoCoverageRequestValidate(c.req)
  BY <1>1, <1>8, <1>11, <1>12
<1>13. CASE ~EchoCoverageRequestValidate(c.req)
  BY <1>1, <1>7, <1>13 DEF j
<1>. QED
  BY <1>12, <1>13

LEMMA SendsUserChanged ==
  ASSUME NEW c \in Calls, c.op = "userChangedWebhook"
  PROVE  /\ Request(c) # Failed => Sent(c, Request(c))
         /\ Request(c) = Failed => ~BodyConforms(c.op, "json", UserChangedPayloadEncode(c.req))
<1>. DEFINE e == EncodeParams(c, {"xWebhookDelivery"})
            j == UserChangedPayloadEncode(c.req)
            u == c.req.user
            y == Encode(UserKinds, u)
            h == Http("POST", "webhook", e, "json", j)
<1>1. Request(c) = IF ~UserChangedPayloadValidate(c.req) THEN Failed ELSE h
  BY DEF Request, sendUserChangedWebhook, encodeUserChangedWebhookRequest
<1>2. u \in OgenMessages(UserKinds, UserRules) /\ c.req.action \in {"zero", "good"}
  BY ContentsAssumption DEF CallOK, ClientBodies
<1>3. /\ y \in WireMessages(UserKinds, UserRules)
      /\ SameMessage(UserKinds, u, y)
  BY <1>2, EncodedWire, EncodedSame
<1>4. y \in Structs(UserKinds)
  BY <1>3, WireClasses
<1>5. j = [action |-> c.req.action, user |-> y]
  BY DEF UserChangedPayloadEncode, UserEncode
<1>6. /\ e \in [ParamNames -> Classes]
      /\ \A p \in ParamNames : e[p] \in WireParam(p)
      /\ \A p \in {"xWebhookDelivery"} \cap ParamNames : p # "filters" =>
           \/ e[p] = c.params[p]
           \/ c.params[p] \in {"unset", "null"} /\ e[p] = "absent"
  BY EncodedParams
<1>7. ASSUME ~UserChangedPayloadValidate(c.req)
      PROVE  ~BodyConforms(c.op, "json", j)
  <2>1. /\ UserRules \subseteq DOMAIN UserKinds /\ {"email"} \subseteq DOMAIN UserKinds
        /\ \A f \in {"email"} : UserKinds[f] # "items"
    BY DEF UserKinds, UserRules
  <2>2. ~Valid(u, UserRules, {"email"})
    BY <1>7 DEF UserChangedPayloadValidate, UserValidate, UserRules
  <2>3. ~FieldsConform(UserKinds, {"email"}, y)
    BY <2>1, <2>2, EncodedValid
  <2>4. j.user = y
    BY <1>5
  <2>. QED
    BY <2>3, <2>4 DEF BodyConforms
<1>. HIDE DEF h, e, j, y
<1>8. /\ h # Failed /\ Routed(h, c.op) /\ h.params = e
      /\ h.type = ContentType(c.op) /\ h.body = j
  <2>1. /\ c.op \in Ops /\ Routed([method |-> "POST", path |-> "webhook"], c.op)
        /\ ContentType(c.op) = "json"
    BY DEF Ops, Routed, WebhookRoutes, ContentType
  <2>2. j \in [action: Classes, user: Structs(UserKinds)]
    BY <1>2, <1>4, <1>5 DEF Classes
  <2>3. j \in {None} \cup Structs(CreatePostRequestKinds) \cup Structs(UserInputKinds)
              \cup [payload: Structs(CoverageKinds)] \cup [data: Classes]
              \cup [action: Classes, user: Structs(UserKinds)]
    BY <2>2
  <2>. QED
    BY <1>1, <1>6, <2>1, <2>3, HttpForm DEF h
<1>9. h.body \in WireBodies(c.op)
  <2>1. j \in [action: {"absent", "null", "zero", "good", "odd"},
              user: {None, Odd} \cup WireMessages(UserKinds, UserRules)]
    BY <1>2, <1>3, <1>5
  <2>. QED
    BY <1>8, <2>1 DEF WireBodies
<1>10. \A k, z : Same(k, e["xWebhookDelivery"], z) => Same(k, c.params["xWebhookDelivery"], z)
  BY <1>6, SentParamSame DEF ParamNames
<1>11. ASSUME NEW msg, NEW md, Says(c.op, h.body, h.params, msg, md)
       PROVE  Says(c.op, c.req, c.params, msg, md)
  <2>1. /\ h.body.action = msg.event.action /\ SameMessage(UserKinds, h.body.user, msg.event.user)
        /\ Same("opt", e["xWebhookDelivery"], msg["deliveryId"])
        /\ "xWebhookDelivery" \in md
    BY <1>8, <1>11 DEF Says
  <2>2. h.body.action = c.req.action /\ h.body.user = y
    BY <1>5, <1>8
  <2>3. SameMessage(UserKinds, u, msg.event.user)
    BY <1>3, <2>1, <2>2, SameMessageChain
  <2>4. Same("opt", c.params["xWebhookDelivery"], msg["deliveryId"])
    BY <1>10, <2>1
  <2>. QED
    BY <2>1, <2>2, <2>3, <2>4 DEF Says
<1>12. Sent(c, h)
  BY <1>6, <1>8, <1>9, <1>11 DEF Sent
<1>13. CASE UserChangedPayloadValidate(c.req)
  BY <1>1, <1>8, <1>12, <1>13
<1>14. CASE ~UserChangedPayloadValidate(c.req)
  BY <1>1, <1>7, <1>14 DEF j
<1>. QED
  BY <1>13, <1>14

\* Every call that the types allow: what the client sends is what HTTP can
\* have, for the operation of the call, and says what the caller does.
LEMMA Requests ==
  ASSUME NEW c \in Calls
  PROVE  /\ Request(c) # Failed => WireOK(Request(c))
         /\ Request(c) # Failed /\ c.op # "raw" => Sent(c, Request(c))
         /\ Request(c) = Failed =>
              ~BodyConforms(c.op, "json",
                 CASE c.op = "createUser" -> UserInputEncode(c.req)
                   [] c.op = "echoCoverage" -> EchoCoverageRequestEncode(c.req)
                   [] c.op = "userChangedWebhook" -> UserChangedPayloadEncode(c.req))
<1>1. CASE c.op = "raw"
  <2>1. Request(c) = c.http
    BY <1>1 DEF Request
  <2>2. CallOK(c)
    BY ContentsAssumption
  <2>. QED
    BY <1>1, <2>1, <2>2 DEF CallOK, WireOK
<1>2. CASE c.op \in Served
  <2>1. ASSUME Sent(c, Request(c)) PROVE WireOK(Request(c))
    <3>1. ASSUME NEW op, Routed(Request(c), op)
          PROVE  op = c.op
      BY <2>1, <3>1, OneRoute DEF Sent
    <3>. QED
      BY <2>1, <3>1 DEF Sent, WireOK
  <2>2. CASE c.op \in {"deleteUser", "getHealth", "getUser", "listUsers", "watchCoverage"}
    BY <2>1, <2>2, SendsBare DEF Sent
  <2>3. CASE c.op = "createPost"
    BY <2>1, <2>3, SendsCreatePost DEF Sent
  <2>4. CASE c.op = "uploadAvatar"
    BY <2>1, <2>4, SendsUploadAvatar DEF Sent
  <2>5. CASE c.op = "createUser"
    BY <2>1, <2>5, SendsCreateUser
  <2>6. CASE c.op = "echoCoverage"
    BY <2>1, <2>6, SendsEchoCoverage
  <2>7. CASE c.op = "userChangedWebhook"
    BY <2>1, <2>7, SendsUserChanged
  <2>. QED
    BY <1>2, <2>2, <2>3, <2>4, <2>5, <2>6, <2>7 DEF Served, Ops
<1>. QED
  BY <1>1, <1>2, GatewayAssumption DEF Served

-----------------------------------------------------------------------------
(* What the client reads *)

\* The response for what the service has returned.
Success(op, m) ==
  CASE op = "createPost" -> encodeCreatePostResponse
    [] op = "createUser" -> encodeCreateUserResponse(UserToOgen(UserOf(m)))
    [] op = "deleteUser" -> encodeDeleteUserResponse
    [] op = "echoCoverage" -> encodeEchoCoverageResponse(EchoCoverageResponseToOgen(m))
    [] op = "getHealth" -> encodeGetHealthResponse(GetHealthResponseToOgen(m))
    [] op = "getUser" -> encodeGetUserResponse(UserToOgen(UserOf(m)))
    [] op = "listUsers" -> encodeListUsersResponse(ListUsersResponseToOgen(m))
    [] op = "uploadAvatar" -> encodeUploadAvatarResponse
    [] OTHER -> encodeUserChangedWebhookResponse

AnswerTo(op, r) ==
  IF op = "watchCoverage" THEN encodeWatchCoverageResponse(r.code)
  ELSE IF r.code = "OK" THEN Success(op, r.msg) ELSE Problem(500)

LEMMA RespondingByOp ==
  ASSUME NEW a, Responding(a)
  PROVE  \E op \in Served :
           /\ server[a] = "returned" /\ Routed(wire[a], op)
           /\ Answered(a, AnswerTo(op, reply[a]))
           /\ UNCHANGED <<call, client, wire, args, rpc, reply, result>>
<1>. DEFINE Goal == \E op \in Served :
           /\ server[a] = "returned" /\ Routed(wire[a], op)
           /\ Answered(a, AnswerTo(op, reply[a]))
           /\ UNCHANGED <<call, client, wire, args, rpc, reply, result>>
<1>0. ASSUME NEW op \in Served, op # "watchCoverage", NEW m, m = Success(op, reply[a].msg),
             Respond(a, op, m)
      PROVE  Goal
  BY <1>0 DEF Respond, AnswerTo
<1>1. respondCreatePost(a) => Goal
  BY <1>0 DEF respondCreatePost, Success, Served, Ops
<1>2. respondCreateUser(a) => Goal
  BY <1>0 DEF respondCreateUser, Success, Served, Ops
<1>3. respondDeleteUser(a) => Goal
  BY <1>0 DEF respondDeleteUser, Success, Served, Ops
<1>4. respondEchoCoverage(a) => Goal
  BY <1>0 DEF respondEchoCoverage, Success, Served, Ops
<1>5. respondGetHealth(a) => Goal
  BY <1>0 DEF respondGetHealth, Success, Served, Ops
<1>6. respondGetUser(a) => Goal
  BY <1>0 DEF respondGetUser, Success, Served, Ops
<1>7. respondListUsers(a) => Goal
  BY <1>0 DEF respondListUsers, Success, Served, Ops
<1>8. respondUploadAvatar(a) => Goal
  BY <1>0 DEF respondUploadAvatar, Success, Served, Ops
<1>9. respondWatchCoverage(a) => Goal
  BY DEF respondWatchCoverage, AnswerTo, Served, Ops
<1>10. respondUserChangedWebhook(a) => Goal
  BY <1>0 DEF respondUserChangedWebhook, Success, Served, Ops
<1>. HIDE DEF Goal
<1>11. Goal
  BY <1>1, <1>2, <1>3, <1>4, <1>5, <1>6, <1>7, <1>8, <1>9, <1>10 DEF Responding
<1>. QED
  BY <1>11 DEF Goal

\* A value of the service that the caller gets.
Read(op, m, outcome) ==
  outcome.told = "value" /\ (m # None => SameAnswer(op, m, outcome.value))

LEMMA GotRead ==
  ASSUME NEW op, NEW m, NEW response, NEW v, v # Failed, m # None => SameAnswer(op, m, v)
  PROVE  Read(op, m, Got(response, v))
BY DEF Read, Got

LEMMA GotStatus ==
  ASSUME NEW c \in Calls, NEW response PROVE Decoding(c, response).status = response.status
<1>1. \A v : Got(response, v).status = response.status
  BY DEF Got, Unread
<1>2. decodeDefault(response).status = response.status
  BY <1>1 DEF decodeDefault
<1>. USE <1>1, <1>2
<1>3. /\ decodeCreatePostResponse(response).status = response.status
      /\ decodeCreateUserResponse(response).status = response.status
      /\ decodeDeleteUserResponse(response).status = response.status
  BY DEF decodeCreatePostResponse, decodeCreateUserResponse, decodeDeleteUserResponse
<1>4. /\ decodeEchoCoverageResponse(response).status = response.status
      /\ decodeGetHealthResponse(response).status = response.status
      /\ decodeGetUserResponse(response).status = response.status
  BY DEF decodeEchoCoverageResponse, decodeGetHealthResponse, decodeGetUserResponse
<1>5. /\ decodeListUsersResponse(response).status = response.status
      /\ decodeUploadAvatarResponse(response).status = response.status
      /\ decodeWatchCoverageResponse(response).status = response.status
      /\ decodeUserChangedWebhookResponse(response).status = response.status
  BY DEF decodeListUsersResponse, decodeUploadAvatarResponse, decodeWatchCoverageResponse,
         decodeUserChangedWebhookResponse
<1>6. c.op \in Ops
  BY GatewayAssumption
<1>. QED
  BY <1>3, <1>4, <1>5, <1>6 DEF Decoding, Ops

LEMMA ReadsUser ==
  ASSUME NEW c, c.op \in {"createUser", "getUser"}, NEW m \in ServiceReplies(c.op),
         Success(c.op, m).status \in 200 .. 299
  PROVE  Read(c.op, m, Decoding(c, Success(c.op, m)))
<1>. DEFINE src == UserOf(m)
            u == UserToOgen(src)
            status == IF c.op = "createUser" THEN 201 ELSE 200
            response == Response(status, "json", UserEncode(u))
            v == UserDecode(UserEncode(u))
<1>1. m \in {None} \cup [user: {None} \cup ProtoMessages(UserKinds, UserRules)]
  BY DEF ServiceReplies
<1>2. src \in {None} \cup ProtoMessages(UserKinds, UserRules) /\ (m # None => src = m.user)
  BY <1>1 DEF UserOf
<1>3. Success(c.op, m) = IF u # Failed /\ UserValidate(u) THEN response ELSE Problem(500)
  BY DEF Success, encodeCreateUserResponse, encodeGetUserResponse
<1>4. u # Failed /\ UserValidate(u) /\ Success(c.op, m) = response
  BY <1>3 DEF Problem, Response
<1>5. v # Failed /\ UserValidate(v) /\ src # None /\ SameMessage(UserKinds, src, v)
  BY <1>2, <1>4, UserIsRead
<1>6. /\ response.status = status /\ response.type = "json" /\ response.body = UserEncode(u)
  BY DEF Response
<1>7. Decoding(c, response) = Got(response, Json(response, Checked(v, UserValidate)))
  BY <1>6 DEF Decoding, decodeCreateUserResponse, decodeGetUserResponse
<1>8. Json(response, Checked(v, UserValidate)) = v
  BY <1>5, <1>6 DEF Json, Checked
<1>9. m # None => SameAnswer(c.op, m, v)
  BY <1>2, <1>5 DEF SameAnswer
<1>. HIDE DEF v, response
<1>10. Read(c.op, m, Got(response, v))
  BY <1>5, <1>9, GotRead
<1>. QED
  BY <1>4, <1>7, <1>8, <1>10

LEMMA ReadsEcho ==
  ASSUME NEW c, c.op = "echoCoverage", NEW m \in ServiceReplies(c.op),
         Success(c.op, m).status \in 200 .. 299
  PROVE  Read(c.op, m, Decoding(c, Success(c.op, m)))
<1>. DEFINE u == EchoCoverageResponseToOgen(m)
            response == Response(200, "json", EchoCoverageResponseEncode(u))
            v == EchoCoverageResponseDecode(EchoCoverageResponseEncode(u))
<1>1. m \in {None} \cup [payload: {None} \cup ProtoMessages(CoverageKinds, CoverageRules)]
  BY DEF ServiceReplies
<1>3. Success(c.op, m) =
        IF u # Failed /\ EchoCoverageResponseValidate(u) THEN response ELSE Problem(500)
  BY DEF Success, encodeEchoCoverageResponse
<1>4. u # Failed /\ EchoCoverageResponseValidate(u) /\ Success(c.op, m) = response
  BY <1>3 DEF Problem, Response
<1>5. /\ v # Failed /\ EchoCoverageResponseValidate(v)
      /\ m # None /\ m.payload # None => SameMessage(CoverageKinds, m.payload, v.payload)
  BY <1>1, <1>4, EchoCoverageIsRead
<1>6. /\ response.status = 200 /\ response.type = "json"
      /\ response.body = EchoCoverageResponseEncode(u)
  BY DEF Response
<1>7. Decoding(c, response) =
        Got(response, Json(response, Checked(v, EchoCoverageResponseValidate)))
  BY <1>6 DEF Decoding, decodeEchoCoverageResponse
<1>8. Json(response, Checked(v, EchoCoverageResponseValidate)) = v
  BY <1>5, <1>6 DEF Json, Checked
<1>9. m # None => SameAnswer(c.op, m, v)
  BY <1>5 DEF SameAnswer
<1>. HIDE DEF v, response
<1>10. Read(c.op, m, Got(response, v))
  BY <1>5, <1>9, GotRead
<1>. QED
  BY <1>4, <1>7, <1>8, <1>10

LEMMA ReadsList ==
  ASSUME NEW c, c.op = "listUsers", NEW m \in ServiceReplies(c.op),
         Success(c.op, m).status \in 200 .. 299
  PROVE  Read(c.op, m, Decoding(c, Success(c.op, m)))
<1>. DEFINE u == ListUsersResponseToOgen(m)
            response == Response(200, "json", ListUsersResponseEncode(u))
            v == ListUsersResponseDecode(ListUsersResponseEncode(u))
<1>1. m \in {None} \cup ProtoMessages(ListUsersResponseKinds, {"users"})
  BY DEF ServiceReplies
<1>3. Success(c.op, m) =
        IF u # Failed /\ ListUsersResponseValidate(u) THEN response ELSE Problem(500)
  BY DEF Success, encodeListUsersResponse
<1>4. u # Failed /\ ListUsersResponseValidate(u) /\ Success(c.op, m) = response
  BY <1>3 DEF Problem, Response
<1>5. /\ v # Failed /\ ListUsersResponseValidate(v)
      /\ SameMessage(ListUsersResponseKinds, m, v)
  BY <1>1, <1>4, ListUsersIsRead
<1>6. /\ response.status = 200 /\ response.type = "json"
      /\ response.body = ListUsersResponseEncode(u)
  BY DEF Response
<1>7. Decoding(c, response) =
        Got(response, Json(response, Checked(v, ListUsersResponseValidate)))
  BY <1>6 DEF Decoding, decodeListUsersResponse
<1>8. Json(response, Checked(v, ListUsersResponseValidate)) = v
  BY <1>5, <1>6 DEF Json, Checked
<1>9. m # None => SameAnswer(c.op, m, v)
  BY <1>5 DEF SameAnswer
<1>. HIDE DEF v, response
<1>10. Read(c.op, m, Got(response, v))
  BY <1>5, <1>9, GotRead
<1>. QED
  BY <1>4, <1>7, <1>8, <1>10

LEMMA ReadsHealth ==
  ASSUME NEW c, c.op = "getHealth", NEW m \in ServiceReplies(c.op),
         Success(c.op, m).status \in 200 .. 299
  PROVE  Read(c.op, m, Decoding(c, Success(c.op, m)))
<1>. DEFINE u == GetHealthResponseToOgen(m)
            response == Response(200, "json", GetHealthResponseEncode(u))
            v == GetHealthResponseDecode(GetHealthResponseEncode(u))
<1>1. m \in {None} \cup ProtoMessages(GetHealthResponseKinds, {})
  BY DEF ServiceReplies
<1>3. Success(c.op, m) = IF u # Failed THEN response ELSE Problem(500)
  BY DEF Success, encodeGetHealthResponse
<1>4. u # Failed /\ Success(c.op, m) = response
  BY <1>3 DEF Problem, Response
<1>5. v # Failed /\ (m # None => SameMessage(GetHealthResponseKinds, m, v))
  BY <1>1, <1>4, GetHealthIsRead
<1>6. /\ response.status = 200 /\ response.type = "json"
      /\ response.body = GetHealthResponseEncode(u)
  BY DEF Response
<1>7. Decoding(c, response) = Got(response, Json(response, v))
  BY <1>6 DEF Decoding, decodeGetHealthResponse
<1>8. Json(response, v) = v
  BY <1>6 DEF Json
<1>9. m # None => SameAnswer(c.op, m, v)
  BY <1>5 DEF SameAnswer
<1>. HIDE DEF v, response
<1>10. Read(c.op, m, Got(response, v))
  BY <1>5, <1>9, GotRead
<1>. QED
  BY <1>4, <1>7, <1>8, <1>10

LEMMA ReadsNothing ==
  ASSUME NEW c, c.op \in {"createPost", "deleteUser", "uploadAvatar", "userChangedWebhook"}, NEW m
  PROVE  Read(c.op, m, Decoding(c, Success(c.op, m)))
<1>. DEFINE response == Success(c.op, m)
<1>1. response.status = IF c.op \in {"deleteUser", "userChangedWebhook"} THEN 204 ELSE 200
  BY DEF Success, Response, encodeCreatePostResponse, encodeDeleteUserResponse,
         encodeUploadAvatarResponse, encodeUserChangedWebhookResponse
<1>. HIDE DEF response
<1>2. Decoding(c, response) = Got(response, None)
  BY <1>1 DEF Decoding, decodeCreatePostResponse, decodeDeleteUserResponse,
              decodeUploadAvatarResponse, decodeUserChangedWebhookResponse
<1>3. None # Failed
  BY NoArgument
<1>4. SameAnswer(c.op, m, None)
  BY DEF SameAnswer
<1>5. Read(c.op, m, Got(response, None))
  BY <1>3, <1>4, GotRead
<1>. QED
  BY <1>2, <1>5 DEF response

LEMMA ReadsEvents ==
  ASSUME NEW c, c.op = "watchCoverage", NEW code, NEW m
  PROVE  Read(c.op, m, Decoding(c, encodeWatchCoverageResponse(code)))
<1>. DEFINE response == encodeWatchCoverageResponse(code)
            v == IF code \in Unmarked THEN "good" ELSE "bad"
<1>1. response.status = 200 /\ response.type = "sse" /\ response.body = v
  BY DEF Response, encodeWatchCoverageResponse
<1>. HIDE DEF response
<1>2. Decoding(c, response) = Got(response, v)
  BY <1>1 DEF Decoding, decodeWatchCoverageResponse
<1>3. v # Failed
  BY PayloadsAssumption DEF Classes
<1>4. SameAnswer(c.op, m, v)
  BY DEF SameAnswer
<1>. HIDE DEF v
<1>5. Read(c.op, m, Got(response, v))
  BY <1>3, <1>4, GotRead
<1>. QED
  BY <1>2, <1>5 DEF response

\* Of every operation, the client reads the successes that the server sends.
LEMMA ReadsAnswers ==
  ASSUME NEW c \in Calls, c.op # "raw", NEW r \in Replies(c),
         AnswerTo(c.op, r).status \in 200 .. 299
  PROVE  Read(c.op, r.msg, Decoding(c, AnswerTo(c.op, r)))
<1>1. CASE c.op = "watchCoverage"
  BY <1>1, ReadsEvents DEF AnswerTo
<1>2. CASE c.op # "watchCoverage"
  <2>1. Problem(500).status = 500
    BY DEF Problem, Response
  <2>2. r.code = "OK" /\ AnswerTo(c.op, r) = Success(c.op, r.msg)
    BY <1>2, <2>1 DEF AnswerTo
  <2>3. r.msg \in ServiceReplies(c.op)
    BY <2>2, ContentsAssumption DEF CallOK
  <2>4. c.op \in Ops
    BY GatewayAssumption
  <2>. QED
    BY <1>2, <2>2, <2>3, <2>4, ReadsUser, ReadsEcho, ReadsList, ReadsHealth, ReadsNothing DEF Ops
<1>. QED
  BY <1>1, <1>2

-----------------------------------------------------------------------------
(* The contents of one attempt: the call, the phase of the server, and     *)
(* what the variables hold for the attempt.                                *)

Decided(op, h, passed) ==
  /\ Routed(h, op) /\ passed = [params |-> ParamsOf(op, h), req |-> BodyOf(op, h)]
  /\ ParamsOf(op, h) # Failed /\ BodyOf(op, h) \notin {Failed, Unsupported}

Invoked(op, h, seen) ==
  /\ Routed(h, op) /\ Accepts(op, h)
  /\ seen = [msg |-> MessageOf(op, ParamsOf(op, h), BodyOf(op, h)),
             md |-> MetadataOf(op, ParamsOf(op, h))]

Contents(c, phase, h, passed, seen, returned, response, outcome) ==
  /\ phase # "idle" => h = Request(c) /\ Request(c) # Failed
  /\ outcome.told = "invalid" => Request(c) = Failed
  /\ phase = "decoded" => \E op \in Served : Decided(op, h, passed)
  /\ returned.code # "none" => \E op \in Served : Invoked(op, h, seen)
  /\ response.status # 0 /\ returned.code = "none" => ~Conforms(h)
  /\ phase = "returned" => returned \in Replies(c)
  /\ response.status \in 200 .. 299 =>
       returned \in Replies(c) /\
         \E op \in Served : Routed(h, op) /\ response = AnswerTo(op, returned)
  /\ outcome.status # 0 => response.status # 0 /\ outcome = Decoding(c, response)

ContentsAt(a) ==
  Contents(call, server[a], wire[a], args[a], rpc[a], reply[a], answer[a], result[a])

ContentsInv == \A a \in Attempts : ContentsAt(a)

LEMMA OtherContents ==
  ASSUME NEW b, ContentsAt(b), UNCHANGED call, wire'[b] = wire[b], args'[b] = args[b],
         rpc'[b] = rpc[b], reply'[b] = reply[b], answer'[b] = answer[b], result'[b] = result[b],
         server'[b] = server[b] \/ (server[b] # "idle" /\ server'[b] = "ended")
  PROVE  ContentsAt(b)'
<1>1. CASE server'[b] = server[b]
  BY <1>1 DEF ContentsAt
<1>2. CASE server[b] # "idle" /\ server'[b] = "ended"
  <2>1. ASSUME NEW c, NEW phase, NEW h, NEW passed, NEW seen, NEW returned, NEW response,
               NEW outcome, phase # "idle",
               Contents(c, phase, h, passed, seen, returned, response, outcome)
        PROVE  Contents(c, "ended", h, passed, seen, returned, response, outcome)
    BY <2>1 DEF Contents
  <2>. QED
    BY <1>2, <2>1 DEF ContentsAt
<1>. QED
  BY <1>1, <1>2

\* A step at one attempt.
LEMMA ContentsStep ==
  ASSUME IInv, ContentsInv, NEW a \in Attempts, UNCHANGED call, ContentsAt(a)',
         \A b \in Attempts \ {a} :
           /\ wire'[b] = wire[b] /\ args'[b] = args[b] /\ rpc'[b] = rpc[b]
           /\ reply'[b] = reply[b] /\ answer'[b] = answer[b] /\ result'[b] = result[b]
           /\ server'[b] = server[b] \/ (server[b] # "idle" /\ server'[b] = "ended")
  PROVE  ContentsInv'
<1>1. ASSUME NEW b \in Attempts PROVE ContentsAt(b)'
  BY <1>1, OtherContents DEF ContentsInv
<1>. QED
  BY <1>1 DEF ContentsInv, Attempts

LEMMA SendContents ==
  ASSUME IInv, ContentsInv, NEW a \in Attempts, Send(a)
  PROVE  ContentsInv'
<1>1. /\ server[a] = "idle" /\ reply[a].code = "none" /\ answer[a].status = 0
      /\ result[a].told = "none"
  BY DEF IInv, GatewayInv, Phases, Send
<1>2. ContentsAt(a)
  BY DEF ContentsInv
<1>3. ContentsAt(a)'
  <2>1. CASE Request(call) = Failed
    <3>1. result'[a] = Unread("invalid", 0) /\ UNCHANGED <<call, server, wire, args, rpc, reply, answer>>
      BY <2>1 DEF IInv, TypeOK, Send, End
    <3>2. result'[a].told = "invalid" /\ result'[a].status = 0
      BY <3>1 DEF Unread
    <3>. QED
      BY <1>1, <2>1, <3>1, <3>2 DEF ContentsAt, Contents
  <2>2. CASE Request(call) # Failed
    <3>1. /\ wire'[a] = Request(call) /\ server'[a] = "called"
          /\ UNCHANGED <<call, result, args, rpc, reply, answer>>
      BY <2>2 DEF IInv, TypeOK, Send
    <3>. QED
      BY <1>1, <1>2, <2>2, <3>1 DEF ContentsAt, Contents
  <2>. QED
    BY <2>1, <2>2
<1>4. \A b \in Attempts \ {a} :
        /\ wire'[b] = wire[b] /\ args'[b] = args[b] /\ rpc'[b] = rpc[b]
        /\ reply'[b] = reply[b] /\ answer'[b] = answer[b] /\ result'[b] = result[b]
        /\ server'[b] = server[b]
  BY DEF IInv, TypeOK, Send, End
<1>. QED
  BY <1>3, <1>4, ContentsStep DEF Send

LEMMA EndContents ==
  ASSUME IInv, ContentsInv, NEW a \in Attempts, NEW r, End(a, r), r.told # "invalid",
         r.status # 0 => answer[a].status # 0 /\ r = Decoding(call, answer[a]),
         \/ UNCHANGED server
         \/ server[a] = "called" /\ server' = [server EXCEPT ![a] = "ended"],
         UNCHANGED <<call, wire, args, rpc, reply, answer>>
  PROVE  ContentsInv'
<1>1. result'[a] = r /\ \A b \in Attempts \ {a} : result'[b] = result[b]
  BY DEF IInv, TypeOK, End
<1>2. \A b \in Attempts : server'[b] = server[b] \/ (server[b] # "idle" /\ server'[b] = "ended")
  BY DEF IInv, TypeOK
<1>3. ContentsAt(a)
  BY DEF ContentsInv
<1>4. ContentsAt(a)'
  BY <1>1, <1>2, <1>3 DEF ContentsAt, Contents
<1>. QED
  BY <1>1, <1>2, <1>4, ContentsStep

LEMMA ClientContents ==
  ASSUME IInv, ContentsInv, NEW a \in Attempts, GiveUp(a) \/ Lose(a) \/ Receive(a)
  PROVE  ContentsInv'
<1>1. Unread("unknown", 0).told # "invalid" /\ Unread("unknown", 0).status = 0
  BY DEF Unread
<1>2. CASE GiveUp(a)
  BY <1>1, <1>2, EndContents DEF GiveUp
<1>3. CASE Lose(a)
  BY <1>1, <1>3, EndContents DEF Lose
<1>4. CASE Receive(a)
  <2>1. Decoding(call, answer[a]).told \in {"value", "unknown"}
    BY DecodingTold DEF IInv
  <2>2. answer[a].status # 0 /\ End(a, Decoding(call, answer[a]))
    BY <1>4 DEF Receive
  <2>. HIDE DEF IInv
  <2>3. Decoding(call, answer[a]).told # "invalid"
    BY <2>1
  <2>. QED
    BY <1>4, <2>2, <2>3, EndContents DEF Receive
<1>. QED
  BY <1>2, <1>3, <1>4

\* What the server knows of a request that it works at.
LEMMA AtServer ==
  ASSUME IInv, ContentsInv, NEW a \in Attempts, server[a] # "idle"
  PROVE  /\ wire[a] = Request(call) /\ Request(call) # Failed /\ WireOK(wire[a])
         /\ server[a] \in {"called", "decoded"} =>
              reply[a].code = "none" /\ answer[a].status = 0
         /\ server[a] \in {"called", "decoded", "invoking", "returned"} => result[a].status = 0
<1>1. ContentsAt(a)
  BY DEF ContentsInv
<1>2. wire[a] = Request(call) /\ Request(call) # Failed
  BY <1>1 DEF ContentsAt, Contents
<1>3. WireOK(wire[a])
  BY <1>2, Requests DEF IInv
<1>4. Phases(a)
  BY DEF IInv, GatewayInv
<1>5. server[a] \in {"called", "decoded", "invoking", "returned"} => result[a].status = 0
  BY <1>1, <1>4 DEF Phases, ContentsAt, Contents
<1>. QED
  BY <1>2, <1>3, <1>4, <1>5 DEF Phases

\* The server answers without having put the request to the service.
LEMMA RefusedContents ==
  ASSUME IInv, ContentsInv, NEW a \in Attempts, server[a] \in {"called", "decoded"},
         NEW response, Answered(a, response), response.status \notin 200 .. 299,
         ~Conforms(wire[a]), UNCHANGED <<call, client, wire, args, rpc, reply, result>>
  PROVE  ContentsInv'
<1>1. /\ server'[a] = "ended" /\ answer'[a] = response
      /\ \A b \in Attempts \ {a} : server'[b] = server[b] /\ answer'[b] = answer[b]
  BY DEF IInv, TypeOK, Answered
<1>2. ContentsAt(a)
  BY DEF ContentsInv
<1>3. reply[a].code = "none" /\ result[a].status = 0
  BY AtServer
<1>4. ContentsAt(a)'
  BY <1>1, <1>2, <1>3 DEF ContentsAt, Contents
<1>. QED
  BY <1>1, <1>4, ContentsStep

LEMMA HandlingContents ==
  ASSUME IInv, ContentsInv, NEW a \in Attempts, Handling(a)
  PROVE  ContentsInv'
<1>1. CASE notFound(a)
  <2>1. ~Conforms(wire[a])
    BY <1>1, NoRouteConforms DEF notFound
  <2>. QED
    BY <1>1, <2>1, RefusedContents DEF notFound, Response
<1>2. CASE notAllowed(a)
  <2>1. ~Conforms(wire[a])
    BY <1>2, NoRouteConforms DEF notAllowed
  <2>. QED
    BY <1>2, <2>1, RefusedContents DEF notAllowed, Response
<1>3. ASSUME NEW op \in Served, Handle(a, op, ParamsOf(op, wire[a]), BodyOf(op, wire[a]))
      PROVE  ContentsInv'
  <2>. DEFINE ps == ParamsOf(op, wire[a])  body == BodyOf(op, wire[a])
  <2>1. server[a] = "called" /\ Routed(wire[a], op)
    BY <1>3 DEF Handle
  <2>2. WireOK(wire[a]) /\ reply[a].code = "none" /\ answer[a].status = 0 /\ result[a].status = 0
    BY <2>1, AtServer
  <2>3. CASE ps = Failed \/ body \in {Failed, Unsupported}
    <3>1. ~Accepts(op, wire[a])
      BY <2>3 DEF Accepts
    <3>2. ~Conforms(wire[a])
      BY <2>1, <2>2, <3>1, ServesConforming
    <3>3. Answered(a, Problem(400)) \/ Answered(a, Problem(415))
      BY <1>3, <2>3 DEF Handle
    <3>4. UNCHANGED <<call, client, wire, args, rpc, reply, result>>
      BY <1>3, <2>3 DEF Handle
    <3>5. Problem(400).status = 400 /\ Problem(415).status = 415
      BY DEF Problem, Response
    <3>. QED
      BY <2>1, <3>2, <3>3, <3>4, <3>5, RefusedContents
  <2>4. CASE ps # Failed /\ body \notin {Failed, Unsupported}
    <3>1. /\ args' = [args EXCEPT ![a] = [params |-> ps, req |-> body]]
          /\ server' = [server EXCEPT ![a] = "decoded"]
          /\ UNCHANGED <<call, client, wire, rpc, reply, answer, result>>
      BY <1>3, <2>4 DEF Handle
    <3>2. /\ args'[a] = [params |-> ps, req |-> body] /\ server'[a] = "decoded"
          /\ \A b \in Attempts \ {a} : args'[b] = args[b] /\ server'[b] = server[b]
      BY <3>1 DEF IInv, TypeOK
    <3>3. Decided(op, wire[a], args'[a])
      BY <2>1, <2>4, <3>2 DEF Decided
    <3>4. ContentsAt(a)
      BY DEF ContentsInv
    <3>5. ContentsAt(a)'
      BY <2>1, <2>2, <3>1, <3>2, <3>3, <3>4 DEF ContentsAt, Contents
    <3>. QED
      BY <3>1, <3>2, <3>5, ContentsStep
  <2>. QED
    BY <2>3, <2>4
<1>. QED
  BY <1>1, <1>2, <1>3, HandlingByOp

LEMMA InvokingContents ==
  ASSUME IInv, ContentsInv, NEW a \in Attempts, Invoking(a)
  PROVE  ContentsInv'
<1>1. PICK op \in Served :
        Invoke(a, op, MessageOf(op, args[a].params, args[a].req), MetadataOf(op, args[a].params))
  BY InvokingByOp
<1>2. server[a] = "decoded" /\ Routed(wire[a], op)
  BY <1>1 DEF Invoke
<1>3. ContentsAt(a)
  BY DEF ContentsInv
<1>4. PICK o \in Served : Decided(o, wire[a], args[a])
  BY <1>2, <1>3 DEF ContentsAt, Contents
<1>5. o = op
  BY <1>2, <1>4, OneRoute DEF Decided
<1>. DEFINE ps == ParamsOf(op, wire[a])  body == BodyOf(op, wire[a])
            msg == MessageOf(op, ps, body)  md == MetadataOf(op, ps)
<1>6. /\ args[a].params = ps /\ args[a].req = body
      /\ ps # Failed /\ body \notin {Failed, Unsupported}
  BY <1>4, <1>5 DEF Decided
<1>7. Invoke(a, op, msg, md)
  BY <1>1, <1>6
<1>8. WireOK(wire[a]) /\ reply[a].code = "none" /\ answer[a].status = 0 /\ result[a].status = 0
  BY <1>2, AtServer
<1>9. CASE msg = Failed
  <2>1. ~Accepts(op, wire[a])
    BY <1>9 DEF Accepts
  <2>2. ~Conforms(wire[a])
    BY <1>2, <1>8, <2>1, ServesConforming
  <2>3. Answered(a, Problem(500)) /\ UNCHANGED <<call, client, wire, args, rpc, reply, result>>
    BY <1>7, <1>9 DEF Invoke
  <2>4. Problem(500).status = 500
    BY DEF Problem, Response
  <2>. QED
    BY <1>2, <2>2, <2>3, <2>4, RefusedContents
<1>10. CASE msg # Failed
  <2>. HIDE DEF msg, md, ps, body
  <2>1. /\ rpc' = [rpc EXCEPT ![a] = [msg |-> msg, md |-> md]]
        /\ reply' = [reply EXCEPT ![a] = [code |-> "running", msg |-> None]]
        /\ server' = [server EXCEPT ![a] = "invoking"]
        /\ UNCHANGED <<call, client, wire, args, answer, result>>
    BY <1>7, <1>10 DEF Invoke
  <2>2. /\ rpc'[a] = [msg |-> msg, md |-> md] /\ reply'[a].code = "running"
        /\ server'[a] = "invoking"
        /\ \A b \in Attempts \ {a} :
             rpc'[b] = rpc[b] /\ reply'[b] = reply[b] /\ server'[b] = server[b]
    BY <2>1 DEF IInv, TypeOK
  <2>3. Invoked(op, wire[a], rpc'[a])
    BY <1>2, <1>6, <1>10, <2>2 DEF Invoked, Accepts, msg, md, ps, body
  <2>4. ContentsAt(a)'
    BY <1>2, <1>3, <1>8, <2>1, <2>2, <2>3 DEF ContentsAt, Contents
  <2>. QED
    BY <2>1, <2>2, <2>4, ContentsStep
<1>. QED
  BY <1>9, <1>10

LEMMA ReturnContents ==
  ASSUME IInv, ContentsInv, NEW a \in Attempts, Return(a)
  PROVE  ContentsInv'
<1>1. PICK r \in Replies(call) : reply' = [reply EXCEPT ![a] = r]
  BY DEF Return
<1>2. /\ server[a] = "invoking" /\ server' = [server EXCEPT ![a] = "returned"]
      /\ UNCHANGED <<call, client, wire, args, rpc, answer, result>>
  BY DEF Return
<1>3. /\ reply'[a] = r /\ server'[a] = "returned"
      /\ \A b \in Attempts \ {a} : reply'[b] = reply[b] /\ server'[b] = server[b]
  BY <1>1, <1>2 DEF IInv, TypeOK
<1>4. reply[a].code = "running" /\ answer[a].status = 0
  BY <1>2 DEF IInv, GatewayInv, Phases
<1>5. result[a].status = 0
  BY <1>2, AtServer
<1>6. ContentsAt(a)
  BY DEF ContentsInv
<1>7. ContentsAt(a)'
  BY <1>2, <1>3, <1>4, <1>5, <1>6 DEF ContentsAt, Contents
<1>. QED
  BY <1>2, <1>3, <1>7, ContentsStep

LEMMA RespondingContents ==
  ASSUME IInv, ContentsInv, NEW a \in Attempts, Responding(a)
  PROVE  ContentsInv'
<1>1. PICK op \in Served :
        /\ server[a] = "returned" /\ Routed(wire[a], op)
        /\ Answered(a, AnswerTo(op, reply[a]))
        /\ UNCHANGED <<call, client, wire, args, rpc, reply, result>>
  BY RespondingByOp
<1>2. /\ server'[a] = "ended" /\ answer'[a] = AnswerTo(op, reply[a])
      /\ \A b \in Attempts \ {a} : server'[b] = server[b] /\ answer'[b] = answer[b]
  BY <1>1 DEF IInv, TypeOK, Answered
<1>3. reply[a].code # "none"
  BY <1>1 DEF IInv, GatewayInv, Phases
<1>4. result[a].status = 0
  BY <1>1, AtServer
<1>5. ContentsAt(a)
  BY DEF ContentsInv
<1>6. ContentsAt(a)'
  BY <1>1, <1>2, <1>3, <1>4, <1>5 DEF ContentsAt, Contents
<1>. QED
  BY <1>1, <1>2, <1>6, ContentsStep

LEMMA PanicContents ==
  ASSUME IInv, ContentsInv, NEW a \in Attempts, Panic(a)
  PROVE  ContentsInv'
<1>1. ASSUME NEW b \in Attempts PROVE ContentsAt(b)'
  <2>1. server'[b] = server[b] \/ (server[b] # "idle" /\ server'[b] = "ended")
    BY <1>1 DEF Panic
  <2>2. ContentsAt(b)
    BY <1>1 DEF ContentsInv
  <2>. QED
    BY <2>1, <2>2, OtherContents DEF Panic
<1>. QED
  BY <1>1 DEF ContentsInv, Attempts

LEMMA ContentsInit == Init => ContentsInv
<1>. SUFFICES ASSUME Init, NEW a \in Attempts PROVE ContentsAt(a)
  BY DEF ContentsInv
<1>1. /\ server[a] = "idle" /\ reply[a].code = "none" /\ answer[a].status = 0
      /\ result[a].told = "none" /\ result[a].status = 0
  BY DEF Init, Unread
<1>. QED
  BY <1>1 DEF ContentsAt, Contents

LEMMA ContentsKept == IInv /\ ContentsInv /\ [Next]_vars => ContentsInv'
<1>. SUFFICES ASSUME IInv, ContentsInv, [Next]_vars PROVE ContentsInv'
  OBVIOUS
<1>1. ASSUME NEW a \in Attempts, Send(a) \/ GiveUp(a) \/ Panic(a) \/ Progress(a)
      PROVE  ContentsInv'
  BY <1>1, SendContents, ClientContents, PanicContents, HandlingContents, InvokingContents,
     ReturnContents, RespondingContents DEF Progress
<1>2. CASE UNCHANGED vars
  BY <1>2 DEF ContentsInv, ContentsAt, Attempts, vars
<1>. QED
  BY <1>1, <1>2 DEF Next

\* What each stage of each attempt has made of what the caller sends and the
\* service returns: the request on the wire, the arguments, the RPC, the answer
\* and the result are, until they are compared, images of what was there before.
THEOREM ContentsInvariant == Spec => [](IInv /\ ContentsInv)
<1>1. Init => IInv /\ ContentsInv
  BY InvInit, ContentsInit
<1>2. IInv /\ ContentsInv /\ [Next]_vars => (IInv /\ ContentsInv)'
  BY InvStep, ContentsKept
<1>. QED
  BY <1>1, <1>2, PTL DEF Spec

-----------------------------------------------------------------------------
(* The properties *)

\* What the service is called with comes from what was sent.
LEMMA InvokedSees ==
  ASSUME IInv, ContentsInv, NEW a \in Attempts, reply[a].code # "none"
  PROVE  /\ Conforms(wire[a])
         /\ \E op : /\ Routed(wire[a], op)
                    /\ Says(op, SentBody(a), IF call.op = "raw" THEN wire[a].params ELSE call.params,
                            rpc[a].msg, rpc[a].md)
<1>1. ContentsAt(a) /\ Phases(a)
  BY DEF ContentsInv, IInv, GatewayInv
<1>2. server[a] # "idle"
  BY <1>1 DEF Phases
<1>3. wire[a] = Request(call) /\ Request(call) # Failed /\ WireOK(wire[a]) /\ call \in Calls
  BY <1>2, AtServer DEF IInv
<1>4. PICK op \in Served : Invoked(op, wire[a], rpc[a])
  BY <1>1 DEF ContentsAt, Contents
<1>5. Routed(wire[a], op) /\ Accepts(op, wire[a])
  BY <1>4 DEF Invoked
<1>6. Conforms(wire[a]) /\ Received(op, wire[a])
  BY <1>3, <1>5, ServesConforming
<1>7. Says(op, wire[a].body, wire[a].params, rpc[a].msg, rpc[a].md)
  BY <1>4, <1>6 DEF Invoked, Received
<1>8. CASE call.op = "raw"
  BY <1>5, <1>6, <1>7, <1>8 DEF SentBody
<1>9. CASE call.op # "raw"
  <2>1. Sent(call, wire[a])
    BY <1>3, <1>9, Requests
  <2>2. op = call.op
    BY <1>5, <2>1, OneRoute DEF Sent
  <2>3. Says(op, call.req, call.params, rpc[a].msg, rpc[a].md)
    BY <1>7, <2>1, <2>2 DEF Sent
  <2>. QED
    BY <1>5, <1>6, <1>9, <2>3 DEF SentBody
<1>. QED
  BY <1>8, <1>9

\* The service sees in the request message, and in the metadata, what the
\* caller has sent in the body, the path, the query and the headers: whatever
\* the client, the server's decoders, the adapter and the converters make of
\* the fields in between.
THEOREM SentIsSeen == Spec => []ServiceSeesSent
<1>1. ASSUME IInv, ContentsInv PROVE ServiceSeesSent
  <2>1. ASSUME NEW a \in Attempts, reply[a].code # "none"
        PROVE  /\ SameBody(wire[a], SentBody(a), rpc[a].msg)
               /\ \A pf \in ParamFields : Routed(wire[a], pf[1]) =>
                    Same(ParamKind(pf[2]), SentParam(a, pf[2]), rpc[a].msg[pf[3]])
               /\ Routed(wire[a], "getUser") =>
                    (("xRequestID" \in rpc[a].md) <=> ~Blank("presence", SentParam(a, "xRequestID")))
               /\ Routed(wire[a], "userChangedWebhook") => "xWebhookDelivery" \in rpc[a].md
    <3>. DEFINE ps == IF call.op = "raw" THEN wire[a].params ELSE call.params
    <3>1. \E op : Routed(wire[a], op) /\ Says(op, SentBody(a), ps, rpc[a].msg, rpc[a].md)
      BY <1>1, <2>1, InvokedSees
    <3>2. \A p : SentParam(a, p) = ps[p]
      BY DEF SentParam
    <3>. HIDE DEF ps
    <3>3. Sees(wire[a], SentBody(a), ps, rpc[a].msg, rpc[a].md)
      BY <3>1, SeesByOp
    <3>. QED
      BY <3>2, <3>3 DEF Sees
  <2>. QED
    BY <2>1 DEF ServiceSeesSent
<1>. QED
  BY <1>1, ContentsInvariant, PTL

\* A service is only ever called with a request that the document allows: no
\* order of decoding, validation and conversion lets another through.
THEOREM ServedConforms == Spec => []OnlyConformingServed
<1>1. ASSUME IInv, ContentsInv PROVE OnlyConformingServed
  BY <1>1, InvokedSees DEF OnlyConformingServed
<1>. QED
  BY <1>1, ContentsInvariant, PTL

\* A request that the document allows is never answered before the service
\* is called, and the client's own validation only refuses what the document
\* does not allow.
THEOREM ConformingIsServed == Spec => []ConformingServed
<1>1. ASSUME IInv, ContentsInv PROVE ConformingServed
  <2>. USE <1>1
  <2>1. ASSUME NEW a \in Attempts, answer[a].status # 0, reply[a].code = "none"
        PROVE  ~Conforms(wire[a])
    <3>1. ContentsAt(a)
      BY DEF ContentsInv
    <3>. QED
      BY <2>1, <3>1 DEF ContentsAt, Contents
  <2>2. ASSUME NEW a \in Attempts, result[a].told = "invalid"
        PROVE  ~BodyConforms(call.op, "json",
                 CASE call.op = "createUser" -> UserInputEncode(call.req)
                   [] call.op = "echoCoverage" -> EchoCoverageRequestEncode(call.req)
                   [] call.op = "userChangedWebhook" -> UserChangedPayloadEncode(call.req))
    <3>1. ContentsAt(a)
      BY DEF ContentsInv
    <3>2. Request(call) = Failed /\ call \in Calls
      BY <2>2, <3>1 DEF ContentsAt, Contents, IInv
    <3>. QED
      BY <3>2, Requests
  <2>. QED
    BY <2>1, <2>2 DEF ConformingServed
<1>. QED
  BY <1>1, ContentsInvariant, PTL

\* A success that the server sends to the typed client is one that it reads,
\* and the caller gets the message that the service has returned.
THEOREM AnswersAreRead == Spec => []ClientReadsAnswers
<1>1. ASSUME IInv, ContentsInv PROVE ClientReadsAnswers
  <2>1. ASSUME NEW a \in Attempts, call.op # "raw", result[a].status \in 200 .. 299
        PROVE  Read(call.op, reply[a].msg, result[a])
    <3>1. ContentsAt(a) /\ Phases(a) /\ call \in Calls
      BY <1>1 DEF ContentsInv, IInv, GatewayInv
    <3>2. answer[a].status # 0 /\ result[a] = Decoding(call, answer[a])
      BY <2>1, <3>1 DEF ContentsAt, Contents
    <3>3. answer[a].status \in 200 .. 299
      BY <2>1, <3>1, <3>2, GotStatus
    <3>4. /\ reply[a] \in Replies(call)
          /\ \E op : Routed(wire[a], op) /\ answer[a] = AnswerTo(op, reply[a])
      BY <3>1, <3>3 DEF ContentsAt, Contents
    <3>5. PICK op : Routed(wire[a], op) /\ answer[a] = AnswerTo(op, reply[a])
      BY <3>4
    <3>6. server[a] # "idle"
      BY <3>1, <3>2 DEF Phases
    <3>7. Sent(call, wire[a])
      BY <1>1, <2>1, <3>1, <3>6, AtServer, Requests
    <3>8. op = call.op
      BY <3>5, <3>7, OneRoute DEF Sent
    <3>. QED
      BY <2>1, <3>1, <3>2, <3>3, <3>4, <3>5, <3>8, ReadsAnswers
  <2>. QED
    BY <2>1 DEF ClientReadsAnswers, Read
<1>. QED
  BY <1>1, ContentsInvariant, PTL
=============================================================================
