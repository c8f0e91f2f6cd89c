------------------------------- MODULE Gateway -------------------------------
(***************************************************************************)
(* The generated example at work (src/example/gen): a caller with ogen's   *)
(* typed client, or with HTTP requests of its own; ogen's server; the      *)
(* adapter; and the gRPC services behind it.  A call may be tried again.   *)
(***************************************************************************)
EXTENDS Messages, Integers

CONSTANTS
  Calls,       \* what callers send: [op, params, req, tries], or
               \* [op |-> "raw", http, tries] for any other HTTP client
  Replies(_),  \* how the service may return from a call
  MaxTries,
  Unsupported  \* instead of a message: a body of another content type

Ops ==
  {"raw", "createPost", "createUser", "deleteUser", "echoCoverage", "getHealth", "getUser",
   "listUsers", "uploadAvatar", "watchCoverage", "userChangedWebhook"}

ASSUME GatewayAssumption ==
  /\ MaxTries \in Nat \ {0}
  /\ Unsupported # Failed
  /\ \A c \in Calls :
       /\ c.op \in Ops /\ c.tries \in 1 .. MaxTries
       /\ \A r \in Replies(c) : r.code \notin {"none", "running"}

Attempts == 1 .. MaxTries

VARIABLES
  call,    \* the caller's call
  client,  \* per attempt: "idle", "waiting", "ended"
  wire,    \* the HTTP request of an attempt
  server,  \* "idle", "called", "decoded", "invoking" the service, "returned",
           \* "ended"
  args,    \* what the handler passes to the adapter: [params, req]
  rpc,     \* the request and the incoming metadata that the service sees
  reply,   \* what it returns; the code is "none" before and "running" meanwhile
  answer,  \* the HTTP response; no response has status 0
  result   \* what the caller gets: [told, status, value]

(* A result without a value.                                               *)
Unread(t, status) == [told |-> t, status |-> status, value |-> None]

vars == <<call, client, wire, server, args, rpc, reply, answer, result>>

Init ==
  /\ call \in Calls
  /\ client = [a \in Attempts |-> "idle"]
  /\ wire = [a \in Attempts |-> None]
  /\ server = [a \in Attempts |-> "idle"]
  /\ args = [a \in Attempts |-> [params |-> None, req |-> None]]
  /\ rpc = [a \in Attempts |-> [msg |-> None, md |-> {}]]
  /\ reply = [a \in Attempts |-> [code |-> "none", msg |-> None]]
  /\ answer = [a \in Attempts |-> [status |-> 0, type |-> "none", body |-> None]]
  /\ result = [a \in Attempts |-> Unread("none", 0)]

-----------------------------------------------------------------------------
(* The client: the HTTP request for a call.  Parameters are classes as the *)
(* fields of a message are.                                                *)
ParamNames ==
  {"id", "xRequestID", "idempotencyKey", "pageSize", "pageToken", "filters",
   "topic", "xWebhookDelivery"}

EncodeParams(c, names) ==
  [p \in ParamNames |->
     IF p \notin names \/ c.params[p] \in {"unset", "null"} THEN "absent"
     ELSE IF p = "filters" /\ c.params[p] = "zero" THEN "absent"
     ELSE c.params[p]]

Http(method, path, params, type, body) ==
  [method |-> method, path |-> path, params |-> params, type |-> type, body |-> body]

encodeCreatePostRequest(req) == CreatePostRequestEncode(req)
encodeCreateUserRequest(req) == UserInputEncode(req)
encodeEchoCoverageRequest(req) == EchoCoverageRequestEncode(req)
encodeUploadAvatarRequest(req) == [data |-> req.data]
encodeUserChangedWebhookRequest(req) == UserChangedPayloadEncode(req)

sendCreatePost(c) ==
  Http("POST", "/v1/posts", EncodeParams(c, {}), "multipart", encodeCreatePostRequest(c.req))

sendCreateUser(c) ==
  IF ~UserInputValidate(c.req) THEN Failed
  ELSE Http("POST", "/v1/users", EncodeParams(c, {"idempotencyKey"}), "json",
            encodeCreateUserRequest(c.req))

sendDeleteUser(c) ==
  Http("DELETE", "/v1/users/{id}", EncodeParams(c, {"id"}), "none", None)

sendEchoCoverage(c) ==
  IF ~EchoCoverageRequestValidate(c.req) THEN Failed
  ELSE Http("POST", "/v1/coverage/echo", EncodeParams(c, {}), "json",
            encodeEchoCoverageRequest(c.req))

sendGetHealth(c) ==
  Http("GET", "/v1/admin/health", EncodeParams(c, {}), "none", None)

sendGetUser(c) ==
  Http("GET", "/v1/users/{id}", EncodeParams(c, {"id", "xRequestID"}), "none", None)

sendListUsers(c) ==
  Http("GET", "/v1/users", EncodeParams(c, {"pageSize", "pageToken", "filters"}),
       "none", None)

sendUploadAvatar(c) ==
  Http("POST", "/v1/avatar", EncodeParams(c, {}), "png", encodeUploadAvatarRequest(c.req))

sendWatchCoverage(c) ==
  Http("GET", "/v1/coverage/watch", EncodeParams(c, {"topic"}), "none", None)

sendUserChangedWebhook(c) ==
  IF ~UserChangedPayloadValidate(c.req) THEN Failed
  ELSE Http("POST", "webhook", EncodeParams(c, {"xWebhookDelivery"}), "json",
            encodeUserChangedWebhookRequest(c.req))

Request(c) ==
  CASE c.op = "raw" -> c.http
    [] c.op = "createPost" -> sendCreatePost(c)
    [] c.op = "createUser" -> sendCreateUser(c)
    [] c.op = "deleteUser" -> sendDeleteUser(c)
    [] c.op = "echoCoverage" -> sendEchoCoverage(c)
    [] c.op = "getHealth" -> sendGetHealth(c)
    [] c.op = "getUser" -> sendGetUser(c)
    [] c.op = "listUsers" -> sendListUsers(c)
    [] c.op = "uploadAvatar" -> sendUploadAvatar(c)
    [] c.op = "watchCoverage" -> sendWatchCoverage(c)
    [] c.op = "userChangedWebhook" -> sendUserChangedWebhook(c)

End(a, outcome) ==
  /\ client' = [client EXCEPT ![a] = "ended"]
  /\ result' = [result EXCEPT ![a] = outcome]

(* Faulty variant of Send: also what has an outcome is sent again.         *)
SendAgain(a) ==
  /\ client[a] = "idle" /\ a <= call.tries
  /\ a > 1 => client[a-1] = "ended"
  /\ \/ /\ Request(call) = Failed
        /\ End(a, Unread("invalid", 0))
        /\ UNCHANGED <<server, wire>>
     \/ /\ Request(call) # Failed
        /\ wire' = [wire EXCEPT ![a] = Request(call)]
        /\ client' = [client EXCEPT ![a] = "waiting"]
        /\ server' = [server EXCEPT ![a] = "called"]
        /\ UNCHANGED result
  /\ UNCHANGED <<call, args, rpc, reply, answer>>

(* The caller tries again when it does not know what became of the call.   *)
Send(a) ==
  /\ client[a] = "idle" /\ a <= call.tries
  /\ a > 1 => result[a-1].told = "unknown"
  /\ \/ /\ Request(call) = Failed
        /\ End(a, Unread("invalid", 0))
        /\ UNCHANGED <<server, wire>>
     \/ /\ Request(call) # Failed
        /\ wire' = [wire EXCEPT ![a] = Request(call)]
        /\ client' = [client EXCEPT ![a] = "waiting"]
        /\ server' = [server EXCEPT ![a] = "called"]
        /\ UNCHANGED result
  /\ UNCHANGED <<call, args, rpc, reply, answer>>

(* The caller's context ends or the connection breaks, with the request on *)
(* its way or lost.                                                        *)
GiveUp(a) ==
  /\ client[a] = "waiting"
  /\ End(a, Unread("unknown", 0))
  /\ \/ UNCHANGED server
     \/ server[a] = "called" /\ server' = [server EXCEPT ![a] = "ended"]
  /\ UNCHANGED <<call, wire, args, rpc, reply, answer>>

(* The server has closed the connection without an answer.                 *)
Lose(a) ==
  /\ client[a] = "waiting" /\ server[a] = "ended" /\ answer[a].status = 0
  /\ End(a, Unread("unknown", 0))
  /\ UNCHANGED <<call, wire, server, args, rpc, reply, answer>>

-----------------------------------------------------------------------------
(* The router.                                                             *)
Routes ==
  { <<"GET", "/v1/admin/health", "getHealth">>,
    <<"POST", "/v1/avatar", "uploadAvatar">>,
    <<"POST", "/v1/coverage/echo", "echoCoverage">>,
    <<"GET", "/v1/coverage/watch", "watchCoverage">>,
    <<"POST", "/v1/posts", "createPost">>,
    <<"GET", "/v1/users", "listUsers">>,
    <<"POST", "/v1/users", "createUser">>,
    <<"DELETE", "/v1/users/{id}", "deleteUser">>,
    <<"GET", "/v1/users/{id}", "getUser">> }

WebhookRoutes == {<<"POST", "webhook", "userChangedWebhook">>}

Routed(h, op) == <<h.method, h.path, op>> \in Routes \cup WebhookRoutes

Answered(a, response) ==
  /\ server' = [server EXCEPT ![a] = "ended"]
  /\ answer' = [answer EXCEPT ![a] = response]

Response(status, type, body) == [status |-> status, type |-> type, body |-> body]

(* What http.NotFound, notAllowed and ogen's ErrorHandler write is not the *)
(* Error of the document.                                                  *)
Problem(status) == Response(status, "json", Odd)

notFound(a) ==
  /\ server[a] = "called"
  /\ \A r \in Routes \cup WebhookRoutes : r[2] # wire[a].path
  /\ Answered(a, Response(404, "other", Odd))
  /\ UNCHANGED <<call, client, wire, args, rpc, reply, result>>

(* Faulty variant of notAllowed: methods that no route has get no answer.  *)
notAllowedUnknown(a) ==
  /\ server[a] = "called"
  /\ \E r \in Routes \cup WebhookRoutes : r[1] = wire[a].method
  /\ \E r \in Routes \cup WebhookRoutes : r[2] = wire[a].path
  /\ \A r \in Routes \cup WebhookRoutes : r[2] = wire[a].path => r[1] # wire[a].method
  /\ Answered(a, Response(405, "other", Odd))
  /\ UNCHANGED <<call, client, wire, args, rpc, reply, result>>

notAllowed(a) ==
  /\ server[a] = "called"
  /\ \E r \in Routes \cup WebhookRoutes : r[2] = wire[a].path
  /\ \A r \in Routes \cup WebhookRoutes : r[2] = wire[a].path => r[1] # wire[a].method
  /\ Answered(a, Response(405, "other", Odd))
  /\ UNCHANGED <<call, client, wire, args, rpc, reply, result>>

-----------------------------------------------------------------------------
(* The parameters of an operation, decoded from a request, or Failed.      *)
ParamOk(c, required) == c # "odd" /\ (c = "absent" => ~required)

Decoded(c) == IF c = "absent" THEN "unset" ELSE c

decodeCreateUserParams(h) ==
  IF ~ParamOk(h.params.idempotencyKey, FALSE) THEN Failed
  ELSE [idempotencyKey |-> Decoded(h.params.idempotencyKey)]

decodeDeleteUserParams(h) ==
  IF ~ParamOk(h.params.id, TRUE) THEN Failed ELSE [id |-> h.params.id]

decodeGetUserParams(h) ==
  IF ~ParamOk(h.params.id, TRUE) \/ ~ParamOk(h.params.xRequestID, FALSE) THEN Failed
  ELSE [id |-> h.params.id, xRequestID |-> Decoded(h.params.xRequestID)]

(* Faulty variant of decodeListUsersParams: a page size is not validated.  *)
decodeListUsersParamsUnchecked(h) ==
  IF ~ParamOk(h.params.pageSize, FALSE) THEN Failed
  ELSE [pageSize |-> Decoded(h.params.pageSize), pageToken |-> Decoded(h.params.pageToken),
        filters |-> Decoded(h.params.filters)]

(* A page size is within 1 .. 100, if there is one: neither 0 nor 101.     *)
decodeListUsersParams(h) ==
  IF h.params.pageSize \in {"odd", "bad", "zero"} THEN Failed
  ELSE [pageSize |-> Decoded(h.params.pageSize), pageToken |-> Decoded(h.params.pageToken),
        filters |-> Decoded(h.params.filters)]

decodeWatchCoverageParams(h) ==
  IF ~ParamOk(h.params.topic, TRUE) THEN Failed ELSE [topic |-> h.params.topic]

decodeUserChangedWebhookParams(h) ==
  IF ~ParamOk(h.params.xWebhookDelivery, TRUE) THEN Failed
  ELSE [xWebhookDelivery |-> h.params.xWebhookDelivery]

(* The body of a request, decoded and validated.                           *)
Checked(v, Validate(_)) == IF \E x \in {v} \ {Failed} : Validate(x) THEN v ELSE Failed

(* No content type at all is an error of its own.                          *)
Typed(h, type, v) ==
  IF h.type = "none" THEN Failed ELSE IF h.type # type THEN Unsupported ELSE v

decodeCreatePostRequest(h) == Typed(h, "multipart", CreatePostRequestDecode(h.body))

decodeCreateUserRequest(h) ==
  Typed(h, "json", Checked(UserInputDecode(h.body), UserInputValidate))

decodeEchoCoverageRequest(h) ==
  Typed(h, "json", Checked(EchoCoverageRequestDecode(h.body), EchoCoverageRequestValidate))

(* A file may be empty, and is not read here.                              *)
decodeUploadAvatarRequest(h) == Typed(h, "png", h.body)

decodeUserChangedWebhookRequest(h) ==
  Typed(h, "json", Checked(UserChangedPayloadDecode(h.body), UserChangedPayloadValidate))

-----------------------------------------------------------------------------
(* The handler of an operation, up to the adapter.                         *)
Handle(a, op, params, request) ==
  /\ server[a] = "called" /\ Routed(wire[a], op)
  /\ \/ /\ params = Failed \/ request = Failed
        /\ Answered(a, Problem(400)) /\ UNCHANGED args
     \/ /\ params # Failed /\ request = Unsupported
        /\ Answered(a, Problem(415)) /\ UNCHANGED args
     \/ /\ params # Failed /\ request \notin {Failed, Unsupported}
        /\ args' = [args EXCEPT ![a] = [params |-> params, req |-> request]]
        /\ server' = [server EXCEPT ![a] = "decoded"]
        /\ UNCHANGED answer
  /\ UNCHANGED <<call, client, wire, rpc, reply, result>>

handleCreatePostRequest(a) ==
  Handle(a, "createPost", None, decodeCreatePostRequest(wire[a]))

handleCreateUserRequest(a) ==
  Handle(a, "createUser", decodeCreateUserParams(wire[a]), decodeCreateUserRequest(wire[a]))

handleDeleteUserRequest(a) ==
  Handle(a, "deleteUser", decodeDeleteUserParams(wire[a]), None)

handleEchoCoverageRequest(a) ==
  Handle(a, "echoCoverage", None, decodeEchoCoverageRequest(wire[a]))

handleGetHealthRequest(a) == Handle(a, "getHealth", None, None)

handleGetUserRequest(a) == Handle(a, "getUser", decodeGetUserParams(wire[a]), None)

handleListUsersRequest(a) == Handle(a, "listUsers", decodeListUsersParams(wire[a]), None)

handleUploadAvatarRequest(a) ==
  Handle(a, "uploadAvatar", None, decodeUploadAvatarRequest(wire[a]))

handleWatchCoverageRequest(a) ==
  Handle(a, "watchCoverage", decodeWatchCoverageParams(wire[a]), None)

handleUserChangedWebhookRequest(a) ==
  Handle(a, "userChangedWebhook", decodeUserChangedWebhookParams(wire[a]),
         decodeUserChangedWebhookRequest(wire[a]))

-----------------------------------------------------------------------------
(* The adapter, up to the RPC: the service's request and its metadata.  A  *)
(* body that does not convert is an error of the handler.                  *)
Invoke(a, op, msg, md) ==
  /\ server[a] = "decoded" /\ Routed(wire[a], op)
  /\ \/ /\ msg = Failed
        /\ Answered(a, Problem(500)) /\ UNCHANGED <<rpc, reply>>
     \/ /\ msg # Failed
        /\ rpc' = [rpc EXCEPT ![a] = [msg |-> msg, md |-> md]]
        /\ reply' = [reply EXCEPT ![a] = [code |-> "running", msg |-> None]]
        /\ server' = [server EXCEPT ![a] = "invoking"]
        /\ UNCHANGED answer
  /\ UNCHANGED <<call, client, wire, args, result>>

OrZero(v) == IF v \in {"unset", "null"} THEN "zero" ELSE v

OrNil(v) == IF v \in {"unset", "null"} THEN "nil" ELSE v

CreatePost(a) == Invoke(a, "createPost", CreatePostRequestFromOgen(args[a].req), {})

CreateUser(a) ==
  Invoke(a, "createUser", Around("user", UserInputFromOgen(args[a].req)), {})

DeleteUser(a) == Invoke(a, "deleteUser", [id |-> args[a].params.id], {})

EchoCoverage(a) == Invoke(a, "echoCoverage", EchoCoverageRequestFromOgen(args[a].req), {})

GetHealth(a) == Invoke(a, "getHealth", None, {})

(* Faulty variant of GetUser: the header is only in the message.           *)
GetUserNoMD(a) ==
  Invoke(a, "getUser",
         [id |-> args[a].params.id, requestId |-> OrNil(args[a].params.xRequestID)], {})

GetUser(a) ==
  LET requestId == OrNil(args[a].params.xRequestID)
  IN  Invoke(a, "getUser", [id |-> args[a].params.id, requestId |-> requestId],
             IF requestId = "nil" THEN {} ELSE {"xRequestID"})

(* A parameter that is a map is not assigned.                              *)
ListUsers(a) ==
  Invoke(a, "listUsers",
         [pageSize |-> OrZero(args[a].params.pageSize),
          pageToken |-> OrZero(args[a].params.pageToken), filters |-> "nil"], {})

(* Nor is a body that is one field of scalar or bytes type.                *)
UploadAvatar(a) == Invoke(a, "uploadAvatar", [data |-> "nil"], {})

WatchCoverage(a) == Invoke(a, "watchCoverage", [topic |-> args[a].params.topic], {})

UserChangedWebhook(a) ==
  LET event == UserChangedPayloadFromOgen(args[a].req)
      id == args[a].params.xWebhookDelivery
  IN  Invoke(a, "userChangedWebhook",
             IF event = Failed THEN Failed ELSE [event |-> event, deliveryId |-> id],
             {"xWebhookDelivery"})

-----------------------------------------------------------------------------
(* The service.                                                            *)
Return(a) ==
  /\ server[a] = "invoking"
  /\ \E r \in Replies(call) : reply' = [reply EXCEPT ![a] = r]
  /\ server' = [server EXCEPT ![a] = "returned"]
  /\ UNCHANGED <<call, client, wire, args, rpc, answer, result>>

(* net/http recovers a handler that panics and closes its connection; a    *)
(* streaming RPC runs on a goroutine of ServerSentEventReader, where a     *)
(* panic ends the process, which is then started again.                    *)
Panic(a) ==
  /\ server[a] = "invoking"
  /\ server' = [b \in Attempts |->
       IF server[b] # "idle" /\ (b = a \/ Routed(wire[a], "watchCoverage"))
       THEN "ended" ELSE server[b]]
  /\ UNCHANGED <<call, client, wire, args, rpc, reply, answer, result>>

(* The adapter after the RPC and the response of the handler.              *)
encodeCreatePostResponse == Response(200, "none", None)

encodeCreateUserResponse(response) ==
  IF response # Failed /\ UserValidate(response)
  THEN Response(201, "json", UserEncode(response)) ELSE Problem(500)

encodeDeleteUserResponse == Response(204, "none", None)

encodeEchoCoverageResponse(response) ==
  IF response # Failed /\ EchoCoverageResponseValidate(response)
  THEN Response(200, "json", EchoCoverageResponseEncode(response)) ELSE Problem(500)

encodeGetHealthResponse(response) ==
  IF response # Failed
  THEN Response(200, "json", GetHealthResponseEncode(response)) ELSE Problem(500)

encodeGetUserResponse(response) ==
  IF response # Failed /\ UserValidate(response)
  THEN Response(200, "json", UserEncode(response)) ELSE Problem(500)

encodeListUsersResponse(response) ==
  IF response # Failed /\ ListUsersResponseValidate(response)
  THEN Response(200, "json", ListUsersResponseEncode(response)) ELSE Problem(500)

encodeUploadAvatarResponse == Response(200, "none", None)

(* What ends a stream without a mark: to io.Copy an io.EOF of the service   *)
(* is the end, and the handler takes ErrInternalServerErrorResponse for an  *)
(* error that is answered already.                                         *)
Unmarked == {"OK", "EOF", "ErrInternalServerErrorResponse"}

(* The status goes out before the RPC returns; any other error of the RPC  *)
(* is written behind the events ("bad").  The client reads to the end.     *)
encodeWatchCoverageResponse(code) ==
  Response(200, "sse", IF code \in Unmarked THEN "good" ELSE "bad")

encodeUserChangedWebhookResponse == Response(204, "none", None)

(* Faulty variant of Respond: an error of the RPC is taken for the caller's. *)
RespondBlaming(a, op, response) ==
  /\ server[a] = "returned" /\ Routed(wire[a], op)
  /\ Answered(a, IF reply[a].code = "OK" THEN response ELSE Problem(400))
  /\ UNCHANGED <<call, client, wire, args, rpc, reply, result>>

(* An error of the RPC is returned as it is.                               *)
Respond(a, op, response) ==
  /\ server[a] = "returned" /\ Routed(wire[a], op)
  /\ Answered(a, IF reply[a].code = "OK" THEN response ELSE Problem(500))
  /\ UNCHANGED <<call, client, wire, args, rpc, reply, result>>

UserOf(m) == IF m = None THEN None ELSE m.user

respondCreatePost(a) == Respond(a, "createPost", encodeCreatePostResponse)

respondCreateUser(a) ==
  Respond(a, "createUser", encodeCreateUserResponse(UserToOgen(UserOf(reply[a].msg))))

respondDeleteUser(a) == Respond(a, "deleteUser", encodeDeleteUserResponse)

respondEchoCoverage(a) ==
  Respond(a, "echoCoverage",
          encodeEchoCoverageResponse(EchoCoverageResponseToOgen(reply[a].msg)))

respondGetHealth(a) ==
  Respond(a, "getHealth", encodeGetHealthResponse(GetHealthResponseToOgen(reply[a].msg)))

respondGetUser(a) ==
  Respond(a, "getUser", encodeGetUserResponse(UserToOgen(UserOf(reply[a].msg))))

respondListUsers(a) ==
  Respond(a, "listUsers", encodeListUsersResponse(ListUsersResponseToOgen(reply[a].msg)))

respondUploadAvatar(a) == Respond(a, "uploadAvatar", encodeUploadAvatarResponse)

respondWatchCoverage(a) ==
  /\ server[a] = "returned" /\ Routed(wire[a], "watchCoverage")
  /\ Answered(a, encodeWatchCoverageResponse(reply[a].code))
  /\ UNCHANGED <<call, client, wire, args, rpc, reply, result>>

respondUserChangedWebhook(a) ==
  Respond(a, "userChangedWebhook", encodeUserChangedWebhookResponse)

-----------------------------------------------------------------------------
(* Faulty variant of Got: a response that is not understood is an outcome. *)
GotError(response, v) ==
  IF v = Failed THEN Unread("error", response.status)
  ELSE [told |-> "value", status |-> response.status, value |-> v]

(* The client again: a response becomes a value, the document's Error or,  *)
(* for the caller, an error that says nothing of the service.              *)
Got(response, v) ==
  IF v = Failed THEN Unread("unknown", response.status)
  ELSE [told |-> "value", status |-> response.status, value |-> v]

Json(response, v) == IF response.type # "json" THEN Failed ELSE v

decodeDefault(response) == Got(response, Json(response, ErrorDecode(response.body)))

decodeCreatePostResponse(response) ==
  IF response.status = 200 THEN Got(response, None) ELSE decodeDefault(response)

decodeCreateUserResponse(response) ==
  IF response.status # 201 THEN decodeDefault(response)
  ELSE Got(response, Json(response, Checked(UserDecode(response.body), UserValidate)))

decodeDeleteUserResponse(response) ==
  IF response.status = 204 THEN Got(response, None) ELSE decodeDefault(response)

decodeEchoCoverageResponse(response) ==
  IF response.status # 200 THEN decodeDefault(response)
  ELSE LET v == EchoCoverageResponseDecode(response.body)
       IN  Got(response, Json(response, Checked(v, EchoCoverageResponseValidate)))

(* The document declares no error for this one.                            *)
decodeGetHealthResponse(response) ==
  IF response.status # 200 THEN Got(response, Failed)
  ELSE Got(response, Json(response, GetHealthResponseDecode(response.body)))

decodeGetUserResponse(response) ==
  IF response.status # 200 THEN decodeDefault(response)
  ELSE Got(response, Json(response, Checked(UserDecode(response.body), UserValidate)))

decodeListUsersResponse(response) ==
  IF response.status # 200 THEN decodeDefault(response)
  ELSE LET v == ListUsersResponseDecode(response.body)
       IN  Got(response, Json(response, Checked(v, ListUsersResponseValidate)))

decodeUploadAvatarResponse(response) ==
  IF response.status = 200 THEN Got(response, None) ELSE decodeDefault(response)

decodeWatchCoverageResponse(response) ==
  IF response.status # 200 THEN decodeDefault(response)
  ELSE Got(response, IF response.type # "sse" THEN Failed ELSE response.body)

decodeUserChangedWebhookResponse(response) ==
  IF response.status = 204 THEN Got(response, None) ELSE decodeDefault(response)

Decoding(c, response) ==
  CASE c.op = "raw" -> Got(response, response.body)
    [] c.op = "createPost" -> decodeCreatePostResponse(response)
    [] c.op = "createUser" -> decodeCreateUserResponse(response)
    [] c.op = "deleteUser" -> decodeDeleteUserResponse(response)
    [] c.op = "echoCoverage" -> decodeEchoCoverageResponse(response)
    [] c.op = "getHealth" -> decodeGetHealthResponse(response)
    [] c.op = "getUser" -> decodeGetUserResponse(response)
    [] c.op = "listUsers" -> decodeListUsersResponse(response)
    [] c.op = "uploadAvatar" -> decodeUploadAvatarResponse(response)
    [] c.op = "watchCoverage" -> decodeWatchCoverageResponse(response)
    [] c.op = "userChangedWebhook" -> decodeUserChangedWebhookResponse(response)

Receive(a) ==
  /\ client[a] = "waiting" /\ answer[a].status # 0
  /\ End(a, Decoding(call, answer[a]))
  /\ UNCHANGED <<call, wire, server, args, rpc, reply, answer>>

-----------------------------------------------------------------------------
(* What goes on by itself; services return.                                *)
Handling(a) ==
  \/ handleCreatePostRequest(a) \/ handleCreateUserRequest(a)
  \/ handleDeleteUserRequest(a) \/ handleEchoCoverageRequest(a)
  \/ handleGetHealthRequest(a) \/ handleGetUserRequest(a)
  \/ handleListUsersRequest(a) \/ handleUploadAvatarRequest(a)
  \/ handleWatchCoverageRequest(a) \/ handleUserChangedWebhookRequest(a)
  \/ notFound(a) \/ notAllowed(a)

Invoking(a) ==
  \/ CreatePost(a) \/ CreateUser(a) \/ DeleteUser(a) \/ EchoCoverage(a) \/ GetHealth(a)
  \/ GetUser(a) \/ ListUsers(a) \/ UploadAvatar(a) \/ WatchCoverage(a)
  \/ UserChangedWebhook(a)

Responding(a) ==
  \/ respondCreatePost(a) \/ respondCreateUser(a) \/ respondDeleteUser(a)
  \/ respondEchoCoverage(a) \/ respondGetHealth(a) \/ respondGetUser(a)
  \/ respondListUsers(a) \/ respondUploadAvatar(a) \/ respondWatchCoverage(a)
  \/ respondUserChangedWebhook(a)

Progress(a) ==
  Handling(a) \/ Invoking(a) \/ Return(a) \/ Responding(a) \/ Receive(a) \/ Lose(a)

Next == \E a \in Attempts : Send(a) \/ GiveUp(a) \/ Panic(a) \/ Progress(a)

Spec == Init /\ [][Next]_vars

FairSpec == Spec /\ \A a \in Attempts : WF_vars(Progress(a))

-----------------------------------------------------------------------------
(* Types.  The contents of messages are left to the properties below.      *)
TypeOK ==
  /\ client \in [Attempts -> {"idle", "waiting", "ended"}]
  /\ server \in [Attempts -> {"idle", "called", "decoded", "invoking", "returned", "ended"}]
  /\ DOMAIN wire = Attempts /\ DOMAIN args = Attempts /\ DOMAIN rpc = Attempts
  /\ DOMAIN reply = Attempts /\ DOMAIN answer = Attempts /\ DOMAIN result = Attempts
  /\ \A a \in Attempts :
       /\ answer[a].status \in Nat
       /\ result[a].told \in {"none", "invalid", "unknown", "value"}

(* The exchange of HTTP messages of one attempt, by the phase of the       *)
(* server, and the order of the attempts: inductive.                       *)
Phases(a) ==
  /\ server[a] \in {"idle", "called", "decoded"} => reply[a].code = "none" /\ answer[a].status = 0
  /\ server[a] = "invoking" => reply[a].code = "running" /\ answer[a].status = 0
  /\ server[a] = "returned" => reply[a].code \notin {"none", "running"} /\ answer[a].status = 0
  /\ client[a] = "idle" => server[a] = "idle" /\ result[a].told = "none"
  /\ client[a] = "waiting" => result[a].told = "none"
  /\ client[a] = "ended" => result[a].told # "none"
  /\ result[a].told = "invalid" => server[a] = "idle"

Verdicts(a) ==
  /\ answer[a].status \in 400 .. 499 => reply[a].code = "none"
  /\ answer[a].status \in 1 .. 399 => reply[a].code \notin {"none", "running"}
  /\ answer[a].status \in 1 .. 399 /\ reply[a].code # "OK" => answer[a].type = "sse"
  /\ answer[a].status \in 1 .. 399 /\ answer[a].type = "sse" /\ answer[a].body # "good" =>
       reply[a].code # "OK"
  /\ result[a].told = "value" => answer[a].status # 0

GatewayInv ==
  \A a \in Attempts :
    /\ Phases(a)
    /\ Verdicts(a)
    /\ client[a] # "idle" => \A b \in 1 .. a - 1 : result[b].told = "unknown"

(* The gateway implements Exchange.                                        *)
Work(a) ==
  CASE reply[a].code \in {"none", "running"} -> reply[a].code
    [] reply[a].code = "OK" -> "done"
    [] OTHER -> "failed"

Verdict(a) ==
  CASE answer[a].status = 0 -> "none"
    [] answer[a].status \in 400 .. 499 -> "refused"
    [] answer[a].status >= 500 -> "faulted"
    [] OTHER -> IF answer[a].type # "sse" THEN "served"
                ELSE IF answer[a].body = "good" THEN "ended" ELSE "cut"

work == [a \in Attempts |-> Work(a)]

verdict == [a \in Attempts |-> Verdict(a)]

told == [a \in Attempts |-> IF result[a].told = "value" THEN Verdict(a) ELSE result[a].told]

E == INSTANCE Exchange

(* Success is only reported of work that the service has done; a caller    *)
(* that is blamed knows that the service has not seen the call.  A stream  *)
(* is answered before its service returns: its end says that the service   *)
(* has returned, with an error if one stands there, and with or without    *)
(* one if none does (see Unmarked).                                        *)
KeepsExchange == E!Spec

-----------------------------------------------------------------------------
(* What callers and services can send, as the types of their programs and  *)
(* the contents of HTTP have it.                                           *)
ClientParam(p) ==
  {"unset", "zero", "good"} \cup (IF p = "pageSize" THEN {"bad"} ELSE {})
    \cup (IF p = "xRequestID" THEN {"null"} ELSE {})

ClientBodies(op) ==
  CASE op = "createPost" -> OgenMessages(CreatePostRequestKinds, {})
    [] op = "createUser" -> OgenMessages(UserInputKinds, UserInputRules)
    [] op = "echoCoverage" -> [payload: OgenMessages(CoverageKinds, CoverageRules)]
    [] op = "uploadAvatar" -> [data: {"zero", "good"}]
    [] op = "userChangedWebhook" ->
         [action: {"zero", "good"}, user: OgenMessages(UserKinds, UserRules)]
    [] OTHER -> {None}

(* Any string is a page token, a topic or a filter.                        *)
WireParam(p) ==
  {"absent", "zero", "good"} \cup
  CASE p = "pageSize" -> {"bad", "odd"}
    [] p \in {"pageToken", "topic", "filters"} -> {}
    [] OTHER -> {"odd"}

ContentType(op) ==
  CASE op = "createPost" -> "multipart"
    [] op \in {"createUser", "echoCoverage", "userChangedWebhook"} -> "json"
    [] op = "uploadAvatar" -> "png"
    [] OTHER -> "none"

WireBodies(op) ==
  CASE op = "createPost" -> {None, Odd} \cup WireMessages(CreatePostRequestKinds, {})
    [] op = "createUser" -> {None, Odd} \cup WireMessages(UserInputKinds, UserInputRules)
    [] op = "echoCoverage" ->
         {None, Odd} \cup
         [payload: {None, Odd} \cup WireMessages(CoverageKinds, CoverageRules)]
    [] op = "uploadAvatar" -> [data: {"zero", "good"}]
    [] op = "userChangedWebhook" ->
         {None, Odd} \cup
         [action: {"absent", "null", "zero", "good", "odd"},
          user: {None, Odd} \cup WireMessages(UserKinds, UserRules)]
    [] OTHER -> {None}

ServiceReplies(op) ==
  {None} \cup
  CASE op \in {"createUser", "getUser"} ->
         [user: {None} \cup ProtoMessages(UserKinds, UserRules)]
    [] op = "echoCoverage" ->
         [payload: {None} \cup ProtoMessages(CoverageKinds, CoverageRules)]
    [] op = "listUsers" -> ProtoMessages(ListUsersResponseKinds, {"users"})
    [] op = "getHealth" -> ProtoMessages(GetHealthResponseKinds, {})
    [] OTHER -> {}

CallOK(c) ==
  IF c.op = "raw"
  THEN /\ c.http # Failed
       /\ \A p \in ParamNames : c.http.params[p] \in WireParam(p)
       /\ \A op \in Ops : Routed(c.http, op) /\ c.http.type = ContentType(op) =>
            c.http.body \in WireBodies(op)
  ELSE /\ \A p \in ParamNames : c.params[p] \in ClientParam(p)
       /\ c.req \in ClientBodies(c.op)
       /\ \A r \in Replies(c) : r.code = "OK" => r.msg \in ServiceReplies(c.op)

(* Nor is an error the parameters of an operation, a request message of    *)
(* the service, or an HTTP request.                                        *)
IsNoArgument(m) ==
  /\ IsNoMessage(m) /\ m # None
  /\ m \notin [idempotencyKey: Classes] /\ m \notin [id: Classes]
  /\ m \notin [id: Classes, xRequestID: Classes] /\ m \notin [id: Classes, requestId: Classes]
  /\ m \notin [pageSize: Classes, pageToken: Classes, filters: Classes]
  /\ m \notin [topic: Classes] /\ m \notin [xWebhookDelivery: Classes]
  /\ m \notin [data: Classes] /\ m \notin [user: Structs(UserInputKinds)]
  /\ m \notin [event: [action: Classes, user: Structs(UserKinds)], deliveryId: Classes]
  /\ m \notin [method: {r[1] : r \in Routes \cup WebhookRoutes},
               path: {r[2] : r \in Routes \cup WebhookRoutes},
               params: [ParamNames -> Classes], type: {ContentType(op) : op \in Ops},
               body: {None} \cup Structs(CreatePostRequestKinds) \cup Structs(UserInputKinds)
                     \cup [payload: Structs(CoverageKinds)] \cup [data: Classes]
                     \cup [action: Classes, user: Structs(UserKinds)]]

ASSUME ContentsAssumption ==
  /\ \A m \in {Failed, Unsupported} : IsNoArgument(m)
  /\ \A c \in Calls : CallOK(c)

-----------------------------------------------------------------------------
(* What the properties about contents compare.                             *)

SameBody(h, x, msg) ==
  /\ Routed(h, "createPost") => SameMessage(CreatePostRequestKinds, x, msg)
  /\ Routed(h, "createUser") => SameMessage(UserInputKinds, x, msg.user)
  /\ Routed(h, "echoCoverage") =>
       (OneOfEach(x.payload) => SameMessage(CoverageKinds, x.payload, msg.payload))
  /\ Routed(h, "userChangedWebhook") =>
       /\ x.action = msg.event.action
       /\ SameMessage(UserKinds, x.user, msg.event.user)

(* The parameters that are scalar fields of the service's request.         *)
ParamFields ==
  { <<"deleteUser", "id", "id">>, <<"getUser", "id", "id">>,
    <<"getUser", "xRequestID", "requestId">>,
    <<"listUsers", "pageSize", "pageSize">>, <<"listUsers", "pageToken", "pageToken">>,
    <<"watchCoverage", "topic", "topic">>,
    <<"userChangedWebhook", "xWebhookDelivery", "deliveryId">> }

ParamKind(p) == IF p = "xRequestID" THEN "presence" ELSE "opt"

SentBody(a) == IF call.op = "raw" THEN wire[a].body ELSE call.req

SentParam(a, p) == IF call.op = "raw" THEN wire[a].params[p] ELSE call.params[p]

(* The service sees in the request message, and in the metadata, what the  *)
(* caller has sent in the body, the path, the query and the headers.       *)
ServiceSeesSent ==
  \A a \in Attempts : reply[a].code # "none" =>
    /\ SameBody(wire[a], SentBody(a), rpc[a].msg)
    /\ \A pf \in ParamFields : Routed(wire[a], pf[1]) =>
         Same(ParamKind(pf[2]), SentParam(a, pf[2]), rpc[a].msg[pf[3]])
    /\ Routed(wire[a], "getUser") =>
         (("xRequestID" \in rpc[a].md) <=> ~Blank("presence", SentParam(a, "xRequestID")))
    /\ Routed(wire[a], "userChangedWebhook") => "xWebhookDelivery" \in rpc[a].md

(* A request as the document has it.                                       *)
BodyConforms(op, type, j) ==
  CASE op = "createPost" -> type = "multipart" /\ FieldsConform(CreatePostRequestKinds, {}, j)
    [] op = "createUser" ->
         type = "json" /\ FieldsConform(UserInputKinds, {"email", "displayName", "roles"}, j)
    [] op = "echoCoverage" ->
         type = "json" /\ j \notin {None, Odd} /\ FieldsConform(CoverageKinds, {}, j.payload)
    [] op = "userChangedWebhook" ->
         /\ type = "json" /\ j \notin {None, Odd}
         /\ j.action \notin {"absent", "null", "odd"}
         /\ FieldsConform(UserKinds, {"email"}, j.user)
    [] op = "uploadAvatar" -> type = "png"
    [] OTHER -> TRUE

RequiredParams ==
  { <<"deleteUser", "id">>, <<"getUser", "id">>, <<"watchCoverage", "topic">>,
    <<"userChangedWebhook", "xWebhookDelivery">> }

OptionalParams ==
  { <<"createUser", "idempotencyKey">>, <<"getUser", "xRequestID">>,
    <<"listUsers", "pageSize">>, <<"listUsers", "pageToken">>, <<"listUsers", "filters">> }

(* The minimum of a page size is 1.                                        *)
NonzeroParams == {<<"listUsers", "pageSize">>}

Conforms(h) ==
  \E r \in Routes \cup WebhookRoutes :
    /\ Routed(h, r[3])
    /\ BodyConforms(r[3], h.type, h.body)
    /\ \A op_p \in RequiredParams \cup OptionalParams : op_p[1] = r[3] =>
         /\ h.params[op_p[2]] \notin {"odd", "bad"}
         /\ op_p \in RequiredParams => h.params[op_p[2]] # "absent"
         /\ op_p \in NonzeroParams => h.params[op_p[2]] # "zero"

(* Services are only called with requests that the document allows.        *)
OnlyConformingServed ==
  \A a \in Attempts : reply[a].code # "none" => Conforms(wire[a])

(* Such a request is always put to the service: neither the server nor the *)
(* client refuses it.                                                      *)
ConformingServed ==
  \A a \in Attempts :
    /\ answer[a].status # 0 /\ reply[a].code = "none" => ~Conforms(wire[a])
    /\ result[a].told = "invalid" =>
         ~BodyConforms(call.op, "json",
            CASE call.op = "createUser" -> UserInputEncode(call.req)
              [] call.op = "echoCoverage" -> EchoCoverageRequestEncode(call.req)
              [] call.op = "userChangedWebhook" -> UserChangedPayloadEncode(call.req))

(* A success that the server sends is one that the typed client reads, and *)
(* the caller gets what the service has returned.                          *)
SameAnswer(op, m, v) ==
  CASE op \in {"createUser", "getUser"} -> SameMessage(UserKinds, m.user, v)
    [] op = "echoCoverage" -> m.payload # None => SameMessage(CoverageKinds, m.payload, v.payload)
    [] op = "listUsers" -> SameMessage(ListUsersResponseKinds, m, v)
    [] op = "getHealth" -> SameMessage(GetHealthResponseKinds, m, v)
    [] OTHER -> TRUE

ClientReadsAnswers ==
  \A a \in Attempts : call.op # "raw" /\ result[a].status \in 200 .. 299 =>
    /\ result[a].told = "value"
    /\ reply[a].msg # None => SameAnswer(call.op, reply[a].msg, result[a].value)

(* Every attempt comes to an end for its caller.                           *)
EveryCallEnds ==
  \A a \in Attempts : client[a] = "waiting" ~> client[a] = "ended"

-----------------------------------------------------------------------------
(* The adapter's mapping of an error, for the ogen server to use.          *)
HTTPStatus(c) ==
  CASE c = "OK" -> 200
    [] c = "Canceled" -> 499
    [] c \in {"InvalidArgument", "FailedPrecondition", "OutOfRange"} -> 400
    [] c = "DeadlineExceeded" -> 504
    [] c = "NotFound" -> 404
    [] c \in {"AlreadyExists", "Aborted"} -> 409
    [] c = "PermissionDenied" -> 403
    [] c = "Unauthenticated" -> 401
    [] c = "ResourceExhausted" -> 429
    [] c = "Unimplemented" -> 501
    [] c = "Unavailable" -> 503
    [] OTHER -> 500

NewError(c) ==
  Response(HTTPStatus(c), "json", [code |-> "good", message |-> "good", details |-> "nil"])

(* README.md: an error of an RPC becomes the status of its code, with the  *)
(* code and the message in the body.                                       *)
ErrorStatusMapped ==
  \A a \in Attempts :
    reply[a].code \notin {"none", "running", "OK"} /\ ~Routed(wire[a], "watchCoverage") =>
      answer[a].status \in {0, NewError(reply[a].code).status}

(* README.md: the adapter reassembles the request message and mirrors the  *)
(* header parameters into the metadata.                                    *)
RequestReassembled ==
  \A a \in Attempts : reply[a].code # "none" =>
    /\ Routed(wire[a], "listUsers") => Same("map", SentParam(a, "filters"), rpc[a].msg.filters)
    /\ Routed(wire[a], "uploadAvatar") => Same("bytes", SentBody(a).data, rpc[a].msg.data)
    /\ Routed(wire[a], "createUser") =>
         (("idempotencyKey" \in rpc[a].md) <=> ~Blank("presence", SentParam(a, "idempotencyKey")))
=============================================================================
