---------------------------- MODULE Gateway_proofs ----------------------------
(***************************************************************************)
(* TLAPS proofs about Gateway, for any calls, any services and any number  *)
(* of attempts.                                                            *)
(***************************************************************************)
EXTENDS Gateway, TLAPS

USE GatewayAssumption

(* The inductive invariant.                                                *)
IInv == TypeOK /\ GatewayInv /\ call \in Calls

-----------------------------------------------------------------------------
(* What the client makes of a response *)

\* Got has a value to tell, or does not know.
LEMMA GotTold ==
  ASSUME NEW response, NEW v
  PROVE  Got(response, v).told \in {"value", "unknown"}
BY DEF Got, Unread

LEMMA DefaultTold ==
  ASSUME NEW response
  PROVE  decodeDefault(response).told \in {"value", "unknown"}
BY GotTold DEF decodeDefault

\* So does every decoder of responses.
LEMMA DecodingTold ==
  ASSUME NEW response
  PROVE  Decoding(call, response).told \in {"value", "unknown"} \/ call \notin Calls
<1>. SUFFICES ASSUME call \in Calls
              PROVE  Decoding(call, response).told \in {"value", "unknown"}
  OBVIOUS
<1>. USE GotTold, DefaultTold
<1>1. decodeCreatePostResponse(response).told \in {"value", "unknown"}
  BY DEF decodeCreatePostResponse
<1>2. decodeCreateUserResponse(response).told \in {"value", "unknown"}
  BY DEF decodeCreateUserResponse
<1>3. decodeDeleteUserResponse(response).told \in {"value", "unknown"}
  BY DEF decodeDeleteUserResponse
<1>4. decodeEchoCoverageResponse(response).told \in {"value", "unknown"}
  BY DEF decodeEchoCoverageResponse
<1>5. decodeGetHealthResponse(response).told \in {"value", "unknown"}
  BY DEF decodeGetHealthResponse
<1>6. decodeGetUserResponse(response).told \in {"value", "unknown"}
  BY DEF decodeGetUserResponse
<1>7. decodeListUsersResponse(response).told \in {"value", "unknown"}
  BY DEF decodeListUsersResponse
<1>8. decodeUploadAvatarResponse(response).told \in {"value", "unknown"}
  BY DEF decodeUploadAvatarResponse
<1>9. decodeWatchCoverageResponse(response).told \in {"value", "unknown"}
  BY DEF decodeWatchCoverageResponse
<1>10. decodeUserChangedWebhookResponse(response).told \in {"value", "unknown"}
  BY DEF decodeUserChangedWebhookResponse
<1>11. call.op \in Ops
  OBVIOUS
<1>. QED
  BY <1>1, <1>2, <1>3, <1>4, <1>5, <1>6, <1>7, <1>8, <1>9, <1>10, <1>11 DEF Decoding, Ops

-----------------------------------------------------------------------------
(* One step of one attempt leaves the others alone *)

\* What the invariant says of an attempt depends on that attempt's state only.
LEMMA OtherAttempt ==
  ASSUME NEW b, Phases(b), Verdicts(b),
         client'[b] = client[b], server'[b] = server[b], reply'[b] = reply[b],
         answer'[b] = answer[b], result'[b] = result[b]
  PROVE  Phases(b)' /\ Verdicts(b)'
BY DEF Phases, Verdicts

\* Once the outcome of an attempt is unknown it stays so.
LEMMA UnknownStays ==
  ASSUME IInv, NEW a \in Attempts, client[a] \in {"idle", "waiting"},
         NEW r, result' = [result EXCEPT ![a] = r]
  PROVE  \A b \in Attempts : result[b].told = "unknown" => result'[b].told = "unknown"
BY DEF IInv, TypeOK, GatewayInv, Phases

LEMMA SendKeeps ==
  ASSUME IInv, NEW a \in Attempts, Send(a)
  PROVE  IInv'
<1>. SUFFICES TypeOK' /\ GatewayInv'
  BY DEF IInv, Send
<1>1. TypeOK'
  BY DEF IInv, TypeOK, Send, End, Unread
<1>2. \A b \in Attempts : result[b].told = "unknown" => result'[b].told = "unknown"
  BY UnknownStays DEF IInv, TypeOK, Send, End
<1>3. ASSUME NEW b \in Attempts PROVE Phases(b)' /\ Verdicts(b)'
  <2>1. CASE b # a
    BY <2>1, <1>3, OtherAttempt DEF IInv, TypeOK, GatewayInv, Send, End
  <2>2. CASE b = a
    BY <2>2 DEF IInv, TypeOK, GatewayInv, Phases, Verdicts, Send, End, Unread
  <2>. QED
    BY <2>1, <2>2
<1>4. ASSUME NEW b \in Attempts, client'[b] # "idle", NEW c \in 1 .. b - 1
      PROVE  result'[c].told = "unknown"
  <2>1. c \in Attempts
    BY <1>4 DEF Attempts
  <2>2. CASE client[b] # "idle"
    BY <1>2, <1>4, <2>1, <2>2 DEF IInv, GatewayInv
  <2>3. CASE client[b] = "idle"
    <3>1. b = a /\ b > 1 /\ b - 1 \in Attempts /\ result[b-1].told = "unknown"
      BY <1>4, <2>3 DEF IInv, TypeOK, Send, End, Attempts
    <3>2. client[b-1] # "idle"
      BY <3>1 DEF IInv, GatewayInv, Phases
    <3>3. c = b - 1 \/ c \in 1 .. (b - 1) - 1
      BY <1>4, <3>1 DEF Attempts
    <3>4. result[c].told = "unknown"
      BY <3>1, <3>2, <3>3 DEF IInv, GatewayInv
    <3>. QED
      BY <1>2, <2>1, <3>4
  <2>. QED
    BY <2>2, <2>3
<1>. QED
  BY <1>1, <1>3, <1>4 DEF GatewayInv

\* A step that ends an attempt that waits for its answer.
LEMMA EndKeeps ==
  ASSUME IInv, NEW a \in Attempts, client[a] = "waiting",
         NEW r, r.told \in {"unknown", "value"},
         r.told = "value" => answer[a].status # 0, End(a, r),
         \/ UNCHANGED server
         \/ server[a] = "called" /\ server' = [server EXCEPT ![a] = "ended"],
         UNCHANGED <<call, wire, args, rpc, reply, answer>>
  PROVE  IInv'
<1>1. TypeOK'
  BY DEF IInv, TypeOK, End
<1>2. \A b \in Attempts : result[b].told = "unknown" => result'[b].told = "unknown"
  BY UnknownStays DEF End
<1>3. ASSUME NEW b \in Attempts PROVE Phases(b)' /\ Verdicts(b)'
  <2>1. CASE b # a
    BY <2>1, <1>3, OtherAttempt DEF IInv, TypeOK, GatewayInv, End
  <2>2. CASE b = a
    <3>1. client'[a] = "ended" /\ result'[a] = r
      BY DEF IInv, TypeOK, End
    <3>2. Phases(a) /\ Verdicts(a)
      BY DEF IInv, GatewayInv
    <3>3. server'[a] = server[a] \/ (server[a] = "called" /\ server'[a] = "ended")
      BY DEF IInv, TypeOK
    <3>. QED
      BY <2>2, <3>1, <3>2, <3>3 DEF Phases, Verdicts
  <2>. QED
    BY <2>1, <2>2
<1>4. ASSUME NEW b \in Attempts, client'[b] # "idle", NEW c \in 1 .. b - 1
      PROVE  result'[c].told = "unknown"
  <2>1. c \in Attempts
    BY <1>4 DEF Attempts
  <2>2. client[b] # "idle"
    BY <1>4 DEF IInv, TypeOK, End
  <2>3. result[c].told = "unknown"
    BY <1>4, <2>2 DEF IInv, GatewayInv
  <2>. QED
    BY <2>1, <2>3, <1>2
<1>. QED
  BY <1>1, <1>3, <1>4 DEF GatewayInv, IInv

LEMMA ClientKeeps ==
  ASSUME IInv, NEW a \in Attempts, GiveUp(a) \/ Lose(a) \/ Receive(a)
  PROVE  IInv'
<1>1. CASE GiveUp(a)
  BY <1>1, EndKeeps DEF GiveUp, Unread
<1>2. CASE Lose(a)
  BY <1>2, EndKeeps DEF Lose, Unread
<1>3. CASE Receive(a)
  <2>1. Decoding(call, answer[a]).told \in {"value", "unknown"}
    BY DecodingTold DEF IInv
  <2>. QED
    BY <1>3, <2>1, EndKeeps DEF Receive
<1>. QED
  BY <1>1, <1>2, <1>3
-----------------------------------------------------------------------------
(* The steps of the server *)

\* A step of the server at one attempt, whose outcome no client has yet seen.
LEMMA ServerKeeps ==
  ASSUME IInv, NEW a \in Attempts, TypeOK',
         UNCHANGED <<call, client, result>>,
         \A b \in Attempts \ {a} :
           server'[b] = server[b] /\ reply'[b] = reply[b] /\ answer'[b] = answer[b],
         server[a] # "idle", server'[a] # "idle", answer[a].status = 0,
         Phases(a)', Verdicts(a)'
  PROVE  IInv'
<1>1. ASSUME NEW b \in Attempts PROVE Phases(b)' /\ Verdicts(b)'
  BY <1>1, OtherAttempt DEF IInv, GatewayInv
<1>2. ASSUME NEW b \in Attempts, client'[b] # "idle", NEW c \in 1 .. b - 1
      PROVE  result'[c].told = "unknown"
  BY <1>2 DEF IInv, GatewayInv
<1>. QED
  BY <1>1, <1>2 DEF GatewayInv, IInv

\* What a success tells of the service: the work is done, or it is a stream,
\* and an error behind its events is one of the service.
Told(response, code) ==
  IF response.type = "sse" THEN response.body # "good" => code # "OK" ELSE code = "OK"

\* A response of an operation that is no stream.
Plain(response) == response.status \in {200, 201, 204, 500} /\ response.type # "sse"

\* The server answers a call that is not, or no longer, with the service.
LEMMA AnsweredKeeps ==
  ASSUME IInv, NEW a \in Attempts, server[a] \in {"called", "decoded", "returned"},
         NEW response, Answered(a, response),
         response.status \in Nat \ {0},
         response.status < 500 =>
           IF response.status >= 400 THEN server[a] = "called"
           ELSE server[a] = "returned" /\ Told(response, reply[a].code),
         UNCHANGED <<call, client, wire, args, rpc, reply, result>>
  PROVE  IInv'
<1>1. TypeOK'
  BY DEF IInv, TypeOK, Answered
<1>2. server'[a] = "ended" /\ answer'[a] = response
  BY DEF IInv, TypeOK, Answered
<1>3. /\ client'[a] = client[a] /\ result'[a] = result[a] /\ reply'[a] = reply[a]
      /\ Phases(a) /\ Verdicts(a)
  BY DEF IInv, GatewayInv
<1>4. answer[a].status = 0
  BY <1>3 DEF Phases
<1>5. Phases(a)'
  BY <1>2, <1>3 DEF Phases
<1>6. Verdicts(a)'
  <2>1. response.status \in 400 .. 499 => reply'[a].code = "none"
    BY <1>3 DEF Phases
  <2>2. response.status \in 1 .. 399 =>
          reply'[a].code \notin {"none", "running"}
            /\ Told(response, reply'[a].code)
    BY <1>3 DEF Phases
  <2>. QED
    BY <1>2, <2>1, <2>2 DEF Verdicts, Told
<1>7. \A b \in Attempts \ {a} :
        server'[b] = server[b] /\ reply'[b] = reply[b] /\ answer'[b] = answer[b]
  BY DEF IInv, TypeOK, Answered
<1>. QED
  BY <1>1, <1>2, <1>4, <1>5, <1>6, <1>7, ServerKeeps

LEMMA HandleKeeps ==
  ASSUME IInv, NEW a \in Attempts, NEW op, NEW params, NEW request,
         Handle(a, op, params, request)
  PROVE  IInv'
<1>1. CASE params = Failed \/ request = Failed
  BY <1>1, AnsweredKeeps DEF Handle, Problem, Response
<1>2. CASE params # Failed /\ request = Unsupported
  BY <1>2, AnsweredKeeps DEF Handle, Problem, Response
<1>3. CASE params # Failed /\ request \notin {Failed, Unsupported}
  <2>1. /\ server[a] = "called" /\ server' = [server EXCEPT ![a] = "decoded"]
        /\ args' = [args EXCEPT ![a] = [params |-> params, req |-> request]]
        /\ UNCHANGED <<call, client, wire, rpc, reply, answer, result>>
    BY <1>3 DEF Handle
  <2>2. TypeOK'
    BY <2>1 DEF IInv, TypeOK
  <2>3. Phases(a) /\ Verdicts(a)
    BY DEF IInv, GatewayInv
  <2>4. server'[a] = "decoded" /\ \A b \in Attempts \ {a} : server'[b] = server[b]
    BY <2>1 DEF IInv, TypeOK
  <2>5. Phases(a)' /\ Verdicts(a)' /\ answer[a].status = 0
    BY <2>1, <2>3, <2>4 DEF Phases, Verdicts
  <2>. QED
    BY <2>1, <2>2, <2>4, <2>5, ServerKeeps
<1>. QED
  BY <1>1, <1>2, <1>3

LEMMA InvokeKeeps ==
  ASSUME IInv, NEW a \in Attempts, NEW op, NEW msg, NEW md, Invoke(a, op, msg, md)
  PROVE  IInv'
<1>1. CASE msg = Failed
  BY <1>1, AnsweredKeeps DEF Invoke, Problem, Response
<1>2. CASE msg # Failed
  <2>1. /\ server[a] = "decoded" /\ server' = [server EXCEPT ![a] = "invoking"]
        /\ reply' = [reply EXCEPT ![a] = [code |-> "running", msg |-> None]]
        /\ rpc' = [rpc EXCEPT ![a] = [msg |-> msg, md |-> md]]
        /\ UNCHANGED <<call, client, wire, args, answer, result>>
    BY <1>2 DEF Invoke
  <2>2. TypeOK'
    BY <2>1 DEF IInv, TypeOK
  <2>3. Phases(a) /\ Verdicts(a)
    BY DEF IInv, GatewayInv
  <2>4. /\ server'[a] = "invoking" /\ reply'[a].code = "running"
        /\ \A b \in Attempts \ {a} : server'[b] = server[b] /\ reply'[b] = reply[b]
    BY <2>1 DEF IInv, TypeOK
  <2>5. answer[a].status = 0 /\ answer' = answer /\ result' = result /\ client' = client
    BY <2>1, <2>3 DEF Phases
  <2>6. Phases(a)'
    BY <2>1, <2>3, <2>4, <2>5 DEF Phases
  <2>7. Verdicts(a)'
    BY <2>3, <2>5 DEF Verdicts
  <2>. QED
    BY <2>1, <2>2, <2>4, <2>5, <2>6, <2>7, ServerKeeps
<1>. QED
  BY <1>1, <1>2

LEMMA ReturnKeeps ==
  ASSUME IInv, NEW a \in Attempts, Return(a)
  PROVE  IInv'
<1>1. PICK r \in Replies(call) : reply' = [reply EXCEPT ![a] = r]
  BY DEF Return
<1>2. r.code \notin {"none", "running"}
  BY <1>1 DEF IInv
<1>3. TypeOK'
  BY <1>1 DEF IInv, TypeOK, Return
<1>4. Phases(a) /\ Verdicts(a)
  BY DEF IInv, GatewayInv
<1>5. /\ server'[a] = "returned" /\ reply'[a] = r
      /\ \A b \in Attempts \ {a} : server'[b] = server[b] /\ reply'[b] = reply[b]
  BY <1>1 DEF IInv, TypeOK, Return
<1>6. Phases(a)' /\ Verdicts(a)' /\ answer[a].status = 0
  BY <1>2, <1>4, <1>5 DEF Phases, Verdicts, Return
<1>. QED
  BY <1>3, <1>5, <1>6, ServerKeeps DEF Return

\* A process that ends takes every attempt with it, and answers none.
LEMMA PanicKeeps ==
  ASSUME IInv, NEW a \in Attempts, Panic(a)
  PROVE  IInv'
<1>1. TypeOK'
  BY DEF IInv, TypeOK, Panic
<1>2. ASSUME NEW b \in Attempts PROVE Phases(b)' /\ Verdicts(b)'
  <2>1. server'[b] = server[b] \/ (server[b] # "idle" /\ server'[b] = "ended")
    BY <1>2 DEF Panic
  <2>. QED
    BY <1>2, <2>1 DEF IInv, GatewayInv, Phases, Verdicts, Panic
<1>. QED
  BY <1>1, <1>2 DEF IInv, GatewayInv, Panic

LEMMA RespondKeeps ==
  ASSUME IInv, NEW a \in Attempts, NEW op, NEW response, Respond(a, op, response),
         Plain(response)
  PROVE  IInv'
BY AnsweredKeeps DEF Respond, Plain, Told, Problem, Response
-----------------------------------------------------------------------------
(* Every operation *)

\* The handlers of an attempt are one of these.
LEMMA HandlingCases ==
  ASSUME NEW a, Handling(a)
  PROVE  \/ notFound(a) \/ notAllowed(a)
         \/ \E op, params, request : Handle(a, op, params, request)
<1>1. handleCreatePostRequest(a) => \E op, params, request : Handle(a, op, params, request)
  BY DEF handleCreatePostRequest
<1>2. handleCreateUserRequest(a) => \E op, params, request : Handle(a, op, params, request)
  BY DEF handleCreateUserRequest
<1>3. handleDeleteUserRequest(a) => \E op, params, request : Handle(a, op, params, request)
  BY DEF handleDeleteUserRequest
<1>4. handleEchoCoverageRequest(a) => \E op, params, request : Handle(a, op, params, request)
  BY DEF handleEchoCoverageRequest
<1>5. handleGetHealthRequest(a) => \E op, params, request : Handle(a, op, params, request)
  BY DEF handleGetHealthRequest
<1>6. handleGetUserRequest(a) => \E op, params, request : Handle(a, op, params, request)
  BY DEF handleGetUserRequest
<1>7. handleListUsersRequest(a) => \E op, params, request : Handle(a, op, params, request)
  BY DEF handleListUsersRequest
<1>8. handleUploadAvatarRequest(a) => \E op, params, request : Handle(a, op, params, request)
  BY DEF handleUploadAvatarRequest
<1>9. handleWatchCoverageRequest(a) => \E op, params, request : Handle(a, op, params, request)
  BY DEF handleWatchCoverageRequest
<1>10. handleUserChangedWebhookRequest(a) => \E op, params, request : Handle(a, op, params, request)
  BY DEF handleUserChangedWebhookRequest
<1>. QED
  BY <1>1, <1>2, <1>3, <1>4, <1>5, <1>6, <1>7, <1>8, <1>9, <1>10 DEF Handling

\* So are the methods of the adapter.
LEMMA InvokingCases ==
  ASSUME NEW a, Invoking(a)
  PROVE  \E op, msg, md : Invoke(a, op, msg, md)
<1>1. CreatePost(a) => \E op, msg, md : Invoke(a, op, msg, md)
  BY DEF CreatePost
<1>2. CreateUser(a) => \E op, msg, md : Invoke(a, op, msg, md)
  BY DEF CreateUser
<1>3. DeleteUser(a) => \E op, msg, md : Invoke(a, op, msg, md)
  BY DEF DeleteUser
<1>4. EchoCoverage(a) => \E op, msg, md : Invoke(a, op, msg, md)
  BY DEF EchoCoverage
<1>5. GetHealth(a) => \E op, msg, md : Invoke(a, op, msg, md)
  BY DEF GetHealth
<1>6. GetUser(a) => \E op, msg, md : Invoke(a, op, msg, md)
  BY DEF GetUser
<1>7. ListUsers(a) => \E op, msg, md : Invoke(a, op, msg, md)
  BY DEF ListUsers
<1>8. UploadAvatar(a) => \E op, msg, md : Invoke(a, op, msg, md)
  BY DEF UploadAvatar
<1>9. WatchCoverage(a) => \E op, msg, md : Invoke(a, op, msg, md)
  BY DEF WatchCoverage
<1>10. UserChangedWebhook(a) => \E op, msg, md : Invoke(a, op, msg, md)
  BY DEF UserChangedWebhook
<1>. QED
  BY <1>1, <1>2, <1>3, <1>4, <1>5, <1>6, <1>7, <1>8, <1>9, <1>10 DEF Invoking

\* A response is a success or the fault of the server.
LEMMA RespondingCases ==
  ASSUME NEW a, Responding(a)
  PROVE  \/ respondWatchCoverage(a)
         \/ \E op, response : /\ Respond(a, op, response)
                              /\ Plain(response)
<1>. DEFINE Success == \E op, response : /\ Respond(a, op, response)
                                        /\ Plain(response)
<1>1. respondCreatePost(a) => Success
  <2>1. Plain(encodeCreatePostResponse)
    BY DEF encodeCreatePostResponse, Plain, Response
  <2>. QED
    BY <2>1 DEF respondCreatePost
<1>2. respondCreateUser(a) => Success
  <2>1. ASSUME NEW r PROVE Plain(encodeCreateUserResponse(r))
    BY DEF encodeCreateUserResponse, Plain, Response, Problem
  <2>. QED
    BY <2>1 DEF respondCreateUser
<1>3. respondDeleteUser(a) => Success
  <2>1. Plain(encodeDeleteUserResponse)
    BY DEF encodeDeleteUserResponse, Plain, Response
  <2>. QED
    BY <2>1 DEF respondDeleteUser
<1>4. respondEchoCoverage(a) => Success
  <2>1. ASSUME NEW r PROVE Plain(encodeEchoCoverageResponse(r))
    BY DEF encodeEchoCoverageResponse, Plain, Response, Problem
  <2>. QED
    BY <2>1 DEF respondEchoCoverage
<1>5. respondGetHealth(a) => Success
  <2>1. ASSUME NEW r PROVE Plain(encodeGetHealthResponse(r))
    BY DEF encodeGetHealthResponse, Plain, Response, Problem
  <2>. QED
    BY <2>1 DEF respondGetHealth
<1>6. respondGetUser(a) => Success
  <2>1. ASSUME NEW r PROVE Plain(encodeGetUserResponse(r))
    BY DEF encodeGetUserResponse, Plain, Response, Problem
  <2>. QED
    BY <2>1 DEF respondGetUser
<1>7. respondListUsers(a) => Success
  <2>1. ASSUME NEW r PROVE Plain(encodeListUsersResponse(r))
    BY DEF encodeListUsersResponse, Plain, Response, Problem
  <2>. QED
    BY <2>1 DEF respondListUsers
<1>8. respondUploadAvatar(a) => Success
  <2>1. Plain(encodeUploadAvatarResponse)
    BY DEF encodeUploadAvatarResponse, Plain, Response
  <2>. QED
    BY <2>1 DEF respondUploadAvatar
<1>9. respondUserChangedWebhook(a) => Success
  <2>1. Plain(encodeUserChangedWebhookResponse)
    BY DEF encodeUserChangedWebhookResponse, Plain, Response
  <2>. QED
    BY <2>1 DEF respondUserChangedWebhook
<1>. QED
  BY <1>1, <1>2, <1>3, <1>4, <1>5, <1>6, <1>7, <1>8, <1>9 DEF Responding

\* A stream is a success before the RPC has returned.
LEMMA WatchKeeps ==
  ASSUME IInv, NEW a \in Attempts, respondWatchCoverage(a)
  PROVE  IInv'
<1>1. /\ encodeWatchCoverageResponse(reply[a].code).status = 200
      /\ encodeWatchCoverageResponse(reply[a].code).type = "sse"
  BY DEF encodeWatchCoverageResponse, Response
<1>2. Told(encodeWatchCoverageResponse(reply[a].code), reply[a].code)
  BY DEF Told, encodeWatchCoverageResponse, Response, Unmarked
<1>. QED
  BY <1>1, <1>2, AnsweredKeeps DEF respondWatchCoverage

LEMMA HandlingKeeps ==
  ASSUME IInv, NEW a \in Attempts, Handling(a)
  PROVE  IInv'
<1>1. CASE notFound(a)
  BY <1>1, AnsweredKeeps DEF notFound, Response
<1>2. CASE notAllowed(a)
  BY <1>2, AnsweredKeeps DEF notAllowed, Response
<1>3. CASE \E op, params, request : Handle(a, op, params, request)
  BY <1>3, HandleKeeps
<1>. QED
  BY <1>1, <1>2, <1>3, HandlingCases

LEMMA InvokingKeeps ==
  ASSUME IInv, NEW a \in Attempts, Invoking(a)
  PROVE  IInv'
BY InvokingCases, InvokeKeeps

LEMMA RespondingKeeps ==
  ASSUME IInv, NEW a \in Attempts, Responding(a)
  PROVE  IInv'
BY RespondingCases, RespondKeeps, WatchKeeps

LEMMA InvInit == Init => IInv
<1>. SUFFICES ASSUME Init PROVE IInv
  OBVIOUS
<1>1. TypeOK
  BY DEF Init, TypeOK, Unread
<1>2. ASSUME NEW a \in Attempts PROVE Phases(a) /\ Verdicts(a) /\ client[a] = "idle"
  BY <1>2 DEF Init, Phases, Verdicts, Unread
<1>. QED
  BY <1>1, <1>2 DEF Init, IInv, GatewayInv

LEMMA InvStep == IInv /\ [Next]_vars => IInv'
<1>. SUFFICES ASSUME IInv, [Next]_vars PROVE IInv'
  OBVIOUS
<1>1. ASSUME NEW a \in Attempts, Send(a) \/ GiveUp(a) \/ Panic(a) \/ Progress(a)
      PROVE  IInv'
  BY <1>1, SendKeeps, ClientKeeps, PanicKeeps, HandlingKeeps, InvokingKeeps, ReturnKeeps,
     RespondingKeeps DEF Progress
<1>2. CASE UNCHANGED vars
  <2>1. TypeOK'
    BY <1>2 DEF IInv, TypeOK, vars
  <2>2. GatewayInv'
    BY <1>2 DEF IInv, GatewayInv, Phases, Verdicts, vars
  <2>. QED
    BY <1>2, <2>1, <2>2 DEF IInv, vars
<1>. QED
  BY <1>1, <1>2 DEF Next

LEMMA Invariant == Spec => []IInv
BY InvInit, InvStep, PTL DEF Spec

\* Every variable of the gateway keeps its type, for any calls and services.
THEOREM TypeCorrect == Spec => []TypeOK
<1>1. IInv => TypeOK
  BY DEF IInv
<1>. QED
  BY <1>1, Invariant, PTL

\* The exchange of every attempt keeps its order, and an attempt is only made
\* when nothing is known of the one before.
THEOREM GatewayInvariant == Spec => []GatewayInv
<1>1. IInv => GatewayInv
  BY DEF IInv
<1>. QED
  BY <1>1, Invariant, PTL
-----------------------------------------------------------------------------
(* The gateway implements Exchange *)

LEMMA SameWork ==
  ASSUME NEW b, reply'[b] = reply[b]
  PROVE  Work(b)' = Work(b)
BY DEF Work

LEMMA SameVerdict ==
  ASSUME NEW b, reply'[b] = reply[b], answer'[b] = answer[b]
  PROVE  Verdict(b)' = Verdict(b)
BY DEF Verdict

\* The abstract state of an attempt that a step does not touch.
LEMMA SameAbstract ==
  ASSUME NEW b \in Attempts, reply'[b] = reply[b], answer'[b] = answer[b],
         result'[b] = result[b]
  PROVE  work'[b] = work[b] /\ verdict'[b] = verdict[b] /\ told'[b] = told[b]
<1>1. Work(b)' = Work(b) /\ Verdict(b)' = Verdict(b)
  BY SameWork, SameVerdict
<1>2. work'[b] = Work(b)' /\ verdict'[b] = Verdict(b)'
  BY DEF work, verdict
<1>3. told'[b] = IF result'[b].told = "value" THEN Verdict(b)' ELSE result'[b].told
  BY DEF told
<1>. QED
  BY <1>1, <1>2, <1>3 DEF work, verdict, told

\* An attempt that the server has seen is one that Exchange lets through.
LEMMA SeenIsOpen ==
  ASSUME IInv, NEW a \in Attempts, server[a] # "idle"
  PROVE  E!Open(a)
<1>1. result[a].told # "invalid" /\ client[a] # "idle"
  BY DEF IInv, GatewayInv, Phases
<1>2. told[a] # "invalid"
  BY <1>1 DEF told, Verdict
<1>3. ASSUME a > 1 PROVE told[a-1] = "unknown"
  <2>1. a - 1 \in Attempts
    BY <1>3 DEF Attempts
  <2>2. result[a-1].told = "unknown"
    BY <1>1, <1>3, a - 1 \in 1 .. a - 1 DEF IInv, GatewayInv, Attempts
  <2>. QED
    BY <2>1, <2>2 DEF told
<1>. QED
  BY <1>2, <1>3 DEF E!Open

\* Without an answer there is no verdict, and nothing that tells of one.
LEMMA NoVerdict ==
  ASSUME IInv, NEW a \in Attempts, answer[a].status = 0
  PROVE  verdict[a] = "none" /\ told[a] = result[a].told /\ result[a].told # "value"
BY DEF IInv, GatewayInv, Verdicts, verdict, Verdict, told

\* A step at one attempt, by what it does to the abstract state of that one.
LEMMA AbstractStep ==
  ASSUME IInv, NEW a \in Attempts,
         \A b \in Attempts \ {a} :
           reply'[b] = reply[b] /\ answer'[b] = answer[b] /\ result'[b] = result[b]
  PROVE  /\ work' = [work EXCEPT ![a] = work'[a]]
         /\ verdict' = [verdict EXCEPT ![a] = verdict'[a]]
         /\ told' = [told EXCEPT ![a] = told'[a]]
<1>1. \A b \in Attempts \ {a} :
        work'[b] = work[b] /\ verdict'[b] = verdict[b] /\ told'[b] = told[b]
  BY SameAbstract
<1>. DEFINE w == work'[a]  v == verdict'[a]  t == told'[a]
<1>2. /\ work' = [b \in Attempts |-> work'[b]]
      /\ verdict' = [b \in Attempts |-> verdict'[b]]
      /\ told' = [b \in Attempts |-> told'[b]]
  BY DEF work, verdict, told
<1>3. DOMAIN work = Attempts /\ DOMAIN verdict = Attempts /\ DOMAIN told = Attempts
  BY DEF work, verdict, told
<1>. QED
  BY <1>1, <1>2, <1>3

\* The value a function already has at a point can be put there again.
LEMMA Unaltered ==
  /\ \A a \in Attempts : [work EXCEPT ![a] = work[a]] = work
  /\ \A a \in Attempts : [verdict EXCEPT ![a] = verdict[a]] = verdict
  /\ \A a \in Attempts : [told EXCEPT ![a] = told[a]] = told
BY DEF work, verdict, told
\* An answer is one of the verdicts of Exchange.
LEMMA AnsweredImplements ==
  ASSUME IInv, NEW a \in Attempts, server[a] \in {"called", "decoded", "returned"},
         NEW response, Answered(a, response),
         response.status \in Nat \ {0},
         response.status < 500 =>
           IF response.status >= 400 THEN server[a] = "called"
           ELSE server[a] = "returned" /\ Told(response, reply[a].code),
         UNCHANGED <<call, client, wire, args, rpc, reply, result>>
  PROVE  E!Refuse(a) \/ E!Fault(a) \/ E!Serve(a) \/ E!Cut(a) \/ E!End(a)
<1>1. /\ answer'[a] = response
      /\ \A b \in Attempts \ {a} : answer'[b] = answer[b]
  BY DEF IInv, TypeOK, Answered
<1>2. Phases(a)
  BY DEF IInv, GatewayInv
<1>3. answer[a].status = 0
  BY <1>2 DEF Phases
<1>4. verdict[a] = "none" /\ result[a].told # "value" /\ told[a] = result[a].told
  BY <1>3, NoVerdict
<1>5. work'[a] = work[a] /\ told'[a] = told[a] /\ verdict'[a] = Verdict(a)'
  <2>1. work'[a] = Work(a)' /\ Work(a)' = Work(a)
    BY SameWork DEF work
  <2>2. told'[a] = result'[a].told
    BY <1>4 DEF told
  <2>. QED
    BY <1>4, <2>1, <2>2 DEF work, verdict
<1>6. work' = work /\ told' = told /\ verdict' = [verdict EXCEPT ![a] = Verdict(a)']
  BY <1>1, <1>5, AbstractStep, Unaltered
<1>7. E!Open(a)
  BY SeenIsOpen
<1>8. work[a] = Work(a) /\ Verdict(a)' =
        CASE response.status \in 400 .. 499 -> "refused"
          [] response.status >= 500 -> "faulted"
          [] OTHER -> IF response.type # "sse" THEN "served"
                      ELSE IF response.body = "good" THEN "ended" ELSE "cut"
  BY <1>1 DEF work, Verdict
<1>9. CASE response.status >= 500
  <2>1. Work(a) # "running"
    BY <1>2 DEF Work, Phases
  <2>2. Verdict(a)' = "faulted"
    BY <1>8, <1>9
  <2>3. work[a] # "running"
    BY <1>8, <2>1
  <2>4. E!Decide(a, "faulted")
    BY <1>4, <1>6, <2>2 DEF E!Decide
  <2>. QED
    BY <1>7, <2>3, <2>4 DEF E!Fault
<1>10. CASE response.status \in 400 .. 499
  <2>1. Work(a) = "none"
    BY <1>2, <1>10 DEF Work, Phases
  <2>2. Verdict(a)' = "refused"
    BY <1>8, <1>10
  <2>. QED
    BY <1>4, <1>6, <1>7, <1>8, <2>1, <2>2 DEF E!Refuse, E!Decide
<1>11. CASE response.status < 400
  <2>1. Work(a) = IF reply[a].code = "OK" THEN "done" ELSE "failed"
    BY <1>2, <1>11 DEF Work, Phases
  <2>2. /\ Told(response, reply[a].code)
        /\ Verdict(a)' = IF response.type # "sse" THEN "served"
                         ELSE IF response.body = "good" THEN "ended" ELSE "cut"
    BY <1>8, <1>11
  <2>3. E!Decide(a, Verdict(a)')
    BY <1>4, <1>6 DEF E!Decide
  <2>4. CASE response.type # "sse"
    BY <1>8, <2>1, <2>2, <2>3, <2>4 DEF Told, E!Serve
  <2>5. CASE response.type = "sse" /\ response.body = "good"
    BY <1>8, <2>1, <2>2, <2>3, <2>5 DEF E!End
  <2>6. CASE response.type = "sse" /\ response.body # "good"
    BY <1>8, <2>1, <2>2, <2>3, <2>6 DEF Told, E!Cut
  <2>. QED
    BY <2>4, <2>5, <2>6
<1>. QED
  BY <1>9, <1>10, <1>11

LEMMA HandleImplements ==
  ASSUME IInv, NEW a \in Attempts, NEW op, NEW params, NEW request,
         Handle(a, op, params, request)
  PROVE  E!Refuse(a) \/ E!Fault(a) \/ E!Serve(a) \/ E!Cut(a) \/ E!End(a) \/ UNCHANGED E!vars
<1>1. CASE params = Failed \/ request = Failed
  BY <1>1, AnsweredImplements DEF Handle, Problem, Response
<1>2. CASE params # Failed /\ request = Unsupported
  BY <1>2, AnsweredImplements DEF Handle, Problem, Response
<1>3. CASE params # Failed /\ request \notin {Failed, Unsupported}
  BY <1>3 DEF Handle, E!vars, work, verdict, told, Work, Verdict
<1>. QED
  BY <1>1, <1>2, <1>3

\* A step that only changes the reply, before there is an answer.
LEMMA WorkStep ==
  ASSUME IInv, NEW a \in Attempts, answer[a].status = 0,
         NEW r, reply' = [reply EXCEPT ![a] = r],
         UNCHANGED <<answer, result>>
  PROVE  /\ work' = [work EXCEPT ![a] = Work(a)'] /\ reply'[a] = r
         /\ verdict' = verdict /\ told' = told
<1>1. reply'[a] = r /\ \A b \in Attempts \ {a} : reply'[b] = reply[b]
  BY DEF IInv, TypeOK
<1>2. work'[a] = Work(a)' /\ verdict'[a] = "none" /\ told'[a] = result[a].told
  BY NoVerdict DEF work, verdict, told, Verdict
<1>3. verdict[a] = "none" /\ told[a] = result[a].told
  BY NoVerdict
<1>4. /\ work' = [work EXCEPT ![a] = work'[a]]
      /\ verdict' = [verdict EXCEPT ![a] = verdict'[a]]
      /\ told' = [told EXCEPT ![a] = told'[a]]
  BY <1>1, AbstractStep
<1>. QED
  BY <1>1, <1>2, <1>3, <1>4, Unaltered

LEMMA InvokeImplements ==
  ASSUME IInv, NEW a \in Attempts, NEW op, NEW msg, NEW md, Invoke(a, op, msg, md)
  PROVE  E!Begin(a) \/ E!Refuse(a) \/ E!Fault(a) \/ E!Serve(a) \/ E!Cut(a) \/ E!End(a)
<1>1. CASE msg = Failed
  BY <1>1, AnsweredImplements DEF Invoke, Problem, Response
<1>2. CASE msg # Failed
  <2>. DEFINE running == [code |-> "running", msg |-> None]
  <2>1. /\ server[a] = "decoded" /\ reply' = [reply EXCEPT ![a] = running]
        /\ UNCHANGED <<answer, result>>
    BY <1>2 DEF Invoke
  <2>2. reply[a].code = "none" /\ answer[a].status = 0
    BY <2>1 DEF IInv, GatewayInv, Phases
  <2>. HIDE DEF running
  <2>3. /\ work' = [work EXCEPT ![a] = Work(a)'] /\ reply'[a] = running
        /\ verdict' = verdict /\ told' = told
    BY <2>1, <2>2, WorkStep
  <2>4. Work(a)' = "running" /\ Work(a) = "none"
    BY <2>2, <2>3 DEF Work, running
  <2>5. work[a] = "none" /\ verdict[a] = "none" /\ E!Open(a)
    BY <2>1, <2>2, <2>4, NoVerdict, SeenIsOpen DEF work
  <2>. QED
    BY <2>3, <2>4, <2>5 DEF E!Begin
<1>. QED
  BY <1>1, <1>2

LEMMA ReturnImplements ==
  ASSUME IInv, NEW a \in Attempts, Return(a)
  PROVE  E!Finish(a)
<1>1. PICK r \in Replies(call) : reply' = [reply EXCEPT ![a] = r]
  BY DEF Return
<1>2. r.code \notin {"none", "running"}
  BY <1>1 DEF IInv
<1>3. reply[a].code = "running" /\ answer[a].status = 0
  BY DEF Return, IInv, GatewayInv, Phases
<1>4. /\ work' = [work EXCEPT ![a] = Work(a)'] /\ reply'[a] = r
      /\ verdict' = verdict /\ told' = told
  BY <1>1, <1>3, WorkStep DEF Return
<1>5. Work(a)' \in {"done", "failed"} /\ work[a] = "running"
  BY <1>2, <1>3, <1>4 DEF Work, work
<1>. QED
  BY <1>4, <1>5 DEF E!Finish

LEMMA RespondImplements ==
  ASSUME IInv, NEW a \in Attempts, NEW op, NEW response, Respond(a, op, response),
         Plain(response)
  PROVE  E!Refuse(a) \/ E!Fault(a) \/ E!Serve(a) \/ E!Cut(a) \/ E!End(a)
BY AnsweredImplements DEF Respond, Plain, Told, Problem, Response

LEMMA WatchImplements ==
  ASSUME IInv, NEW a \in Attempts, respondWatchCoverage(a)
  PROVE  E!Refuse(a) \/ E!Fault(a) \/ E!Serve(a) \/ E!Cut(a) \/ E!End(a)
<1>1. /\ encodeWatchCoverageResponse(reply[a].code).status = 200
      /\ encodeWatchCoverageResponse(reply[a].code).type = "sse"
  BY DEF encodeWatchCoverageResponse, Response
<1>2. Told(encodeWatchCoverageResponse(reply[a].code), reply[a].code)
  BY DEF Told, encodeWatchCoverageResponse, Response, Unmarked
<1>. QED
  BY <1>1, <1>2, AnsweredImplements DEF respondWatchCoverage
LEMMA ServerImplements ==
  ASSUME IInv, NEW a \in Attempts, Handling(a) \/ Invoking(a) \/ Return(a) \/ Responding(a)
  PROVE  E!Next \/ UNCHANGED E!vars
<1>. DEFINE Verdicted == E!Refuse(a) \/ E!Fault(a) \/ E!Serve(a) \/ E!Cut(a) \/ E!End(a)
<1>1. notFound(a) => Verdicted
  BY AnsweredImplements DEF notFound, Response
<1>2. notAllowed(a) => Verdicted
  BY AnsweredImplements DEF notAllowed, Response
<1>3. Handling(a) => Verdicted \/ UNCHANGED E!vars
  BY <1>1, <1>2, HandlingCases, HandleImplements
<1>4. Invoking(a) => E!Begin(a) \/ Verdicted
  BY InvokingCases, InvokeImplements
<1>5. Return(a) => E!Finish(a)
  BY ReturnImplements
<1>6. Responding(a) => Verdicted
  BY RespondingCases, RespondImplements, WatchImplements
<1>. QED
  BY <1>3, <1>4, <1>5, <1>6 DEF E!Next, E!Attempts, Attempts

\* A caller learns the verdict of an answer, or nothing.
LEMMA EndImplements ==
  ASSUME IInv, NEW a \in Attempts, client[a] = "waiting",
         NEW r, r.told \in {"unknown", "value"},
         r.told = "value" => answer[a].status # 0, End(a, r),
         UNCHANGED <<reply, answer>>
  PROVE  E!Tell(a) \/ E!GiveUp(a)
<1>1. result[a].told = "none" /\ result'[a] = r
  BY DEF IInv, TypeOK, GatewayInv, Phases, End
<1>2. /\ Work(a)' = Work(a) /\ Verdict(a)' = Verdict(a)
      /\ \A b \in Attempts \ {a} : result'[b] = result[b]
  BY SameWork, SameVerdict DEF IInv, TypeOK, End
<1>3. work'[a] = work[a] /\ verdict'[a] = verdict[a]
  BY <1>2 DEF work, verdict
<1>4. told'[a] = IF r.told = "value" THEN verdict[a] ELSE "unknown"
  BY <1>1, <1>2 DEF told, verdict
<1>5. work' = work /\ verdict' = verdict /\ told' = [told EXCEPT ![a] = told'[a]]
  BY <1>2, <1>3, AbstractStep, Unaltered
<1>6. told[a] = "none"
  BY <1>1 DEF told
<1>7. answer[a].status # 0 => verdict[a] # "none"
  BY DEF verdict, Verdict
<1>. QED
  BY <1>4, <1>5, <1>6, <1>7 DEF E!Tell, E!GiveUp

LEMMA SendImplements ==
  ASSUME IInv, NEW a \in Attempts, Send(a)
  PROVE  E!Invalid(a) \/ UNCHANGED E!vars
<1>1. CASE Request(call) = Failed
  <2>1. /\ result[a].told = "none" /\ reply[a].code = "none" /\ answer[a].status = 0
        /\ result'[a].told = "invalid"
        /\ \A b \in Attempts \ {a} : result'[b] = result[b]
    BY <1>1 DEF Send, IInv, TypeOK, GatewayInv, Phases, End, Unread
  <2>2. Work(a)' = Work(a) /\ Verdict(a)' = Verdict(a)
    BY SameWork, SameVerdict DEF Send
  <2>3. work'[a] = work[a] /\ verdict'[a] = verdict[a] /\ told'[a] = "invalid"
    BY <2>1, <2>2 DEF work, verdict, told
  <2>4. work[a] = "none" /\ verdict[a] = "none" /\ told[a] = "none"
    BY <2>1 DEF work, verdict, told, Work, Verdict
  <2>5. work' = work /\ verdict' = verdict /\ told' = [told EXCEPT ![a] = told'[a]]
    BY <2>1, <2>3, AbstractStep, Unaltered DEF Send
  <2>. QED
    BY <2>3, <2>4, <2>5 DEF E!Invalid
<1>2. CASE Request(call) # Failed
  BY <1>2 DEF Send, E!vars, work, verdict, told, Work, Verdict
<1>. QED
  BY <1>1, <1>2

LEMMA ImplementsInit == Init => E!Init
BY DEF Init, E!Init, E!Attempts, Attempts, work, verdict, told, Work, Verdict, Unread

LEMMA ImplementsStep == IInv /\ [Next]_vars => [E!Next]_E!vars
<1>. SUFFICES ASSUME IInv, [Next]_vars PROVE E!Next \/ UNCHANGED E!vars
  OBVIOUS
<1>1. ASSUME NEW a \in Attempts, Send(a) PROVE E!Next \/ UNCHANGED E!vars
  BY <1>1, SendImplements DEF E!Next, E!Attempts, Attempts
<1>2. ASSUME NEW a \in Attempts, GiveUp(a) \/ Lose(a) PROVE E!Next \/ UNCHANGED E!vars
  <2>1. E!Tell(a) \/ E!GiveUp(a)
    BY <1>2, EndImplements DEF GiveUp, Lose, Unread
  <2>. QED
    BY <2>1 DEF E!Next, E!Attempts, Attempts
<1>3. ASSUME NEW a \in Attempts, Receive(a) PROVE E!Next \/ UNCHANGED E!vars
  <2>1. Decoding(call, answer[a]).told \in {"value", "unknown"}
    BY DecodingTold DEF IInv
  <2>2. E!Tell(a) \/ E!GiveUp(a)
    BY <1>3, <2>1, EndImplements DEF Receive
  <2>. QED
    BY <2>2 DEF E!Next, E!Attempts, Attempts
<1>4. ASSUME NEW a \in Attempts, Panic(a) PROVE UNCHANGED E!vars
  BY <1>4 DEF Panic, E!vars, work, verdict, told, Work, Verdict
<1>5. CASE UNCHANGED vars
  BY <1>5 DEF vars, E!vars, work, verdict, told, Work, Verdict
<1>. QED
  BY <1>1, <1>2, <1>3, <1>4, <1>5, ServerImplements DEF Next, Progress

\* The gateway implements Exchange: a caller is told of success only when the
\* service has done the work, and blamed only when it has not seen the call;
\* of a stream it is told that it ended, or of the error behind the events.
THEOREM GatewayImplementsExchange == Spec => KeepsExchange
<1>. QED
  BY ImplementsInit, ImplementsStep, Invariant, PTL DEF Spec, KeepsExchange, E!Spec

-----------------------------------------------------------------------------
(* What follows for callers *)

LEMMA HonestState == IInv => E!Honest
<1>. SUFFICES ASSUME IInv, NEW a \in Attempts
              PROVE  /\ told[a] = "served" => work[a] = "done"
                     /\ told[a] = "cut" => work[a] = "failed"
                     /\ told[a] = "ended" => work[a] \in {"done", "failed"}
                     /\ told[a] \in {"refused", "invalid"} => work[a] = "none"
  BY DEF E!Honest, E!Attempts, Attempts
<1>1. work[a] = Work(a)
  BY DEF work
<1>2. CASE result[a].told = "value"
  <2>1. told[a] = Verdict(a)
    BY <1>2 DEF told
  <2>2. answer[a].status \in Nat /\ Verdicts(a)
    BY DEF IInv, TypeOK, GatewayInv
  <2>3. Verdict(a) = "served" => reply[a].code = "OK"
    BY <2>2 DEF Verdict, Verdicts
  <2>4. /\ Verdict(a) = "cut" => reply[a].code \notin {"none", "running", "OK"}
        /\ Verdict(a) = "ended" => reply[a].code \notin {"none", "running"}
    BY <2>2 DEF Verdict, Verdicts
  <2>5. Verdict(a) = "refused" => reply[a].code = "none"
    BY <2>2 DEF Verdict, Verdicts
  <2>6. Verdict(a) # "invalid"
    BY DEF Verdict
  <2>. QED
    BY <1>1, <2>1, <2>3, <2>4, <2>5, <2>6 DEF Work
<1>3. CASE result[a].told # "value"
  <2>1. told[a] = result[a].told /\ result[a].told \in {"none", "invalid", "unknown"}
    BY <1>3 DEF told, IInv, TypeOK
  <2>2. told[a] = "invalid" => reply[a].code = "none"
    BY <2>1 DEF IInv, GatewayInv, Phases
  <2>. QED
    BY <1>1, <2>1, <2>2 DEF Work
<1>. QED
  BY <1>2, <1>3

LEMMA RepeatedState == IInv => E!RepeatedOnlyUnknown
<1>. SUFFICES ASSUME IInv, NEW a \in Attempts, NEW b \in Attempts, b < a, work[a] # "none"
              PROVE  told[b] = "unknown"
  BY DEF E!RepeatedOnlyUnknown, E!Attempts, Attempts
<1>1. reply[a].code # "none"
  BY DEF work, Work
<1>2. client[a] # "idle"
  BY <1>1 DEF IInv, TypeOK, GatewayInv, Phases
<1>3. b \in 1 .. a - 1
  BY DEF Attempts
<1>4. result[b].told = "unknown"
  BY <1>2, <1>3 DEF IInv, GatewayInv
<1>. QED
  BY <1>4 DEF told

\* A caller that is told of success was served, one that is told that it erred
\* was not; and the service works for a call again only if the outcome of every
\* earlier attempt was unknown to the caller.
THEOREM CallersKnow == Spec => [](E!Honest /\ E!RepeatedOnlyUnknown)
<1>1. IInv => E!Honest /\ E!RepeatedOnlyUnknown
  BY HonestState, RepeatedState
<1>. QED
  BY <1>1, Invariant, PTL
=============================================================================
