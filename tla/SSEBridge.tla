----------------------------- MODULE SSEBridge -----------------------------
(***************************************************************************)
(* One server-streaming RPC served over HTTP.                               *)
(*                                                                          *)
(* The generated adapter method returns at once with the read end of an     *)
(* io.Pipe and leaves a goroutine behind that runs the gRPC service method  *)
(* (grpcbridge.ServerSentEventReader).  Each Send of that method renders    *)
(* one event and writes it to the pipe; meanwhile the request goroutine     *)
(* copies the pipe to the HTTP response (encodeWatchCoverageResponse),      *)
(* whose bytes net/http buffers until the buffer fills or the handler ends. *)
(* The client may go away, the service may fail, a Send may fail, and the   *)
(* service may ignore what Send returned.                                   *)
(*                                                                          *)
(* An event is Pieces pipe reads long: the first piece is the "data: "      *)
(* write, the last one the blank line, those between are the reads the JSON *)
(* body takes.  A piece is the unit both ends of the unbuffered pipe agree  *)
(* on: Write returns once the reader took all it offered.                   *)
(***************************************************************************)
EXTENDS Naturals, Sequences

CONSTANTS MaxSends,   \* bound: events one service call starts to write
          Pieces,     \* pipe reads per event
          BufCap      \* pieces the HTTP response buffers before it flushes

ASSUME BridgeAssumption == /\ MaxSends \in Nat
                           /\ Pieces \in Nat \ {0}
                           /\ BufCap \in Nat \ {0}

VARIABLES fn,         \* the goroutine: "none", "user", "writing", "done"
          sends,      \* events it started to write
          part,       \* the piece its current Write offers
          sendErr,    \* the last Send of the service returned an error
          pw,         \* write end of the pipe: "open", or see Results
          pr,         \* read end of the pipe: "open", "closed"
          srv,        \* the request goroutine's place in the handler
          copyErr,    \* what io.Copy returned: "nil", "err" or "internal"
          reg,        \* the piece io.Copy read and has not written yet
          buf,        \* pieces in the HTTP response buffer
          wire,       \* pieces the client received
          status,     \* status line sent, 0 before
          client,     \* "connected", "gone"
          cancelled   \* the request context is done

fnVars     == <<fn, sends, part, sendErr>>
pipeVars   == <<pw, pr>>
serverVars == <<srv, copyErr, reg, status>>
outVars    == <<buf, wire>>
vars == <<fnVars, pipeVars, serverVars, outVars, client, cancelled>>

Piece   == [event : Nat, part : Nat]
\* What ErrorHandler writes to a response; it is no part of any event.
ErrBody == [event |-> 0, part |-> 0]
First   == [event |-> 1, part |-> 1]
Succ(p) == IF p.part = Pieces THEN [event |-> p.event + 1, part |-> 1]
                              ELSE [event |-> p.event, part |-> p.part + 1]
Offered == [event |-> sends, part |-> part]

\* What the service method may return: nil, io.EOF, an error that is ogen's
\* ErrInternalServerErrorResponse (or wraps it), or any other error.
Results == {"nil", "EOF", "internal", "err"}

Init == /\ fn = "none" /\ sends = 0 /\ part = 1 /\ sendErr = FALSE
        /\ pw = "open" /\ pr = "open"
        /\ srv = "decode" /\ copyErr = "nil" /\ reg = <<>> /\ status = 0
        /\ buf = <<>> /\ wire = <<>>
        /\ client = "connected" /\ cancelled = FALSE

-----------------------------------------------------------------------------
(* The HTTP response writer *)

\* w.Write on a live connection: the piece is buffered, or it fills the
\* buffer and everything goes out.  Nothing else flushes before the handler
\* returns.
Accept(p) ==
  /\ client = "connected"
  /\ \/ /\ Len(buf) + 1 < BufCap
        /\ buf' = Append(buf, p)
        /\ wire' = wire
     \/ /\ Len(buf) + 1 >= BufCap
        /\ wire' = wire \o Append(buf, p)
        /\ buf' = <<>>

\* Once the client is gone what is written goes nowhere.
Dropped == /\ client = "gone"
           /\ buf' = <<>>
           /\ wire' = wire

Respond(p) == Accept(p) \/ Dropped

-----------------------------------------------------------------------------
(* The request goroutine: handleWatchCoverageRequest and what it calls *)

\* The parameters do not decode: ErrorHandler answers 400.
DecodeFails ==
  /\ srv = "decode"
  /\ srv' = "finish"
  /\ status' = 400
  /\ Respond(ErrBody)
  /\ UNCHANGED <<fnVars, pipeVars, copyErr, reg, client, cancelled>>

\* The adapter cannot build the protobuf request from the body: its error
\* goes to ErrorHandler, which answers 500.
AdapterFails ==
  /\ srv = "decode"
  /\ srv' = "finish"
  /\ status' = 500
  /\ Respond(ErrBody)
  /\ UNCHANGED <<fnVars, pipeVars, copyErr, reg, client, cancelled>>

\* The adapter method: spawn the goroutine, hand out the reader, no error.
StartStream ==
  /\ srv = "decode"
  /\ srv' = "header"
  /\ fn' = "user"
  /\ UNCHANGED <<sends, part, sendErr, pipeVars, copyErr, reg, status,
                 outVars, client, cancelled>>

WriteHeader ==
  /\ srv = "header"
  /\ srv' = "read"
  /\ status' = 200
  /\ UNCHANGED <<fnVars, pipeVars, copyErr, reg, outVars, client, cancelled>>

\* Faulty variant of ReadPiece: one write too many before Send returns.
ReadPieceTooFar ==
  /\ srv = "read" /\ fn = "writing"
  /\ srv' = "put" /\ reg' = <<Offered>>
  /\ \/ part <= Pieces /\ part' = part + 1 /\ UNCHANGED <<fn, sendErr>>
     \/ part > Pieces /\ part' = 1 /\ fn' = "user" /\ sendErr' = FALSE
  /\ UNCHANGED <<sends, pipeVars, copyErr, status, outVars, client, cancelled>>

\* Faulty variant of ReadPiece: Send leaves out its last write.
ReadPieceShort ==
  /\ srv = "read" /\ fn = "writing"
  /\ srv' = "put" /\ reg' = <<Offered>>
  /\ \/ part + 1 < Pieces /\ part' = part + 1 /\ UNCHANGED <<fn, sendErr>>
     \/ part + 1 >= Pieces /\ part' = 1 /\ fn' = "user" /\ sendErr' = FALSE
  /\ UNCHANGED <<sends, pipeVars, copyErr, status, outVars, client, cancelled>>

\* The reader takes the offered piece; the last one lets Send return nil.
ReadPiece ==
  /\ srv = "read"
  /\ fn = "writing"
  /\ srv' = "put"
  /\ reg' = <<Offered>>
  /\ \/ /\ part < Pieces
        /\ part' = part + 1
        /\ fn' = fn
        /\ sendErr' = sendErr
     \/ /\ part = Pieces
        /\ part' = 1
        /\ fn' = "user"
        /\ sendErr' = FALSE
  /\ UNCHANGED <<sends, pipeVars, copyErr, status, outVars, client, cancelled>>

\* What io.Copy returns when its reader ends with what the service returned:
\* io.EOF is the end of the stream to it, whoever it comes from.
ReadError(returned) == IF returned \in {"nil", "EOF"} THEN "nil" ELSE returned

\* Faulty variant of ReadClosed: a pause of the service is taken for its end.
ReadClosedEarly ==
  /\ srv = "read" /\ fn # "writing"
  /\ srv' = "close"
  /\ copyErr' = IF pw = "open" THEN "nil" ELSE ReadError(pw)
  /\ UNCHANGED <<fnVars, pipeVars, reg, status, outVars, client, cancelled>>

\* Faulty variant of ReadClosed: the service's error is retried for ever.
ReadClosedRetrying ==
  /\ srv = "read" /\ pw # "open"
  /\ srv' = IF pw = "err" THEN "read" ELSE "close"
  /\ copyErr' = ReadError(pw)
  /\ UNCHANGED <<fnVars, pipeVars, reg, status, outVars, client, cancelled>>

\* The pipe was closed by its writer.
ReadClosed ==
  /\ srv = "read"
  /\ pw # "open"
  /\ srv' = "close"
  /\ copyErr' = ReadError(pw)
  /\ UNCHANGED <<fnVars, pipeVars, reg, status, outVars, client, cancelled>>

PutPiece ==
  /\ srv = "put"
  /\ Respond(reg[1])
  /\ reg' = <<>>
  /\ srv' = "read"
  /\ UNCHANGED <<fnVars, pipeVars, copyErr, status, client, cancelled>>

\* Faulty variant of PutFails: a slow client is given up on.
PutGivesUp ==
  /\ srv = "put"
  /\ reg' = <<>> /\ srv' = "close" /\ copyErr' = "err"
  /\ UNCHANGED <<fnVars, pipeVars, outVars, status, client, cancelled>>

\* net/http reports the broken connection, io.Copy returns the write error.
PutFails ==
  /\ srv = "put"
  /\ client = "gone"
  /\ reg' = <<>>
  /\ srv' = "close"
  /\ copyErr' = "err"
  /\ UNCHANGED <<fnVars, pipeVars, outVars, status, client, cancelled>>

\* The deferred closer.Close() of the encoder.
CloseReader ==
  /\ srv = "close"
  /\ pr' = "closed"
  /\ srv' = IF copyErr # "nil" THEN "report" ELSE "finish"
  /\ UNCHANGED <<fnVars, pw, copyErr, reg, status, outVars, client, cancelled>>

\* Faulty variant of Report: every error is handed to ErrorHandler.
ReportEvery ==
  /\ srv = "report"
  /\ Respond(ErrBody)
  /\ srv' = "finish"
  /\ UNCHANGED <<fnVars, pipeVars, copyErr, reg, status, client, cancelled>>

\* The encoder's error reaches ErrorHandler: the status line is already out,
\* so only the error body is written.
Report ==
  /\ srv = "report"
  /\ copyErr # "internal"
  /\ Respond(ErrBody)
  /\ srv' = "finish"
  /\ UNCHANGED <<fnVars, pipeVars, copyErr, reg, status, client, cancelled>>

\* An ErrInternalServerErrorResponse tells the handler that the encoder has
\* answered already: nothing more is written.
ReportNothing ==
  /\ srv = "report"
  /\ copyErr = "internal"
  /\ srv' = "finish"
  /\ UNCHANGED <<fnVars, pipeVars, copyErr, reg, status, outVars, client,
                 cancelled>>

\* ServeHTTP returns: net/http flushes the buffer, ends the response and
\* cancels the request context.
Finish ==
  /\ srv = "finish"
  /\ srv' = "over"
  /\ cancelled' = TRUE
  /\ buf' = <<>>
  /\ \/ client = "connected" /\ wire' = wire \o buf
     \/ client = "gone" /\ wire' = wire
  /\ UNCHANGED <<fnVars, pipeVars, copyErr, reg, status, client>>

Server == \/ DecodeFails \/ AdapterFails \/ StartStream \/ WriteHeader
          \/ ReadPiece \/ ReadClosed \/ PutPiece \/ PutFails
          \/ CloseReader \/ Report \/ ReportNothing \/ Finish

-----------------------------------------------------------------------------
(* The stream goroutine: ServerSentEventReader, Send and the service *)

\* Send renders the message and enters its first Write.
BeginSend ==
  /\ fn = "user"
  /\ sends < MaxSends
  /\ fn' = "writing"
  /\ sends' = sends + 1
  /\ part' = 1
  /\ UNCHANGED <<sendErr, pipeVars, serverVars, outVars, client, cancelled>>

\* Send cannot render the message: it returns before the first Write.
MarshalFails ==
  /\ fn = "user"
  /\ sendErr' = TRUE
  /\ UNCHANGED <<fn, sends, part, pipeVars, serverVars, outVars, client,
                 cancelled>>

\* Faulty variant of WriteFails: Send starts the event again.
WriteRetried ==
  /\ fn = "writing"
  /\ pr = "closed"
  /\ part' = 1
  /\ sendErr' = TRUE
  /\ UNCHANGED <<fn, sends, pipeVars, serverVars, outVars, client, cancelled>>

\* The current Write returns io.ErrClosedPipe, and Send returns that; what
\* the event still lacks is never written.
WriteFails ==
  /\ fn = "writing"
  /\ pr = "closed"
  /\ fn' = "user"
  /\ part' = 1
  /\ sendErr' = TRUE
  /\ UNCHANGED <<sends, pipeVars, serverVars, outVars, client, cancelled>>

\* The service method returns and the goroutine closes the pipe: Close after
\* nil, CloseWithError with any error.
Return(returned) ==
  /\ fn = "user"
  /\ fn' = "done"
  /\ pw' = returned
  /\ UNCHANGED <<sends, part, sendErr, pr, serverVars, outVars, client,
                 cancelled>>

FnReturns == \E returned \in Results : Return(returned)

Goroutine == BeginSend \/ MarshalFails \/ WriteFails \/ FnReturns

-----------------------------------------------------------------------------
(* The environment *)

ClientLeaves ==
  /\ client = "connected"
  /\ srv # "over"
  /\ client' = "gone"
  /\ UNCHANGED <<fnVars, pipeVars, serverVars, outVars, cancelled>>

\* net/http notices the closed connection and cancels the request context.
ContextCancelled ==
  /\ client = "gone"
  /\ ~cancelled
  /\ cancelled' = TRUE
  /\ UNCHANGED <<fnVars, pipeVars, serverVars, outVars, client>>

Quiet == srv = "over" /\ fn \in {"none", "done"}

\* Nothing is left to do: stuttering here keeps every other state that has no
\* successor a deadlock.
Terminated == /\ Quiet
              /\ cancelled
              /\ UNCHANGED vars

Next == Server \/ Goroutine \/ ClientLeaves \/ ContextCancelled \/ Terminated

Spec == Init /\ [][Next]_vars

-----------------------------------------------------------------------------
(* Fairness.  Goroutines that can run do run, and a connected client reads   *)
(* what it is sent (no other bound is put on its speed).  Nothing forces the *)
(* service to call Send or to return.                                        *)
Fairness == /\ WF_vars(Server)
            /\ WF_vars(WriteFails)
            /\ WF_vars(ContextCancelled)

FairSpec == Spec /\ Fairness

\* A service written the way gRPC asks: it returns after a failed Send or a
\* cancelled context.
CooperativeReturn == (sendErr \/ cancelled) /\ FnReturns

Cooperative == WF_vars(CooperativeReturn)

-----------------------------------------------------------------------------
(* What must hold *)

TypeOK ==
  /\ fn \in {"none", "user", "writing", "done"}
  /\ sends \in 0..MaxSends
  /\ part \in 1..Pieces
  /\ sendErr \in BOOLEAN
  /\ pw \in {"open"} \cup Results
  /\ pr \in {"open", "closed"}
  /\ srv \in {"decode", "header", "read", "put", "close", "report", "finish",
              "over"}
  /\ copyErr \in {"nil", "err", "internal"}
  /\ reg \in Seq(Piece)
  /\ buf \in Seq(Piece)
  /\ wire \in Seq(Piece)
  /\ status \in {0, 200, 400, 500}
  /\ client \in {"connected", "gone"}
  /\ cancelled \in BOOLEAN

\* Each piece of an event follows the one before it in the stream.
InOrder(s) == \A i \in 1..Len(s) :
                s[i] = ErrBody \/ s[i] = IF i = 1 THEN First ELSE Succ(s[i - 1])

\* An error body is last, and never lands inside an event.
ErrBodyClosesEvent(s) ==
  \A i \in 1..Len(s) :
    s[i] = ErrBody => i = Len(s) /\ (i > 1 => s[i - 1].part = Pieces)

\* Whatever the client does and however the service ends, the bytes it has
\* received are a prefix of the events in the order they were sent: no piece
\* is lost in the middle, repeated or out of order.  Send writes an event in
\* three Writes, io.Copy moves them through the response buffer.  The error
\* body that ErrorHandler appends to a response already under way starts
\* where an event ended, so it never corrupts the event before it.
WireIsStreamPrefix == InOrder(wire) /\ ErrBodyClosesEvent(wire)

Received == {e \in 1..sends : \E i \in 1..Len(wire) :
                                wire[i] = [event |-> e, part |-> Pieces]}

\* A client that stayed until the response ended has every event the service
\* started to send, and the goroutine of its request is gone: nothing still
\* runs for a request whose response ended normally.
EndIsComplete ==
  srv = "over" /\ client = "connected" =>
    /\ fn \in {"none", "done"}
    /\ Received = 1..sends

\* To a client that stayed, an error body ends exactly the streams whose
\* service returned an error that io.Copy and the handler pass on: none after
\* nil, none after an io.EOF (as of a service that relays another stream),
\* which reads as a normal end, none after an ErrInternalServerErrorResponse,
\* and always one after any other error.
ErrBodyIffReported ==
  srv = "over" /\ client = "connected" /\ status = 200 =>
    ((\E i \in 1..Len(wire) : wire[i] = ErrBody) <=> pw = "err")

\* A Send whose Write failed had lost its reader, and that happens only to a
\* request whose client is gone: to a client that stayed, every event that
\* was started is finished.
TornOnlyWhenGone ==
  fn = "writing" /\ pr = "closed" => client = "gone"

-----------------------------------------------------------------------------
(* Why the invariants above hold: an inductive invariant *)

\* Everything taken from the pipe for a client that is still there.
Taken == wire \o buf \o reg

HasErrBody(s) == \E i \in 1..Len(s) : s[i] = ErrBody
FollowingPiece(s) == IF s = <<>> THEN First ELSE Succ(s[Len(s)])

\* The events a Send has handed over to the last piece.
Whole == IF fn = "writing" THEN sends - 1 ELSE sends

\* Where the two goroutines can be at the same time.
Control ==
  /\ srv = "put" => Len(reg) = 1
  /\ srv # "put" => reg = <<>>
  /\ srv = "decode" => fn = "none"
  /\ fn = "none" => sends = 0 /\ srv \in {"decode", "finish", "over"}
  /\ status = 200 <=> fn # "none" /\ srv # "header"
  /\ pw # "open" <=> fn = "done"
  /\ pr = "closed" <=> fn # "none" /\ srv \in {"report", "finish", "over"}
  /\ copyErr # "nil" => srv \in {"close", "report", "finish", "over"}
  /\ srv = "report" => copyErr # "nil"
  /\ srv = "over" => buf = <<>>
  /\ client = "connected" /\ fn # "none"
       /\ srv \in {"close", "report", "finish", "over"} =>
     fn = "done" /\ copyErr = ReadError(pw)

\* What the three places a piece can be in hold together, and how that
\* relates to what the service is doing, while the client is there.
Live ==
  /\ InOrder(Taken)
  /\ ErrBodyClosesEvent(Taken)
  /\ HasErrBody(Taken) <=> /\ srv \in {"finish", "over"}
                           /\ fn = "none" \/ copyErr = "err"
  /\ fn = "writing" => Offered = FollowingPiece(Taken)
  /\ fn # "writing" /\ ~HasErrBody(Taken) =>
       IF Taken = <<>> THEN sends = 0
       ELSE Taken[Len(Taken)] = [event |-> sends, part |-> Pieces]
  /\ \A e \in 1..Whole : \E i \in 1..Len(Taken) :
       Taken[i] = [event |-> e, part |-> Pieces]

Stream == /\ InOrder(wire)
          /\ ErrBodyClosesEvent(wire)
          /\ client = "connected" => Live

\* The state of the bridge at every moment: holds initially and is kept by
\* every step, and implies each of the safety invariants.
BridgeInv == TypeOK /\ Control /\ Stream

-----------------------------------------------------------------------------
(* What must happen, and what the bridge promises *)

\* A Send never hangs: when the client is gone the deferred Close of the
\* encoder releases the Write the goroutine is blocked in.
SendReturns == (fn = "writing") ~> (fn # "writing")

\* Once the service has returned, the request ends.
StreamEnds == (fn = "done") ~> (srv = "over")

\* With a service that heeds its context and what Send returns, a client that
\* leaves frees both goroutines of its request.
NoGoroutineLeak == Cooperative => ((client = "gone") ~> Quiet)

\* The service as its consumer sees it, and the consumer.
Producer == CASE fn = "none" -> "idle"
              [] fn \in {"user", "writing"} -> "running"
              [] fn = "done" /\ pw = "nil" -> "finished"
              [] OTHER -> "failed"

Consumer == CASE client = "gone" -> "left"
              [] client = "connected" /\ srv = "over" -> "ended"
              [] OTHER -> "attached"

\* The promise of the bridge to its consumer.
Promise == INSTANCE EventStream WITH
             producer <- Producer, consumer <- Consumer,
             sent <- sends, got <- Received

\* The bridge implements the abstract event stream.
KeepsPromise == Promise!Spec
=============================================================================
