------------------------- MODULE SSEBridge_proofs -------------------------
(***************************************************************************)
(* TLAPS proofs about SSEBridge, for every number of sends, every event     *)
(* length and every size of the response buffer.                            *)
(***************************************************************************)
EXTENDS SSEBridge, SequenceTheorems, TLAPS

USE BridgeAssumption

-----------------------------------------------------------------------------
(* Type correctness *)

\* A piece handed to the response writer keeps the response well typed.
LEMMA RespondType ==
  ASSUME NEW p \in Piece, buf \in Seq(Piece), wire \in Seq(Piece), Respond(p)
  PROVE  buf' \in Seq(Piece) /\ wire' \in Seq(Piece)
<1>1. Append(buf, p) \in Seq(Piece)
  BY AppendProperties
<1>2. wire \o Append(buf, p) \in Seq(Piece)
  BY <1>1, ConcatProperties
<1>. QED
  BY <1>1, <1>2, EmptySeq DEF Respond, Accept, Dropped

LEMMA PieceTypes == ErrBody \in Piece /\ First \in Piece
BY DEF ErrBody, First, Piece

\* A sequence of length one is its only element.
LEMMA Singleton ==
  ASSUME NEW s \in Seq(Piece), Len(s) = 1
  PROVE  s[1] \in Piece /\ s = <<s[1]>>
<1>1. 1 \in 1..Len(s)
  OBVIOUS
<1>2. s[1] \in Piece
  BY <1>1, ElementOfSeq
<1>3. <<s[1]>> \in Seq(Piece) /\ Len(<<s[1]>>) = 1
  BY <1>2
<1>4. \A i \in 1..Len(s) : s[i] = <<s[1]>>[i]
  OBVIOUS
<1>. QED
  BY <1>2, <1>3, <1>4, SeqEqual

\* TypeOK is inductive once the register is known to be full where it is used.
LEMMA TypeStep == TypeOK /\ Control /\ [Next]_vars => TypeOK'
<1>. SUFFICES ASSUME TypeOK, Control, [Next]_vars
              PROVE  TypeOK'
  OBVIOUS
<1>. USE DEF TypeOK
<1>1. CASE DecodeFails
  BY <1>1, RespondType, PieceTypes DEF DecodeFails, fnVars, pipeVars
<1>2. CASE AdapterFails
  BY <1>2, RespondType, PieceTypes DEF AdapterFails, fnVars, pipeVars
<1>3. CASE StartStream
  BY <1>3 DEF StartStream, pipeVars, outVars
<1>4. CASE WriteHeader
  BY <1>4 DEF WriteHeader, fnVars, pipeVars, outVars
<1>5. CASE ReadPiece
  <2>1. Offered \in Piece
    BY DEF Offered, Piece
  <2>2. reg' \in Seq(Piece)
    BY <1>5, <2>1 DEF ReadPiece
  <2>3. part' \in 1..Pieces
    BY <1>5 DEF ReadPiece
  <2>4. fn' \in {"user", "writing"}
    BY <1>5 DEF ReadPiece
  <2>5. sendErr' \in BOOLEAN
    BY <1>5, Zenon DEF ReadPiece
  <2>6. /\ srv' = "put"
        /\ UNCHANGED <<sends, pw, pr, copyErr, status, buf, wire, client,
                       cancelled>>
    BY <1>5 DEF ReadPiece, pipeVars, outVars
  <2>. QED
    BY <2>2, <2>3, <2>4, <2>5, <2>6
<1>6. CASE ReadClosed
  BY <1>6 DEF ReadClosed, ReadError, Results, fnVars, pipeVars, outVars
<1>7. CASE PutPiece
  <2>1. reg[1] \in Piece
    BY <1>7, Singleton DEF PutPiece, Control
  <2>2. buf' \in Seq(Piece) /\ wire' \in Seq(Piece)
    BY <1>7, <2>1, RespondType DEF PutPiece
  <2>3. reg' \in Seq(Piece)
    BY <1>7, EmptySeq DEF PutPiece
  <2>. QED
    BY <1>7, <2>2, <2>3 DEF PutPiece, fnVars, pipeVars
<1>8. CASE PutFails
  BY <1>8, EmptySeq DEF PutFails, fnVars, pipeVars, outVars
<1>9. CASE CloseReader \/ ReportNothing
  BY <1>9 DEF CloseReader, ReportNothing, fnVars, pipeVars, outVars
<1>10. CASE Report
  <2>1. buf' \in Seq(Piece) /\ wire' \in Seq(Piece)
    BY <1>10, RespondType, PieceTypes DEF Report
  <2>. QED
    BY <1>10, <2>1 DEF Report, fnVars, pipeVars
<1>11. CASE Finish
  <2>1. wire \o buf \in Seq(Piece)
    BY ConcatProperties
  <2>2. buf' \in Seq(Piece) /\ wire' \in Seq(Piece)
    BY <1>11, <2>1, EmptySeq DEF Finish
  <2>. QED
    BY <1>11, <2>2 DEF Finish, fnVars, pipeVars
<1>12. CASE Goroutine
  <2>1. CASE BeginSend
    BY <1>12, <2>1 DEF BeginSend, pipeVars, serverVars, outVars
  <2>2. CASE MarshalFails
    BY <2>2 DEF MarshalFails, pipeVars, serverVars, outVars
  <2>3. CASE WriteFails
    BY <2>3 DEF WriteFails, pipeVars, serverVars, outVars
  <2>4. CASE FnReturns
    BY <2>4 DEF FnReturns, Return, Results, serverVars, outVars
  <2>. QED
    BY <1>12, <2>1, <2>2, <2>3, <2>4 DEF Goroutine
<1>13. CASE ClientLeaves
  BY <1>13 DEF ClientLeaves, fnVars, pipeVars, serverVars, outVars
<1>14. CASE ContextCancelled
  BY <1>14 DEF ContextCancelled, fnVars, pipeVars, serverVars, outVars
<1>15. CASE UNCHANGED vars
  BY <1>15 DEF vars, fnVars, pipeVars, serverVars, outVars
<1>. QED
  BY <1>1, <1>2, <1>3, <1>4, <1>5, <1>6, <1>7, <1>8, <1>9, <1>10, <1>11,
     <1>12, <1>13, <1>14, <1>15 DEF Next, Server, Terminated

\* The control invariant is kept by every step.
LEMMA ControlStep == TypeOK /\ Control /\ [Next]_vars => Control'
<1>. SUFFICES ASSUME TypeOK, Control, [Next]_vars
              PROVE  Control'
  OBVIOUS
<1>. USE DEF TypeOK, Control, fnVars, pipeVars, serverVars, outVars
<1>1. CASE DecodeFails
  BY <1>1 DEF DecodeFails
<1>2. CASE AdapterFails
  BY <1>2 DEF AdapterFails
<1>3. CASE StartStream
  BY <1>3 DEF StartStream
<1>4. CASE WriteHeader
  BY <1>4 DEF WriteHeader
<1>5. CASE ReadPiece
  BY <1>5 DEF ReadPiece
<1>6. CASE ReadClosed
  BY <1>6 DEF ReadClosed, ReadError, Results
<1>7. CASE PutPiece
  BY <1>7 DEF PutPiece
<1>8. CASE PutFails
  BY <1>8 DEF PutFails
<1>9. CASE CloseReader
  BY <1>9 DEF CloseReader
<1>10. CASE Report \/ ReportNothing
  BY <1>10 DEF Report, ReportNothing
<1>11. CASE Finish
  BY <1>11 DEF Finish
<1>12. CASE Goroutine
  BY <1>12 DEF Goroutine, BeginSend, MarshalFails, WriteFails, FnReturns, Return,
               Results
<1>13. CASE ClientLeaves \/ ContextCancelled
  BY <1>13 DEF ClientLeaves, ContextCancelled
<1>14. CASE UNCHANGED vars
  BY <1>14 DEF vars
<1>. QED
  BY <1>1, <1>2, <1>3, <1>4, <1>5, <1>6, <1>7, <1>8, <1>9, <1>10, <1>11,
     <1>12, <1>13, <1>14 DEF Next, Server, Terminated

-----------------------------------------------------------------------------
(* Sequences of pieces *)

\* Appending the piece that follows keeps a stream in order.
LEMMA AppendPiece ==
  ASSUME NEW s \in Seq(Piece), NEW p \in Piece,
         InOrder(s), ~HasErrBody(s), p # ErrBody, p = FollowingPiece(s)
  PROVE  LET t == Append(s, p)
         IN  /\ InOrder(t) /\ ErrBodyClosesEvent(t) /\ ~HasErrBody(t)
             /\ t # <<>> /\ t[Len(t)] = p /\ FollowingPiece(t) = Succ(p)
             /\ Len(t) = Len(s) + 1
             /\ \A i \in 1..Len(s) : t[i] = s[i]
<1>. DEFINE t == Append(s, p)
<1>1. /\ t # <<>> /\ Len(t) = Len(s) + 1 /\ t[Len(t)] = p
      /\ \A i \in 1..Len(s) : t[i] = s[i]
  BY AppendProperties
<1>2. Len(s) \in Nat /\ (s # <<>> => Len(s) > 0)
  BY LenProperties, EmptySeq
<1>3. ~HasErrBody(t)
  BY <1>1, <1>2 DEF HasErrBody
<1>4. InOrder(t)
  BY <1>1, <1>2 DEF InOrder, FollowingPiece
<1>5. ErrBodyClosesEvent(t)
  BY <1>3 DEF ErrBodyClosesEvent, HasErrBody
<1>6. FollowingPiece(t) = Succ(p)
  BY <1>1 DEF FollowingPiece
<1>. QED
  BY <1>1, <1>3, <1>4, <1>5, <1>6

\* An error body may follow a whole event, and nothing else.
LEMMA AppendErrBody ==
  ASSUME NEW s \in Seq(Piece), InOrder(s), ~HasErrBody(s),
         s = <<>> \/ s[Len(s)].part = Pieces
  PROVE  LET t == Append(s, ErrBody)
         IN  /\ InOrder(t) /\ ErrBodyClosesEvent(t) /\ HasErrBody(t)
             /\ Len(t) = Len(s) + 1
             /\ \A i \in 1..Len(s) : t[i] = s[i]
<1>. DEFINE t == Append(s, ErrBody)
<1>1. /\ Len(t) = Len(s) + 1 /\ t[Len(t)] = ErrBody
      /\ \A i \in 1..Len(s) : t[i] = s[i]
  BY AppendProperties, PieceTypes
<1>2. Len(s) \in Nat /\ (s = <<>> => Len(s) = 0)
  BY LenProperties, EmptySeq
<1>3. InOrder(t)
  BY <1>1, <1>2 DEF InOrder
<1>4. ErrBodyClosesEvent(t)
  BY <1>1, <1>2 DEF ErrBodyClosesEvent, HasErrBody
<1>5. HasErrBody(t)
  BY <1>1, <1>2 DEF HasErrBody
<1>. QED
  BY <1>1, <1>3, <1>4, <1>5

\* A prefix of a stream is a stream.
LEMMA StreamPrefix ==
  ASSUME NEW s \in Seq(Piece), NEW t \in Seq(Piece),
         InOrder(s \o t), ErrBodyClosesEvent(s \o t)
  PROVE  InOrder(s) /\ ErrBodyClosesEvent(s)
<1>1. /\ Len(s \o t) = Len(s) + Len(t)
      /\ \A i \in 1..Len(s) : (s \o t)[i] = s[i]
      /\ Len(s) \in Nat /\ Len(t) \in Nat
  BY ConcatProperties, LenProperties
<1>2. InOrder(s)
  BY <1>1 DEF InOrder
<1>3. ErrBodyClosesEvent(s)
  BY <1>1 DEF ErrBodyClosesEvent
<1>. QED
  BY <1>2, <1>3

\* What the response writer accepts goes behind everything it accepted before,
\* whether it flushes or not.
LEMMA AcceptTaken ==
  ASSUME NEW p \in Piece, buf \in Seq(Piece), wire \in Seq(Piece), Accept(p)
  PROVE  wire' \o buf' = Append(wire \o buf, p)
<1>1. /\ Append(buf, p) = buf \o <<p>> /\ <<p>> \in Seq(Piece)
      /\ Append(buf, p) \in Seq(Piece)
  BY AppendIsConcat, AppendProperties
<1>2. wire \o Append(buf, p) = (wire \o buf) \o <<p>>
  BY <1>1, ConcatAssociative
<1>3. (wire \o buf) \o <<p>> = Append(wire \o buf, p)
  BY ConcatProperties, AppendIsConcat
<1>4. (wire \o Append(buf, p)) \o <<>> = wire \o Append(buf, p)
  BY <1>1, ConcatProperties, ConcatEmptySeq
<1>. QED
  BY <1>2, <1>3, <1>4 DEF Accept

-----------------------------------------------------------------------------
(* The stream of a client that is there *)

LEMMA TakenType ==
  ASSUME TypeOK
  PROVE  /\ Taken \in Seq(Piece)
         /\ wire \o buf \in Seq(Piece)
         /\ reg = <<>> => Taken = wire \o buf
<1>1. wire \o buf \in Seq(Piece)
  BY ConcatProperties DEF TypeOK
<1>. QED
  BY <1>1, ConcatProperties, ConcatEmptySeq DEF TypeOK, Taken

\* Steps that move no piece into the stream.
LEMMA LiveSame ==
  ASSUME TypeOK, Control, Live, client = "connected", Taken' = Taken,
         \/ StartStream \/ WriteHeader \/ ReadClosed \/ PutPiece
         \/ CloseReader \/ ReportNothing \/ Finish \/ MarshalFails \/ FnReturns
  PROVE  Live'
<1>. USE DEF fnVars, pipeVars, serverVars, outVars
<1>1. Whole' = Whole /\ sends' = sends /\ (fn' = "writing" <=> fn = "writing")
  BY DEF StartStream, WriteHeader, ReadClosed, PutPiece, CloseReader,
         ReportNothing, Finish, MarshalFails, FnReturns, Return, Whole, Control
<1>2. part' = part \/ fn' # "writing"
  BY DEF StartStream, WriteHeader, ReadClosed, PutPiece, CloseReader,
         ReportNothing, Finish, MarshalFails, FnReturns, Return
<1>3. (srv' \in {"finish", "over"} /\ (fn' = "none" \/ copyErr' = "err"))
        <=> (srv \in {"finish", "over"} /\ (fn = "none" \/ copyErr = "err"))
  <2>1. CASE StartStream
    BY <2>1 DEF StartStream, Control
  <2>2. CASE WriteHeader \/ ReadClosed \/ PutPiece
    BY <2>2 DEF WriteHeader, ReadClosed, PutPiece
  <2>3. CASE CloseReader
    BY <2>3 DEF CloseReader, Control, TypeOK
  <2>4. CASE Finish
    BY <2>4 DEF Finish
  <2>5. CASE MarshalFails
    BY <2>5 DEF MarshalFails
  <2>6. CASE FnReturns
    BY <2>6 DEF FnReturns, Return, Control
  <2>7. CASE ReportNothing
    BY <2>7 DEF ReportNothing, Control
  <2>. QED
    BY <2>1, <2>2, <2>3, <2>4, <2>5, <2>6, <2>7
<1>4. HasErrBody(Taken)' <=> HasErrBody(Taken)
  BY DEF HasErrBody
<1>5. fn' = "writing" => Offered' = FollowingPiece(Taken)'
  BY <1>1, <1>2 DEF Live, Offered, FollowingPiece
<1>6. InOrder(Taken)' /\ ErrBodyClosesEvent(Taken)'
  BY DEF Live, InOrder, ErrBodyClosesEvent
<1>7. fn' # "writing" /\ ~HasErrBody(Taken)' =>
         IF Taken' = <<>> THEN sends' = 0
         ELSE Taken'[Len(Taken')] = [event |-> sends', part |-> Pieces]
  BY <1>1, <1>4 DEF Live
<1>8. \A e \in 1..Whole' : \E i \in 1..Len(Taken') :
         Taken'[i] = [event |-> e, part |-> Pieces]
  BY <1>1 DEF Live
<1>9. HasErrBody(Taken)' <=> (srv' \in {"finish", "over"} /\ (fn' = "none" \/ copyErr' = "err"))
  BY <1>3, <1>4 DEF Live
<1>. QED
  BY <1>5, <1>6, <1>7, <1>8, <1>9 DEF Live

\* A Send begins: the piece it offers is the one the stream lacks.
LEMMA LiveBeginSend ==
  ASSUME TypeOK, Control, Live, client = "connected", BeginSend
  PROVE  Live'
<1>. USE DEF BeginSend, fnVars, pipeVars, serverVars, outVars
<1>1. Taken' = Taken
  BY DEF Taken
<1>2. ~HasErrBody(Taken)
  BY DEF Live, Control
<1>3. IF Taken = <<>> THEN sends = 0
      ELSE Taken[Len(Taken)] = [event |-> sends, part |-> Pieces]
  BY <1>2 DEF Live
<1>4. FollowingPiece(Taken) = [event |-> sends + 1, part |-> 1]
  BY <1>3 DEF FollowingPiece, First, Succ, TypeOK
<1>5. Offered' = FollowingPiece(Taken)'
  BY <1>1, <1>4 DEF Offered, FollowingPiece
<1>6. Whole' = Whole
  BY DEF Whole, TypeOK
<1>7. InOrder(Taken)' /\ ErrBodyClosesEvent(Taken)' /\ ~HasErrBody(Taken)'
  BY <1>1, <1>2 DEF Live, InOrder, ErrBodyClosesEvent, HasErrBody
<1>8. ~(srv' \in {"finish", "over"} /\ (fn' = "none" \/ copyErr' = "err"))
  BY <1>2 DEF Live
<1>9. \A e \in 1..Whole' : \E i \in 1..Len(Taken') :
         Taken'[i] = [event |-> e, part |-> Pieces]
  BY <1>1, <1>6 DEF Live
<1>. QED
  BY <1>5, <1>7, <1>8, <1>9 DEF Live

\* The reader takes a piece: the stream grows by the piece it lacked.
LEMMA LiveReadPiece ==
  ASSUME TypeOK, Control, Live, client = "connected", ReadPiece
  PROVE  Live'
<1>. USE DEF ReadPiece, pipeVars, outVars
<1>1. Offered \in Piece /\ Offered # ErrBody
  BY DEF Offered, Piece, ErrBody, TypeOK
<1>2. Offered = FollowingPiece(Taken) /\ ~HasErrBody(Taken) /\ InOrder(Taken)
  BY DEF Live
<1>3. Taken' = Append(Taken, Offered)
  <2>1. Taken = wire \o buf /\ Taken \in Seq(Piece)
    BY TakenType DEF Control
  <2>2. Taken' = (wire \o buf) \o <<Offered>>
    BY DEF Taken
  <2>. QED
    BY <1>1, <2>1, <2>2, AppendIsConcat
<1>4. /\ InOrder(Taken') /\ ErrBodyClosesEvent(Taken') /\ ~HasErrBody(Taken')
      /\ Taken' # <<>> /\ Taken'[Len(Taken')] = Offered
      /\ FollowingPiece(Taken') = Succ(Offered)
      /\ Len(Taken') = Len(Taken) + 1 /\ Len(Taken) \in Nat
      /\ \A i \in 1..Len(Taken) : Taken'[i] = Taken[i]
  BY <1>1, <1>2, <1>3, AppendPiece, TakenType, LenProperties
<1>5. fn' = "writing" => Offered' = Succ(Offered)
  BY DEF Offered, Succ, TypeOK
<1>6. fn' # "writing" => Offered = [event |-> sends', part |-> Pieces]
  BY DEF Offered
<1>7. \A e \in 1..Whole' : \E i \in 1..Len(Taken') :
         Taken'[i] = [event |-> e, part |-> Pieces]
  <2>. SUFFICES ASSUME NEW e \in 1..Whole'
                PROVE  \E i \in 1..Len(Taken') :
                         Taken'[i] = [event |-> e, part |-> Pieces]
    OBVIOUS
  <2>1. CASE e \in 1..Whole
    <3>1. PICK i \in 1..Len(Taken) : Taken[i] = [event |-> e, part |-> Pieces]
      BY <2>1 DEF Live
    <3>. QED
      BY <1>4, <3>1
  <2>2. CASE e \notin 1..Whole
    <3>1. fn' # "writing" /\ e = sends
      BY <2>2 DEF Whole, TypeOK
    <3>2. Taken'[Len(Taken')] = [event |-> e, part |-> Pieces]
      BY <1>4, <1>6, <3>1
    <3>. QED
      BY <1>4, <3>2
  <2>. QED
    BY <2>1, <2>2
<1>8. ~(srv' \in {"finish", "over"})
  OBVIOUS
<1>9. /\ InOrder(Taken)' /\ ErrBodyClosesEvent(Taken)' /\ ~HasErrBody(Taken)'
      /\ FollowingPiece(Taken)' = Succ(Offered)
  BY <1>4 DEF InOrder, ErrBodyClosesEvent, HasErrBody, FollowingPiece
<1>. QED
  BY <1>4, <1>5, <1>6, <1>7, <1>8, <1>9 DEF Live

\* ErrorHandler writes to the response: after a whole event or first.
LEMMA LiveErrBody ==
  ASSUME TypeOK, Control, Live, client = "connected",
         DecodeFails \/ AdapterFails \/ Report
  PROVE  Live'
<1>. USE DEF fnVars, pipeVars
<1>1. /\ Accept(ErrBody) /\ reg = <<>> /\ reg' = <<>> /\ srv' = "finish"
      /\ UNCHANGED <<fn, sends, part, copyErr>>
      /\ fn = "none" \/ (fn = "done" /\ copyErr = "err")
      /\ srv \notin {"finish", "over"}
  BY DEF DecodeFails, AdapterFails, Report, Respond, Dropped, TypeOK, Control
<1>2. Taken' = Append(Taken, ErrBody)
  <2>1. wire' \o buf' = Append(wire \o buf, ErrBody)
    BY <1>1, AcceptTaken, PieceTypes DEF TypeOK
  <2>2. Taken = wire \o buf
    BY <1>1, TakenType
  <2>3. wire' \o buf' \in Seq(Piece)
    BY <2>1, TakenType, AppendProperties, PieceTypes
  <2>4. Taken' = wire' \o buf'
    BY <1>1, <2>3, ConcatEmptySeq DEF Taken
  <2>. QED
    BY <2>1, <2>2, <2>4
<1>3. ~HasErrBody(Taken) /\ InOrder(Taken)
  BY <1>1 DEF Live
<1>4. Taken = <<>> \/ Taken[Len(Taken)].part = Pieces
  BY <1>1, <1>3 DEF Live
<1>5. /\ InOrder(Taken') /\ ErrBodyClosesEvent(Taken') /\ HasErrBody(Taken')
      /\ Len(Taken') = Len(Taken) + 1 /\ Len(Taken) \in Nat
      /\ \A i \in 1..Len(Taken) : Taken'[i] = Taken[i]
  BY <1>2, <1>3, <1>4, AppendErrBody, TakenType, LenProperties
<1>6. \A e \in 1..Whole' : \E i \in 1..Len(Taken') :
         Taken'[i] = [event |-> e, part |-> Pieces]
  <2>1. Whole' = Whole
    BY <1>1 DEF Whole
  <2>. QED
    BY <1>5, <2>1 DEF Live
<1>7. InOrder(Taken)' /\ ErrBodyClosesEvent(Taken)' /\ HasErrBody(Taken)'
  BY <1>5 DEF InOrder, ErrBodyClosesEvent, HasErrBody
<1>. QED
  BY <1>1, <1>6, <1>7 DEF Live

\* The steps between the pipe and the response move pieces, and add none.
LEMMA TakenKept ==
  ASSUME TypeOK, Control, client = "connected",
         \/ StartStream \/ WriteHeader \/ ReadClosed \/ PutPiece
         \/ CloseReader \/ ReportNothing \/ Finish \/ MarshalFails \/ FnReturns
  PROVE  Taken' = Taken
<1>. USE DEF fnVars, pipeVars, serverVars, outVars
<1>1. CASE PutPiece
  <2>1. reg[1] \in Piece /\ reg = <<reg[1]>>
    BY <1>1, Singleton DEF PutPiece, Control, TypeOK
  <2>2. wire' \o buf' = Append(wire \o buf, reg[1])
    BY <1>1, <2>1, AcceptTaken DEF PutPiece, Respond, Dropped, TypeOK
  <2>3. Append(wire \o buf, reg[1]) = (wire \o buf) \o reg
    BY <2>1, TakenType, AppendIsConcat
  <2>4. wire' \o buf' \in Seq(Piece)
    BY <2>1, <2>2, TakenType, AppendProperties
  <2>5. (wire' \o buf') \o <<>> = wire' \o buf'
    BY <2>4, ConcatEmptySeq
  <2>. QED
    BY <1>1, <2>2, <2>3, <2>5 DEF PutPiece, Taken
<1>2. CASE Finish
  <2>1. reg = <<>> /\ reg' = <<>> /\ wire' = wire \o buf /\ buf' = <<>>
    BY <1>2 DEF Finish, Control
  <2>2. (wire \o buf) \o <<>> = wire \o buf
    BY TakenType, ConcatEmptySeq
  <2>. QED
    BY <2>1, <2>2 DEF Taken
<1>3. CASE StartStream \/ WriteHeader \/ ReadClosed \/ CloseReader
           \/ ReportNothing \/ MarshalFails \/ FnReturns
  BY <1>3 DEF StartStream, WriteHeader, ReadClosed, CloseReader,
              ReportNothing, MarshalFails, FnReturns, Return, Taken
<1>. QED
  BY <1>1, <1>2, <1>3

LEMMA LiveStep ==
  ASSUME TypeOK, Control, Live, client = "connected",
         client' = "connected", [Next]_vars
  PROVE  Live'
<1>1. CASE \/ StartStream \/ WriteHeader \/ ReadClosed \/ PutPiece
           \/ CloseReader \/ ReportNothing \/ Finish \/ MarshalFails \/ FnReturns
  BY <1>1, TakenKept, LiveSame
<1>2. CASE BeginSend
  BY <1>2, LiveBeginSend
<1>3. CASE ReadPiece
  BY <1>3, LiveReadPiece
<1>4. CASE DecodeFails \/ AdapterFails \/ Report
  BY <1>4, LiveErrBody
<1>5. ~WriteFails
  BY DEF WriteFails, Control
<1>6. ~PutFails /\ ~ClientLeaves /\ ~ContextCancelled
  BY DEF PutFails, ClientLeaves, ContextCancelled
<1>7. CASE UNCHANGED vars
  BY <1>7 DEF vars, fnVars, pipeVars, serverVars, outVars, Live, Taken,
              InOrder, ErrBodyClosesEvent, HasErrBody, FollowingPiece, Whole,
              Offered
<1>. QED
  BY <1>1, <1>2, <1>3, <1>4, <1>5, <1>6, <1>7
     DEF Next, Server, Goroutine, Terminated

-----------------------------------------------------------------------------
(* The client is gone: nothing more reaches it *)

LEMMA WireFrozen ==
  ASSUME client = "gone" \/ ClientLeaves, [Next]_vars
  PROVE  wire' = wire
<1>. USE DEF fnVars, pipeVars, serverVars, outVars
<1>1. CASE ClientLeaves
  BY <1>1 DEF ClientLeaves
<1>2. CASE client = "gone" /\ Server
  BY <1>2 DEF Server, DecodeFails, AdapterFails, StartStream, WriteHeader,
              ReadPiece, ReadClosed, PutPiece, PutFails, CloseReader, Report,
              ReportNothing, Finish, Respond, Accept, Dropped
<1>3. CASE client = "gone" /\ Goroutine
  BY <1>3 DEF Goroutine, BeginSend, MarshalFails, WriteFails, FnReturns, Return
<1>4. CASE ContextCancelled \/ UNCHANGED vars
  BY <1>4 DEF ContextCancelled, vars
<1>. QED
  BY <1>1, <1>2, <1>3, <1>4 DEF Next, Terminated

\* A client that is gone stays gone.
LEMMA ClientStep ==
  ASSUME [Next]_vars
  PROVE  client' = client \/ ClientLeaves
BY DEF Next, Server, Goroutine, Terminated, DecodeFails, AdapterFails,
       StartStream, WriteHeader, ReadPiece, ReadClosed, PutPiece, PutFails,
       CloseReader, Report, ReportNothing, Finish, BeginSend, MarshalFails, WriteFails,
       FnReturns, Return, ContextCancelled, vars

LEMMA StreamStep ==
  ASSUME TypeOK, TypeOK', Control, Stream, [Next]_vars
  PROVE  Stream'
<1>1. CASE client' = "connected"
  <2>1. client = "connected"
    BY <1>1, ClientStep DEF ClientLeaves
  <2>2. Live'
    BY <1>1, <2>1, LiveStep DEF Stream
  <2>3. /\ wire' \in Seq(Piece) /\ buf' \in Seq(Piece) /\ reg' \in Seq(Piece)
        /\ buf' \o reg' \in Seq(Piece)
    BY ConcatProperties DEF TypeOK
  <2>4. Taken' = wire' \o (buf' \o reg')
    BY <2>3, ConcatAssociative DEF Taken
  <2>5. InOrder(Taken') /\ ErrBodyClosesEvent(Taken')
    BY <2>2 DEF Live, InOrder, ErrBodyClosesEvent
  <2>6. InOrder(wire') /\ ErrBodyClosesEvent(wire')
    BY <2>3, <2>4, <2>5, StreamPrefix
  <2>. QED
    BY <2>2, <2>6 DEF Stream, InOrder, ErrBodyClosesEvent
<1>2. CASE client' # "connected"
  <2>1. client = "gone" \/ ClientLeaves
    BY <1>2, ClientStep DEF TypeOK
  <2>2. wire' = wire
    BY <2>1, WireFrozen
  <2>. QED
    BY <1>2, <2>2 DEF Stream, InOrder, ErrBodyClosesEvent
<1>. QED
  BY <1>1, <1>2

-----------------------------------------------------------------------------
(* The theorems *)

LEMMA BridgeInit == Init => BridgeInv
<1>. SUFFICES ASSUME Init PROVE BridgeInv
  OBVIOUS
<1>1. <<>> \in Seq(Piece) /\ 0 \in 0..MaxSends /\ 1 \in 1..Pieces
  BY EmptySeq
<1>2. TypeOK
  BY <1>1 DEF Init, TypeOK
<1>3. Control
  BY DEF Init, Control
<1>4. Taken = <<>> /\ Len(<<>>) = 0
  BY DEF Init, Taken
<1>5. Stream
  BY <1>4 DEF Init, Stream, Live, InOrder, ErrBodyClosesEvent, HasErrBody,
              Whole
<1>. QED
  BY <1>2, <1>3, <1>5 DEF BridgeInv

\* The inductive invariant holds in every reachable state.
THEOREM BridgeInvariant == Spec => []BridgeInv
<1>1. BridgeInv /\ [Next]_vars => BridgeInv'
  BY TypeStep, ControlStep, StreamStep DEF BridgeInv
<1>. QED
  BY <1>1, BridgeInit, PTL DEF Spec

\* Every variable of the bridge keeps its type, for any number of sends, any
\* length of event and any size of the response buffer.
THEOREM TypeCorrect == Spec => []TypeOK
<1>1. BridgeInv => TypeOK
  BY DEF BridgeInv
<1>. QED
  BY <1>1, BridgeInvariant, PTL

\* What a client has received is always a prefix of the stream of events.
THEOREM WireSafe == Spec => []WireIsStreamPrefix
<1>1. BridgeInv => WireIsStreamPrefix
  BY DEF BridgeInv, Stream, WireIsStreamPrefix
<1>. QED
  BY <1>1, BridgeInvariant, PTL

\* A response that ends for a client that stayed carries every event.
THEOREM EndComplete == Spec => []EndIsComplete
<1>1. BridgeInv => EndIsComplete
  <2>. SUFFICES ASSUME BridgeInv, srv = "over", client = "connected"
                PROVE  fn \in {"none", "done"} /\ Received = 1..sends
    BY DEF EndIsComplete
  <2>1. fn \in {"none", "done"} /\ buf = <<>> /\ reg = <<>>
    BY DEF BridgeInv, Control
  <2>2. Taken = wire
    BY <2>1, ConcatEmptySeq, EmptySeq DEF BridgeInv, TypeOK, Taken
  <2>3. Whole = sends
    BY <2>1 DEF Whole
  <2>4. \A e \in 1..sends : \E i \in 1..Len(wire) :
          wire[i] = [event |-> e, part |-> Pieces]
    BY <2>2, <2>3 DEF BridgeInv, Stream, Live
  <2>. QED
    BY <2>1, <2>4 DEF Received
<1>. QED
  BY <1>1, BridgeInvariant, PTL

\* To a client that stayed, an error body ends exactly the streams whose
\* service returned an error other than io.EOF and ErrInternalServerErrorResponse.
THEOREM ErrBodyTells == Spec => []ErrBodyIffReported
<1>1. BridgeInv => ErrBodyIffReported
  <2>. SUFFICES ASSUME BridgeInv, srv = "over", client = "connected",
                       status = 200
                PROVE  HasErrBody(wire) <=> pw = "err"
    BY DEF ErrBodyIffReported, HasErrBody
  <2>1. fn = "done" /\ buf = <<>> /\ reg = <<>> /\ copyErr = ReadError(pw)
    BY DEF BridgeInv, Control
  <2>2. Taken = wire
    BY <2>1, ConcatEmptySeq, EmptySeq DEF BridgeInv, TypeOK, Taken
  <2>3. copyErr = "err" <=> pw = "err"
    BY <2>1 DEF ReadError, BridgeInv, TypeOK, Results
  <2>. QED
    BY <2>1, <2>2, <2>3 DEF BridgeInv, Stream, Live
<1>. QED
  BY <1>1, BridgeInvariant, PTL

\* Only a request whose client is gone tears an event.
THEOREM TornOnlyGone == Spec => []TornOnlyWhenGone
<1>1. BridgeInv => TornOnlyWhenGone
  BY DEF BridgeInv, Control, TypeOK, TornOnlyWhenGone
<1>. QED
  BY <1>1, BridgeInvariant, PTL

-----------------------------------------------------------------------------
(* The bridge implements EventStream                                         *)

LEMMA PromiseInit == Init => Promise!Init
BY DEF Init, Promise!Init, Producer, Consumer, Received

LEMMA ShorterInterval ==
  ASSUME NEW n \in Nat
  PROVE  \A e \in 1..(n - 1) : e \in 1..n
OBVIOUS

\* A set between two intervals of which one is an element longer is one of them.
LEMMA BetweenIntervals ==
  ASSUME NEW n \in Nat, NEW S, S \subseteq 1..n, \A e \in 1..(n - 1) : e \in S
  PROVE  \E k \in 0..n : S = 1..k
<1>1. CASE n \in S
  <2>1. \A e \in 1..n : e \in S
    BY <1>1
  <2>2. S = 1..n
    BY <2>1
  <2>. QED
    BY <2>2
<1>2. CASE n = 0
  <2>1. S = 1..0
    BY <1>2
  <2>. QED
    BY <1>2, <2>1
<1>3. CASE n # 0 /\ n \notin S
  <2>1. \A e \in S : e \in 1..(n - 1)
    BY <1>3
  <2>2. S = 1..(n - 1)
    BY <2>1
  <2>3. n - 1 \in 0..n
    BY <1>3
  <2>. QED
    BY <2>2, <2>3
<1>. QED
  BY <1>1, <1>2, <1>3

LEMMA CompleteState ==
  ASSUME BridgeInv', srv' = "over", client' = "connected"
  PROVE  Received' = 1..sends'
<1>1. fn' \in {"none", "done"} /\ buf' = <<>> /\ reg' = <<>>
  BY DEF BridgeInv, Control
<1>2. Taken' = wire'
  BY <1>1, ConcatEmptySeq, EmptySeq DEF BridgeInv, TypeOK, Taken
<1>3. Whole' = sends'
  BY <1>1 DEF Whole
<1>. QED
  BY <1>2, <1>3 DEF BridgeInv, Stream, Live, Received

\* When the buffer goes out, the whole events of the stream have arrived, and
\* at most the one that is being written beside them.
LEMMA FlushedPrefix ==
  ASSUME BridgeInv', client' = "connected", buf' = <<>>, reg' = <<>>
  PROVE  \E k \in 0..sends' : Received' = 1..k
<1>1. Taken' = wire'
  BY ConcatEmptySeq, EmptySeq DEF BridgeInv, TypeOK, Taken
<1>2. \A e \in 1..Whole' : \E i \in 1..Len(wire') :
        wire'[i] = [event |-> e, part |-> Pieces]
  BY <1>1 DEF BridgeInv, Stream, Live
<1>3. sends' \in Nat /\ Whole' \in {sends', sends' - 1}
  BY DEF BridgeInv, TypeOK, Whole
<1>4. \A e \in 1..(sends' - 1) : e \in 1..Whole' /\ e \in 1..sends'
  BY <1>3, ShorterInterval
<1>5. \A e \in 1..(sends' - 1) : e \in Received'
  BY <1>2, <1>4 DEF Received
<1>6. Received' \subseteq 1..sends'
  BY DEF Received
<1>. QED
  BY <1>3, <1>5, <1>6, BetweenIntervals

\* What has been received stays so.
LEMMA ReceivedGrows ==
  ASSUME BridgeInv, BridgeInv', sends' = sends,
         NEW s \in Seq(Piece), wire' = wire \o s
  PROVE  Received \subseteq Received'
<1>1. \A i \in 1..Len(wire) : i \in 1..Len(wire') /\ wire'[i] = wire[i]
  BY DEF BridgeInv, TypeOK
<1>. QED
  BY <1>1 DEF Received

\* A flush under way is a Receive.
LEMMA ArriveImplements ==
  ASSUME BridgeInv, BridgeInv', client = "connected", srv # "over",
         buf' = <<>>, reg' = <<>>, NEW s \in Seq(Piece), wire' = wire \o s,
         srv' # "over", UNCHANGED <<fn, pw, sends, client>>
  PROVE  Promise!Receive
<1>1. \E k \in 0..sends : Received' = 1..k
  BY FlushedPrefix
<1>2. Received \subseteq Received'
  BY ReceivedGrows
<1>3. Consumer = "attached" /\ Consumer' = "attached" /\ Producer' = Producer
  BY DEF Consumer, Producer
<1>. QED
  BY <1>1, <1>2, <1>3 DEF Promise!Receive

\* No piece is of an event that has not been started.
Started(s) == \A i \in 1..Len(s) : s[i].event \in 0..sends

StartedInv == Started(wire) /\ Started(buf) /\ Started(reg)

LEMMA StartedOut ==
  ASSUME BridgeInv, StartedInv, sends' = sends, NEW p \in Piece, p.event \in 0..sends,
         Respond(p)
  PROVE  Started(wire)' /\ Started(buf)'
<1>1. buf \in Seq(Piece) /\ wire \in Seq(Piece)
  BY DEF BridgeInv, TypeOK
<1>2. Append(buf, p) \in Seq(Piece) /\ \A i \in 1..Len(Append(buf, p)) : Append(buf, p)[i].event \in 0..sends
  BY <1>1, AppendProperties DEF StartedInv, Started
<1>3. CASE wire' = wire /\ buf' \in {<<>>, Append(buf, p)}
  BY <1>2, <1>3 DEF StartedInv, Started
<1>4. CASE wire' = wire \o Append(buf, p) /\ buf' = <<>>
  BY <1>1, <1>2, <1>4 DEF StartedInv, Started
<1>. QED
  BY <1>3, <1>4 DEF Respond, Accept, Dropped

LEMMA StartedStep == BridgeInv /\ StartedInv /\ [Next]_vars => StartedInv'
<1>. SUFFICES ASSUME BridgeInv, StartedInv, [Next]_vars PROVE StartedInv'
  OBVIOUS
<1>. sends \in Nat
  BY DEF BridgeInv, TypeOK
<1>1. CASE DecodeFails \/ AdapterFails \/ Report
  <2>1. sends' = sends /\ reg' = reg /\ Respond(ErrBody)
    BY <1>1 DEF DecodeFails, AdapterFails, Report, fnVars
  <2>2. ErrBody.event \in 0..sends
    BY DEF ErrBody
  <2>. QED
    BY <2>1, <2>2, PieceTypes, StartedOut DEF StartedInv, Started
<1>2. CASE PutPiece
  <2>1. sends' = sends /\ reg' = <<>> /\ Respond(reg[1])
    BY <1>2 DEF PutPiece, fnVars
  <2>2. reg[1] \in Piece /\ reg[1].event \in 0..sends
    BY <1>2, Singleton DEF PutPiece, BridgeInv, TypeOK, Control, StartedInv, Started
  <2>. QED
    BY <2>1, <2>2, StartedOut DEF StartedInv, Started
<1>3. CASE Finish
  <2>1. sends' = sends /\ reg' = reg /\ buf' = <<>> /\ wire' \in {wire, wire \o buf}
    BY <1>3 DEF Finish, fnVars
  <2>2. buf \in Seq(Piece) /\ wire \in Seq(Piece)
    BY DEF BridgeInv, TypeOK
  <2>3. \A i \in 1..Len(wire \o buf) : (wire \o buf)[i].event \in 0..sends
    BY <2>2 DEF StartedInv, Started
  <2>4. Started(wire)'
    BY <2>1, <2>3 DEF StartedInv, Started
  <2>. QED
    BY <2>1, <2>4 DEF StartedInv, Started
<1>4. CASE ReadPiece
  BY <1>4 DEF ReadPiece, Offered, outVars, StartedInv, Started
<1>5. CASE BeginSend
  BY <1>5 DEF BeginSend, serverVars, outVars, StartedInv, Started
<1>6. CASE PutFails
  BY <1>6 DEF PutFails, fnVars, outVars, StartedInv, Started
<1>7. CASE \/ StartStream \/ WriteHeader \/ ReadClosed \/ CloseReader
           \/ ReportNothing \/ MarshalFails \/ WriteFails \/ FnReturns \/ ClientLeaves \/ ContextCancelled \/ Terminated
           \/ UNCHANGED vars
  <2>1. UNCHANGED <<sends, wire, buf, reg>>
    BY <1>7 DEF StartStream, WriteHeader, ReadClosed, CloseReader, ReportNothing,
                MarshalFails, WriteFails, FnReturns, Return, ClientLeaves, ContextCancelled, Terminated, vars, fnVars, serverVars, outVars
  <2>. QED
    BY <2>1 DEF StartedInv, Started
<1>. QED
  BY <1>1, <1>2, <1>3, <1>4, <1>5, <1>6, <1>7 DEF Next, Server, Goroutine

LEMMA StartedInvariant == Spec => []StartedInv
<1>1. Init => StartedInv
  BY DEF Init, StartedInv, Started
<1>. QED
  BY <1>1, StartedStep, BridgeInvariant, PTL DEF Spec

LEMMA StillArrives ==
  ASSUME BridgeInv, BridgeInv', srv # "over", srv' # "over", srv' # "put",
         NEW p \in Piece, Respond(p), UNCHANGED <<fn, pw, sends, client>>
  PROVE  Promise!Receive \/ UNCHANGED Promise!vars
<1>1. CASE wire' = wire
  BY <1>1 DEF Promise!vars, Producer, Consumer, Received
<1>2. CASE wire' # wire
  <2>1. client = "connected" /\ wire' = wire \o Append(buf, p) /\ buf' = <<>>
    BY <1>2 DEF Respond, Accept, Dropped
  <2>2. Append(buf, p) \in Seq(Piece)
    BY AppendProperties DEF BridgeInv, TypeOK
  <2>3. reg' = <<>>
    BY DEF BridgeInv, Control
  <2>. QED
    BY <2>1, <2>2, <2>3, ArriveImplements
<1>. QED
  BY <1>1, <1>2

\* Every step of the bridge is a step of the abstract stream, or none.
LEMMA PromiseStep ==
  BridgeInv /\ BridgeInv' /\ StartedInv /\ [Next]_vars => [Promise!Next]_Promise!vars
<1>. SUFFICES ASSUME BridgeInv, BridgeInv', StartedInv, [Next]_vars
              PROVE  Promise!Next \/ UNCHANGED Promise!vars
  OBVIOUS
<1>. USE DEF Promise!Next
<1>1. CASE DecodeFails \/ AdapterFails
  <2>1. srv = "decode" /\ srv' = "finish" /\ UNCHANGED <<fn, pw, sends, client>> /\ Respond(ErrBody)
    BY <1>1 DEF DecodeFails, AdapterFails, fnVars, pipeVars
  <2>. QED
    BY <2>1, StillArrives, PieceTypes
<1>2. CASE StartStream
  <2>1. fn = "none"
    BY <1>2 DEF StartStream, BridgeInv, Control
  <2>2. Producer = "idle" /\ Producer' = "running"
    BY <1>2, <2>1 DEF StartStream, Producer
  <2>3. Consumer # "ended" /\ Consumer' = Consumer /\ Received' = Received /\ sends' = sends
    BY <1>2 DEF StartStream, Consumer, Received, outVars
  <2>. QED
    BY <2>2, <2>3 DEF Promise!Start
<1>3. CASE PutPiece
  <2>1. srv = "put" /\ srv' = "read" /\ UNCHANGED <<fn, pw, sends, client>> /\ Respond(reg[1])
    BY <1>3 DEF PutPiece, fnVars, pipeVars
  <2>2. reg[1] \in Piece
    BY <2>1, Singleton DEF BridgeInv, TypeOK, Control
  <2>. QED
    BY <2>1, <2>2, StillArrives
<1>4. CASE Report
  <2>1. srv = "report" /\ srv' = "finish" /\ UNCHANGED <<fn, pw, sends, client>> /\ Respond(ErrBody)
    BY <1>4 DEF Report, fnVars, pipeVars
  <2>. QED
    BY <2>1, StillArrives, PieceTypes
<1>5. CASE Finish
  <2>. USE <1>5
  <2>1. CASE client = "connected"
    <3>1. Producer # "running" /\ Producer' = Producer /\ sends' = sends
      BY <2>1 DEF Finish, BridgeInv, TypeOK, Control, Producer, fnVars, pipeVars
    <3>2. Consumer = "attached" /\ Consumer' = "ended"
      BY <2>1 DEF Finish, Consumer
    <3>3. Received' = 1..sends
      BY <2>1, CompleteState DEF Finish, fnVars
    <3>. QED
      BY <3>1, <3>2, <3>3 DEF Promise!End
  <2>2. CASE client = "gone"
    BY <2>2 DEF Finish, Promise!vars, Producer, Consumer, Received, fnVars, pipeVars
  <2>. QED
    BY <2>1, <2>2 DEF Finish
<1>6. CASE BeginSend
  <2>1. fn = "user" /\ fn' = "writing" /\ sends' = sends + 1
    BY <1>6 DEF BeginSend
  <2>2. Producer = "running" /\ Producer' = "running" /\ Consumer' = Consumer
    BY <1>6, <2>1 DEF BeginSend, Producer, Consumer, serverVars
  <2>3. Received' = Received
    <3>1. \A i \in 1..Len(wire) : wire[i].event # sends + 1
      BY DEF BridgeInv, TypeOK, StartedInv, Started
    <3>2. \A i \in 1..Len(wire) : wire[i] # [event |-> sends + 1, part |-> Pieces]
      BY <3>1
    <3>3. sends \in Nat /\ 1..(sends + 1) = (1..sends) \cup {sends + 1}
      BY DEF BridgeInv, TypeOK
    <3>4. wire' = wire
      BY <1>6 DEF BeginSend, outVars
    <3>. QED
      BY <2>1, <3>2, <3>3, <3>4 DEF Received
  <2>. QED
    BY <2>1, <2>2, <2>3 DEF Promise!Emit
<1>7. CASE FnReturns
  <2>1. Producer = "running" /\ Producer' \in {"finished", "failed"}
    BY <1>7 DEF FnReturns, Return, Producer
  <2>2. Consumer' = Consumer /\ Received' = Received /\ sends' = sends
    BY <1>7 DEF FnReturns, Return, Consumer, Received, serverVars, outVars
  <2>. QED
    BY <2>1, <2>2 DEF Promise!Stop
<1>8. CASE ClientLeaves
  BY <1>8 DEF ClientLeaves, Promise!Leave, Producer, Consumer, Received, fnVars, pipeVars, serverVars, outVars
<1>9. CASE WriteHeader \/ ReadPiece \/ ReadClosed \/ PutFails \/ CloseReader
           \/ ReportNothing
  <2>1. UNCHANGED <<pw, sends, wire, client>> /\ (fn' = fn \/ (fn = "writing" /\ fn' = "user"))
    BY <1>9 DEF WriteHeader, ReadPiece, ReadClosed, PutFails, CloseReader,
                ReportNothing, fnVars, pipeVars, outVars
  <2>2. srv # "over" /\ srv' # "over"
    BY <1>9 DEF WriteHeader, ReadPiece, ReadClosed, PutFails, CloseReader,
                ReportNothing
  <2>. QED
    BY <2>1, <2>2 DEF Promise!vars, Producer, Consumer, Received
<1>10. CASE MarshalFails \/ WriteFails \/ ContextCancelled \/ Terminated \/ UNCHANGED vars
  <2>1. UNCHANGED <<pw, sends, wire, client, srv>> /\ (fn' = fn \/ (fn = "writing" /\ fn' = "user"))
    BY <1>10 DEF MarshalFails, WriteFails, ContextCancelled, Terminated, vars, fnVars, pipeVars, serverVars, outVars
  <2>. QED
    BY <2>1 DEF Promise!vars, Producer, Consumer, Received
<1>. QED
  BY <1>1, <1>2, <1>3, <1>4, <1>5, <1>6, <1>7, <1>8, <1>9, <1>10 DEF Next, Server, Goroutine

\* The bridge implements the abstract event stream: whatever the buffer, the
\* pipe and the scheduler do, the client gets the events first to last, and an
\* end only after the service's, with every event.
THEOREM BridgeImplementsStream == Spec => KeepsPromise
<1>. QED
  BY PromiseInit, PromiseStep, BridgeInvariant, StartedInvariant, PTL DEF Spec, KeepsPromise, Promise!Spec
=============================================================================
