------------------------------- MODULE Frames -------------------------------
(***************************************************************************)
(* The WebSocket client that pkg/tts/cartesia_ws.go writes by hand: it      *)
(* reads frames and puts messages together from them, answers pings on the  *)
(* way, and writes frames of its own.  The server keeps to RFC 6455: it may *)
(* cut a message into frames anywhere, and put control frames between them. *)
(*                                                                         *)
(* Of a payload its length counts, and which frame it is; masks cancel out. *)
(***************************************************************************)
EXTENDS Integers, Sequences, FiniteSets

CONSTANTS
  Sizes,         \* lengths of payloads the server sends, in bytes
  MaxPayload,    \* maxWSFramePayload
  MaxFrames      \* bound: frames the server sends

ASSUME FramesAssumption == Sizes \subseteq Nat /\ MaxPayload \in Nat /\ MaxFrames \in Nat

Data == {"text", "binary"}
Opcode == Data \cup {"continuation", "ping", "pong", "close"}

VARIABLES
  sent,       \* frames the server has sent
  open,       \* whether it is in the middle of a message
  seen,       \* how many of its frames the client has read
  started,    \* readWSMessage: a message has begun
  msgOpcode,  \* its opcode
  assembled,  \* the frames put together so far
  delivered,  \* the messages readWSMessage has returned
  written,    \* the frames the client has written
  reading     \* "on", "closed" (wsErrClosed) or "failed"

serverVars == <<sent, open>>
readerVars == <<seen, started, msgOpcode, assembled, delivered, written, reading>>
framesVars == <<serverVars, readerVars>>

-----------------------------------------------------------------------------
(* The header: seven bits of length, and an extension of two or eight bytes. *)

\* writeWSFrame.
Header(n) ==
  IF n <= 125 THEN [short |-> n, extension |-> 0]
  ELSE IF n <= 65535 THEN [short |-> 126, extension |-> n % 2^16]
  ELSE [short |-> 127, extension |-> n]

\* readWSFrame.
Length(h) == IF h.short \in {126, 127} THEN h.extension ELSE h.short

-----------------------------------------------------------------------------
(* The server.                                                             *)

FramesInit ==
  /\ sent = <<>> /\ open = FALSE /\ seen = 0
  /\ started = FALSE /\ msgOpcode = "none" /\ assembled = <<>>
  /\ delivered = <<>> /\ written = <<>> /\ reading = "on"

\* A frame: its number, whether it ends its message, its opcode, its size and
\* the header the size is read from.
Frame(fin, op, n) ==
  [id |-> Len(sent) + 1, fin |-> fin, op |-> op, size |-> n, header |-> Header(n)]

Sends(fin, op, n) ==
  /\ Len(sent) < MaxFrames
  /\ \A i \in DOMAIN sent : sent[i].op # "close"
  /\ sent' = Append(sent, Frame(fin, op, n))
  /\ UNCHANGED readerVars

ServerSendsData ==
  \E fin \in BOOLEAN, n \in Sizes :
    /\ IF open THEN Sends(fin, "continuation", n) ELSE \E op \in Data : Sends(fin, op, n)
    /\ open' = ~fin

\* Control frames are short and whole.
ServerSendsControl ==
  /\ \E op \in {"ping", "pong", "close"}, n \in {m \in Sizes : m <= 125} : Sends(TRUE, op, n)
  /\ UNCHANGED open

-----------------------------------------------------------------------------
(* The client.                                                             *)

Next1 == sent[seen + 1]

\* readWSFrame gives the next frame with one of these opcodes.
Reads1(ops) ==
  /\ reading = "on" /\ seen < Len(sent) /\ Next1.op \in ops
  /\ Length(Next1.header) <= MaxPayload
  /\ seen' = seen + 1
  /\ UNCHANGED serverVars

TooLarge ==
  /\ reading = "on" /\ seen < Len(sent) /\ Length(Next1.header) > MaxPayload
  /\ reading' = "failed"
  /\ UNCHANGED <<serverVars, seen, started, msgOpcode, assembled, delivered, written>>

\* What is read of a frame: its number and as many bytes as its header says.
Piece(f) == <<f.id, Length(f.header)>>

WriteFrame(op, n) == written' = Append(written, [op |-> op, header |-> Header(n)])

\* Mutant: every frame read starts the message anew.
AnswersPingAfresh ==
  /\ Reads1({"ping"})
  /\ WriteFrame("pong", Length(Next1.header))
  /\ assembled' = <<>>
  /\ UNCHANGED <<started, msgOpcode, delivered, reading>>

AnswersPing ==
  /\ Reads1({"ping"})
  /\ WriteFrame("pong", Length(Next1.header))
  /\ UNCHANGED <<started, msgOpcode, assembled, delivered, reading>>

IgnoresPong ==
  /\ Reads1({"pong"})
  /\ UNCHANGED <<started, msgOpcode, assembled, delivered, written, reading>>

ReadsClose ==
  /\ Reads1({"close"})
  /\ WriteFrame("close", 0)
  /\ reading' = "closed"
  /\ UNCHANGED <<started, msgOpcode, assembled, delivered>>

\* readWSMessage returns; the next call starts from nothing.
Returns(op, pieces) ==
  /\ delivered' = Append(delivered, [op |-> op, pieces |-> pieces])
  /\ started' = FALSE /\ msgOpcode' = "none" /\ assembled' = <<>>
  /\ UNCHANGED <<written, reading>>

\* A text or binary frame.
ReadsData ==
  /\ Reads1(Data)
  /\ IF Next1.fin
     THEN Returns(Next1.op, Append(assembled, Piece(Next1)))
     ELSE /\ started' = TRUE /\ msgOpcode' = Next1.op
          /\ assembled' = Append(assembled, Piece(Next1))
          /\ UNCHANGED <<delivered, written, reading>>

ReadsContinuation ==
  /\ Reads1({"continuation"})
  /\ IF ~started
     THEN /\ reading' = "failed"
          /\ UNCHANGED <<started, msgOpcode, assembled, delivered, written>>
     ELSE IF Next1.fin
          THEN Returns(msgOpcode, Append(assembled, Piece(Next1)))
          ELSE /\ assembled' = Append(assembled, Piece(Next1))
               /\ UNCHANGED <<started, msgOpcode, delivered, written, reading>>

FramesNext ==
  \/ ServerSendsData \/ ServerSendsControl
  \/ TooLarge \/ AnswersPing \/ IgnoresPong \/ ReadsClose \/ ReadsData \/ ReadsContinuation

FramesSpec == FramesInit /\ [][FramesNext]_framesVars

-----------------------------------------------------------------------------
(* Properties.                                                             *)

\* The frames that are pieces of messages.
Carries(f) == f.op \in Data \cup {"continuation"}

\* The messages that have been returned, and the one being put together.
Messages == 1 .. Len(delivered) + 1
Pieces(k) == IF k \in DOMAIN delivered THEN delivered[k].pieces ELSE assembled

\* Every frame read that carries data is in one place of one message, all its bytes
\* with it, and the places are in the order of the frames.
PiecesOnceInOrder ==
  /\ \A k \in Messages : \A i \in DOMAIN Pieces(k) :
       LET id == Pieces(k)[i][1]
       IN  id \in 1 .. seen /\ Carries(sent[id]) /\ Pieces(k)[i][2] = sent[id].size
  /\ \A k, l \in Messages : \A i \in DOMAIN Pieces(k), j \in DOMAIN Pieces(l) :
       k < l \/ (k = l /\ i < j) => Pieces(k)[i][1] < Pieces(l)[j][1]
  /\ \A id \in 1 .. seen : Carries(sent[id]) =>
       \E k \in Messages : \E i \in DOMAIN Pieces(k) : Pieces(k)[i][1] = id

\* A message ends where the server ended it, and has the opcode it began with.
MessagesAsSent ==
  \A k \in DOMAIN delivered :
    LET pieces == delivered[k].pieces
    IN  /\ pieces # <<>> /\ sent[pieces[1][1]].op = delivered[k].op
        /\ \A i \in DOMAIN pieces : sent[pieces[i][1]].fin <=> i = Len(pieces)

\* The n-th ping read is answered by the n-th frame written, and no other pong is.
PingsUpTo(n) == Cardinality({i \in 1 .. n : sent[i].op = "ping"})
PingsAnswered ==
  /\ {i \in DOMAIN written : written[i].op = "pong"} = 1 .. PingsUpTo(seen)
  /\ \A i \in 1 .. seen : sent[i].op = "ping" => Length(written[PingsUpTo(i)].header) = sent[i].size

\* What readWSMessage returns is what the server sent: every message whole, its
\* frames in order and no byte of them missing, under the opcode of its first
\* frame, whatever control frames came between; every ping has its pong, and
\* only a frame over the limit ends the reading (cartesia_ws.go:229-333).
MessagesWhole ==
  /\ PiecesOnceInOrder /\ MessagesAsSent /\ PingsAnswered
  /\ reading = "failed" => Next1.size > MaxPayload

=============================================================================
