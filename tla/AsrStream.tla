----------------------------- MODULE AsrStream -----------------------------
(***************************************************************************)
(* One streaming recognition session (deepgramSession in                   *)
(* pkg/asr/deepgram.go; sarvamSession has the same shape).  One goroutine  *)
(* pushes audio and dials when there is no connection; every connection    *)
(* has a reader and a keepalive goroutine; Close may be called at any      *)
(* time, and a fatal error tears the stream down from whichever goroutine  *)
(* met it.  Connections are numbered by their generation.                  *)
(***************************************************************************)
EXTENDS Integers

CONSTANTS
  OutCapacity,           \* capacity of the Transcripts channel
  MaxReconnectAttempts,  \* WithMaxReconnectAttempts
  MaxPushes,             \* bound: frames pushed
  MaxFinals              \* bound: transcripts the vendor sends

ASSUME StreamConstants ==
  /\ OutCapacity \in Nat \ {0} /\ MaxReconnectAttempts \in Nat \ {0}
  /\ MaxPushes \in Nat /\ MaxFinals \in Nat

Gen == 1..(2 * MaxPushes)   \* a push dials at most twice

VARIABLES
  conn,       \* s.conn: a generation, or 0 for nil
  gen,        \* s.gen
  closed,     \* s.closed
  attempts,   \* s.reconnectAttempts
  ctxDone,    \* s.ctx is cancelled
  socket,     \* each connection: "none", "up", "lost" (by the vendor) or "shut"
  reader,     \* each readLoop: "none", "read", "send" (counted in sendWG) or "gone"
  keepAlive,  \* the generations whose keepAliveLoop runs
  queued,     \* transcripts in the out channel
  closes,     \* history: how often close(s.out) ran
  pusher,     \* where PushAudio is
  closer,     \* where Close is
  finisher,   \* failAndClose's goroutine: "none", "wait" or "done"
  pushes, finals

connVars  == <<conn, gen, attempts>>
outVars   == <<queued, closes>>
boundVars == <<pushes, finals>>
vars == <<connVars, closed, ctxDone, socket, reader, keepAlive, outVars, pusher,
          closer, finisher, boundVars>>

Pusher == {"idle", "connect", "dial", "dialled", "write",
           "reconnect", "redial", "redialled", "rewrite"}
Closer == {"idle", "flush", "shut", "cancel", "waitWorkers", "waitSends", "closeOut", "done"}

\* Every variable has its type and the channel is closed at most once: a second
\* close(s.out) would panic (Close and failAndClose both end in one).
TypeOK ==
  /\ conn \in Gen \cup {0} /\ gen \in Gen \cup {0} /\ attempts \in Nat
  /\ closed \in BOOLEAN /\ ctxDone \in BOOLEAN
  /\ socket \in [Gen -> {"none", "up", "lost", "shut"}]
  /\ reader \in [Gen -> {"none", "read", "send", "gone"}]
  /\ keepAlive \subseteq Gen
  /\ queued \in 0..OutCapacity /\ closes \in 0..1
  /\ pusher \in Pusher
  /\ closer \in Closer /\ finisher \in {"none", "wait", "done"}
  /\ pushes \in 0..MaxPushes /\ finals \in 0..MaxFinals

Init ==
  /\ conn = 0 /\ gen = 0 /\ attempts = 0
  /\ closed = FALSE /\ ctxDone = FALSE
  /\ socket = [g \in Gen |-> "none"]
  /\ reader = [g \in Gen |-> "none"]
  /\ keepAlive = {}
  /\ queued = 0 /\ closes = 0
  /\ pusher = "idle"
  /\ closer = "idle" /\ finisher = "none"
  /\ pushes = 0 /\ finals = 0

\* s.workerWG and s.sendWG are at zero.
NoWorkers == keepAlive = {} /\ \A g \in Gen : reader[g] \in {"none", "gone"}
NoSends   == \A g \in Gen : reader[g] # "send"

Shut(c) == socket' = [g \in Gen |-> IF g = c THEN "shut" ELSE socket[g]]

\* Mutant: a stream already closed is torn down again.
FailAndCloseAgain ==
  /\ closed' = TRUE /\ conn' = 0 /\ ctxDone' = TRUE /\ finisher' = "wait"
  /\ Shut(conn)

\* failAndClose: the connection is shut, the context cancelled, and the channel
\* left to a goroutine that waits for the workers - the caller may be one.
FailAndClose ==
  \/ closed /\ UNCHANGED <<closed, conn, ctxDone, socket, finisher>>
  \/ /\ ~closed
     /\ closed' = TRUE /\ conn' = 0 /\ ctxDone' = TRUE /\ finisher' = "wait"
     /\ Shut(conn)

-----------------------------------------------------------------------------
(* PushAudio and ensureConnected.                                          *)

PushBegins ==
  /\ pusher = "idle" /\ ~closed /\ pushes < MaxPushes
  /\ pushes' = pushes + 1
  /\ pusher' = IF conn = 0 THEN "connect" ELSE "write"
  /\ UNCHANGED <<connVars, closed, ctxDone, socket, reader, keepAlive, outVars,
                 closer, finisher, finals>>

PushStep(from, to) ==
  /\ pusher = from /\ pusher' = to
  /\ UNCHANGED <<reader, keepAlive, outVars, closer, boundVars>>

\* PushAudio fails and closes the stream.
PushFails(from) ==
  PushStep(from, "idle") /\ FailAndClose /\ UNCHANGED gen

ConnectNoop(from, to) ==
  /\ conn # 0
  /\ PushStep(from, to)
  /\ UNCHANGED <<connVars, closed, ctxDone, socket, finisher>>

\* With attempts behind it, the dial waits out a backoff first.
Dial(from, to) ==
  /\ conn = 0 /\ ~closed /\ attempts < MaxReconnectAttempts
  /\ PushStep(from, to)
  /\ UNCHANGED <<connVars, closed, ctxDone, socket, finisher>>

\* The stream was closed, or its attempts are used up.
ConnectRefused(from) ==
  /\ conn = 0 /\ (closed \/ attempts >= MaxReconnectAttempts)
  /\ PushFails(from)
  /\ UNCHANGED attempts

\* Whatever attempts are left, a failed dial is fatal.
DialFails(from) == PushFails(from) /\ attempts' = attempts + 1

DialSucceeds(from, to) ==
  /\ gen + 1 \in Gen
  /\ PushStep(from, to)
  /\ gen' = gen + 1 /\ conn' = gen + 1
  /\ socket' = [socket EXCEPT ![gen + 1] = "up"]
  /\ UNCHANGED <<attempts, closed, ctxDone, finisher>>

\* workerWG.Add, after the lock was released; Sarvam's stream has no keepalive.
StartWorkers(from, to) ==
  /\ pusher = from /\ pusher' = to
  /\ reader' = [reader EXCEPT ![gen] = "read"]
  /\ keepAlive' \in {keepAlive, keepAlive \cup {gen}}
  /\ UNCHANGED <<connVars, closed, ctxDone, socket, outVars, closer, finisher,
                 boundVars>>

\* A write into a connection the vendor dropped may still seem to succeed.
WriteOk(from) ==
  /\ conn # 0 /\ socket[conn] \in {"up", "lost"}
  /\ PushStep(from, "idle")
  /\ UNCHANGED <<connVars, closed, ctxDone, socket, finisher>>

WriteBroken == IF conn = 0 THEN TRUE ELSE socket[conn] # "up"

\* Mutant: the failed connection is given up at once, before its reader is gone.
FirstWriteDropsConn ==
  /\ WriteBroken
  /\ conn' = 0
  /\ PushStep("write", "reconnect")
  /\ UNCHANGED <<gen, attempts, closed, ctxDone, socket, finisher>>

\* The dead connection stays until its reader notices it.
FirstWriteFails ==
  /\ WriteBroken
  /\ PushStep("write", "reconnect")
  /\ UNCHANGED <<connVars, closed, ctxDone, socket, finisher>>

SecondWriteFails == WriteBroken /\ PushFails("rewrite") /\ UNCHANGED attempts

PushAudio ==
  \/ ConnectNoop("reconnect", "rewrite")
  \/ Dial("connect", "dial") \/ Dial("reconnect", "redial")
  \/ ConnectRefused("connect") \/ ConnectRefused("reconnect")
  \/ DialFails("dial") \/ DialFails("redial")
  \/ DialSucceeds("dial", "dialled") \/ DialSucceeds("redial", "redialled")
  \/ StartWorkers("dialled", "write") \/ StartWorkers("redialled", "rewrite")
  \/ WriteOk("write") \/ WriteOk("rewrite")
  \/ FirstWriteFails \/ SecondWriteFails

-----------------------------------------------------------------------------
(* readLoop, handleMessage and keepAliveLoop.                              *)

\* Mutant: handleMessage sends whatever the state of the stream.
ReadsFinalUnchecked(g) ==
  /\ reader[g] = "read" /\ socket[g] = "up" /\ finals < MaxFinals
  /\ finals' = finals + 1
  /\ reader' = [reader EXCEPT ![g] = "send"]
  /\ UNCHANGED <<connVars, closed, ctxDone, socket, keepAlive, outVars, pusher,
                 closer, finisher, pushes>>

\* A transcript arrives; it is dropped when the stream is closed or the
\* connection superseded.
ReadsFinal(g) ==
  LET dropped == closed \/ g # gen IN
  /\ reader[g] = "read" /\ socket[g] = "up" /\ finals < MaxFinals
  /\ finals' = finals + 1
  /\ reader' = IF dropped THEN reader ELSE [reader EXCEPT ![g] = "send"]
  /\ UNCHANGED <<connVars, closed, ctxDone, socket, keepAlive, outVars, pusher,
                 closer, finisher, pushes>>

Sends(g) ==
  /\ reader[g] = "send" /\ queued < OutCapacity
  /\ queued' = queued + 1
  /\ reader' = [reader EXCEPT ![g] = "read"]
  /\ UNCHANGED <<connVars, closed, ctxDone, socket, keepAlive, closes, pusher,
                 closer, finisher, boundVars>>

SendAbandoned(g) ==
  /\ reader[g] = "send" /\ ctxDone
  /\ reader' = [reader EXCEPT ![g] = "read"]
  /\ UNCHANGED <<connVars, closed, ctxDone, socket, keepAlive, outVars, pusher,
                 closer, finisher, boundVars>>

\* Mutant: the fatal error closes the stream and leaves nobody to end the channel.
ReadsErrorUnfinished(g) ==
  /\ reader[g] = "read" /\ socket[g] = "up"
  /\ IF closed THEN UNCHANGED <<closed, conn, ctxDone, socket>>
     ELSE closed' = TRUE /\ conn' = 0 /\ ctxDone' = TRUE /\ Shut(conn)
  /\ UNCHANGED <<gen, attempts, finisher, reader, keepAlive, outVars, pusher,
                 closer, boundVars>>

\* The vendor reports an error on the connection.
ReadsError(g) ==
  /\ reader[g] = "read" /\ socket[g] = "up"
  /\ FailAndClose
  /\ UNCHANGED <<gen, attempts, reader, keepAlive, outVars, pusher, closer,
                 boundVars>>

\* onConnLost: the next push dials again, unless the stream is closed.
ReaderEnds(g) ==
  /\ reader[g] = "read" /\ socket[g] \in {"lost", "shut"}
  /\ reader' = [reader EXCEPT ![g] = "gone"]
  /\ conn' = IF closed \/ g # gen THEN conn ELSE 0
  /\ UNCHANGED <<gen, attempts, closed, ctxDone, socket, keepAlive, outVars, pusher,
                 closer, finisher, boundVars>>

KeepAliveEnds(g) ==
  /\ g \in keepAlive
  /\ ctxDone \/ closed \/ g # gen \/ socket[g] # "up"
  /\ keepAlive' = keepAlive \ {g}
  /\ UNCHANGED <<connVars, closed, ctxDone, socket, reader, outVars, pusher,
                 closer, finisher, boundVars>>

Workers(g) ==
  ReadsFinal(g) \/ Sends(g) \/ SendAbandoned(g) \/ ReaderEnds(g) \/ KeepAliveEnds(g)

-----------------------------------------------------------------------------
(* Close, and the goroutine failAndClose leaves behind.                    *)

CloseStep(from, to) ==
  /\ closer = from /\ closer' = to
  /\ UNCHANGED <<gen, attempts, reader, keepAlive, queued, pusher, finisher,
                 boundVars>>

\* A stream already closed is left to whoever closed it.
CloseBegins ==
  /\ \/ closed /\ CloseStep("idle", "done")
     \/ ~closed /\ CloseStep("idle", IF conn = 0 THEN "cancel" ELSE "flush")
  /\ closed' = TRUE
  /\ conn' = IF closed THEN conn ELSE 0
  /\ UNCHANGED <<ctxDone, socket, closes>>

\* The CloseStream message asks the vendor to flush.
CloseFlushes ==
  /\ CloseStep("flush", "shut")
  /\ UNCHANGED <<conn, closed, ctxDone, socket, closes>>

\* No dial began once closed was set, so the connection is the last one dialled.
CloseShuts ==
  /\ CloseStep("shut", "cancel")
  /\ Shut(gen)
  /\ UNCHANGED <<conn, closed, ctxDone, closes>>

CloseCancels ==
  /\ CloseStep("cancel", "waitWorkers")
  /\ ctxDone' = TRUE
  /\ UNCHANGED <<conn, closed, socket, closes>>

CloseWaits ==
  /\ \/ CloseStep("waitWorkers", "waitSends") /\ NoWorkers
     \/ CloseStep("waitSends", "closeOut") /\ NoSends
  /\ UNCHANGED <<conn, closed, ctxDone, socket, closes>>

CloseEnds ==
  /\ CloseStep("closeOut", "done")
  /\ closes' = closes + 1
  /\ UNCHANGED <<conn, closed, ctxDone, socket>>

Close == CloseFlushes \/ CloseShuts \/ CloseCancels \/ CloseWaits \/ CloseEnds

Finish ==
  /\ finisher = "wait" /\ NoWorkers /\ NoSends
  /\ finisher' = "done"
  /\ closes' = closes + 1
  /\ UNCHANGED <<connVars, closed, ctxDone, socket, reader, keepAlive, queued, pusher,
                 closer, boundVars>>

-----------------------------------------------------------------------------
VendorDrops(g) ==
  /\ socket[g] = "up"
  /\ socket' = [socket EXCEPT ![g] = "lost"]
  /\ UNCHANGED <<connVars, closed, ctxDone, reader, keepAlive, outVars, pusher,
                 closer, finisher, boundVars>>

\* The session takes a transcript.
Take ==
  /\ queued > 0
  /\ queued' = queued - 1
  /\ UNCHANGED <<connVars, closed, ctxDone, socket, reader, keepAlive, closes, pusher,
                 closer, finisher, boundVars>>

\* The context StartStream was given is cancelled.
ParentCancels ==
  /\ ~ctxDone
  /\ ctxDone' = TRUE
  /\ UNCHANGED <<connVars, closed, socket, reader, keepAlive, outVars, pusher,
                 closer, finisher, boundVars>>

Next ==
  \/ PushBegins \/ PushAudio
  \/ \E g \in Gen : Workers(g) \/ ReadsError(g) \/ VendorDrops(g)
  \/ CloseBegins \/ Close \/ Finish
  \/ Take \/ ParentCancels

Spec == Init /\ [][Next]_vars

\* Every goroutine runs: dials end, readers see their socket end, blocked sends
\* see the context.  The vendor, the pusher's caller and the consumer owe nothing.
FairSpec ==
  /\ Spec /\ WF_vars(PushAudio) /\ WF_vars(Close) /\ WF_vars(Finish)
  /\ \A g \in Gen : /\ WF_vars(SendAbandoned(g)) /\ WF_vars(ReaderEnds(g))
                    /\ WF_vars(KeepAliveEnds(g))

\* And the vendor drops a connection that no longer carries anything.
IdleSpec == FairSpec /\ \A g \in Gen : WF_vars(closed /\ VendorDrops(g))

-----------------------------------------------------------------------------
(* Properties.                                                             *)

\* No goroutine sends on the channel once it is closed, which would panic (the
\* comment on sendWG: in-flight sends to out).
NoSendOnClosedOut == closes > 0 => NoSends

\* A readLoop that can still deliver a transcript.
Live(g) == reader[g] \in {"read", "send"}

\* Transcripts keep their order across reconnections: the next connection is
\* dialled only when the reader of the last one is gone, so two readers never
\* deliver into the channel side by side.
OneReader == \A g, h \in Gen : Live(g) /\ Live(h) => g = h

\* A stream that was closed, by Close or by a fatal error met in any goroutine,
\* ends its Transcripts channel: the session waits for that.
ClosedStreamEnds == closed ~> (closes = 1)

\* deepgram.go, Close: safe to call concurrently with PushAudio - it returns
\* even if the vendor keeps the connection up.
CloseReturns == (closer = "flush" \/ closer = "cancel") ~> (closer = "done")
=============================================================================
