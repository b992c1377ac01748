-------------------------- MODULE AsrStreamProofs --------------------------
(* Theorems of AsrStream and of AsrVendors, for any channel capacity, any  *)
(* number of pushes and reconnections.                                     *)
EXTENDS AsrVendors, TLAPS

\* The steps in which Close is the one that ends the stream.
Closing == {"flush", "shut", "cancel", "waitWorkers", "waitSends", "closeOut"}

\* Whoever set closed ends the channel, and ends it alone: Close and
\* failAndClose test and set closed under s.mu.  From then on no send begins,
\* so once the sends are gone they stay gone.
OneCloser ==
  /\ ~closed => closer = "idle" /\ finisher = "none" /\ closes = 0
  /\ closer \in Closing => finisher = "none" /\ closes = 0
  /\ finisher = "wait" => closer \notin Closing /\ closes = 0
  /\ closer = "closeOut" \/ closes > 0 => NoSends

\* The workers of a connection are started for the generation just dialled.
DialledTyped == pusher \in {"dialled", "redialled"} => gen \in Gen

StreamInvariant == TypeOK /\ OneCloser /\ DialledTyped

-----------------------------------------------------------------------------
(* Lemmas.                                                                 *)

LEMMA ShutTyped ==
  ASSUME socket \in [Gen -> {"none", "up", "lost", "shut"}], NEW c, Shut(c)
  PROVE  socket' \in [Gen -> {"none", "up", "lost", "shut"}]
BY DEF Shut

\* A fatal error leaves the types alone...
LEMMA FailAndCloseTyped ==
  ASSUME TypeOK, FailAndClose
  PROVE  /\ conn' \in Gen \cup {0} /\ closed' \in BOOLEAN /\ ctxDone' \in BOOLEAN
         /\ socket' \in [Gen -> {"none", "up", "lost", "shut"}]
         /\ finisher' \in {"none", "wait", "done"}
<1>1. CASE closed /\ UNCHANGED <<closed, conn, ctxDone, socket, finisher>>
  BY <1>1 DEF TypeOK
<1>2. CASE /\ ~closed
           /\ closed' = TRUE /\ conn' = 0 /\ ctxDone' = TRUE /\ finisher' = "wait"
           /\ Shut(conn)
  <2>1. socket' \in [Gen -> {"none", "up", "lost", "shut"}]
    BY <1>2, ShutTyped DEF TypeOK
  <2> QED BY <1>2, <2>1
<1> QED BY <1>1, <1>2, Zenon DEF FailAndClose

\* ... and makes its goroutine the one that ends the channel, unless the stream
\* was closed already.
LEMMA FailAndCloseIsOneCloser ==
  ASSUME OneCloser, FailAndClose, UNCHANGED <<closer, closes, reader>>
  PROVE  OneCloser'
<1>1. CASE closed /\ UNCHANGED <<closed, conn, ctxDone, socket, finisher>>
  BY <1>1 DEF OneCloser, NoSends
<1>2. CASE /\ ~closed
           /\ closed' = TRUE /\ conn' = 0 /\ ctxDone' = TRUE /\ finisher' = "wait"
           /\ Shut(conn)
  BY <1>2 DEF OneCloser, Closing, NoSends
<1> QED BY <1>1, <1>2, Zenon DEF FailAndClose

\* A step that starts no send and leaves the closing alone.
LEMMA QuietStep ==
  ASSUME OneCloser, UNCHANGED <<closed, closer, finisher, closes>>,
         \A g \in Gen : reader'[g] = "send" => reader[g] = "send" \/ ~closed
  PROVE  OneCloser'
<1>1. ASSUME (closer = "closeOut" \/ closes > 0)' PROVE NoSends'
  BY <1>1 DEF OneCloser, NoSends
<1> QED BY <1>1 DEF OneCloser, Closing

-----------------------------------------------------------------------------
(* The initial states and the steps.                                       *)

LEMMA StreamInit == Init => StreamInvariant
<1> SUFFICES ASSUME Init PROVE StreamInvariant
  OBVIOUS
<1>1. TypeOK
  <2>1. /\ socket \in [Gen -> {"none", "up", "lost", "shut"}]
        /\ reader \in [Gen -> {"none", "read", "send", "gone"}]
    BY DEF Init
  <2>2. queued \in 0..OutCapacity /\ pushes \in 0..MaxPushes /\ finals \in 0..MaxFinals
    BY StreamConstants DEF Init
  <2>3. closed \in BOOLEAN /\ ctxDone \in BOOLEAN /\ keepAlive \subseteq Gen
    BY DEF Init
  <2>4. conn \in Gen \cup {0} /\ gen \in Gen \cup {0}
    BY DEF Init
  <2>5. attempts \in Nat /\ closes \in 0..1
    BY DEF Init
  <2>6. pusher \in Pusher /\ closer \in Closer /\ finisher \in {"none", "wait", "done"}
    BY DEF Init, Pusher, Closer
  <2> QED BY <2>1, <2>2, <2>3, <2>4, <2>5, <2>6 DEF TypeOK
<1>2. OneCloser
  BY DEF Init, OneCloser, Closing, NoSends
<1>3. DialledTyped
  BY DEF Init, DialledTyped
<1> QED BY <1>1, <1>2, <1>3 DEF StreamInvariant

\* PushAudio, by its program points.
LEMMA PushAudioKeeps ==
  ASSUME StreamInvariant, PushAudio
  PROVE  StreamInvariant'
<1> USE DEF StreamInvariant
<1>1. ASSUME NEW from, NEW to \in Pusher \ {"dialled", "redialled"}, ConnectNoop(from, to)
      PROVE  StreamInvariant'
  <2>1. TypeOK'
    BY <1>1 DEF TypeOK, ConnectNoop, PushStep, connVars, outVars, boundVars
  <2>2. OneCloser'
    BY <1>1, QuietStep DEF ConnectNoop, PushStep, outVars
  <2> QED BY <1>1, <2>1, <2>2 DEF DialledTyped, ConnectNoop, PushStep
<1>2. ASSUME NEW from, NEW to \in Pusher \ {"dialled", "redialled"}, Dial(from, to)
      PROVE  StreamInvariant'
  <2>1. TypeOK'
    BY <1>2 DEF TypeOK, Dial, PushStep, connVars, outVars, boundVars
  <2>2. OneCloser'
    BY <1>2, QuietStep DEF Dial, PushStep, outVars
  <2> QED BY <1>2, <2>1, <2>2 DEF DialledTyped, Dial, PushStep
<1>3. ASSUME NEW from, PushFails(from), attempts' \in Nat
      PROVE  StreamInvariant'
  <2>1. TypeOK'
    BY <1>3, FailAndCloseTyped DEF TypeOK, PushFails, PushStep, Pusher, outVars, boundVars
  <2>2. OneCloser'
    BY <1>3, FailAndCloseIsOneCloser DEF PushFails, PushStep, outVars
  <2> QED BY <1>3, <2>1, <2>2 DEF DialledTyped, PushFails, PushStep
<1>4. ASSUME NEW from, NEW to \in {"dialled", "redialled"}, DialSucceeds(from, to)
      PROVE  StreamInvariant'
  <2>1. TypeOK'
    BY <1>4 DEF TypeOK, DialSucceeds, PushStep, Pusher, outVars, boundVars
  <2>2. OneCloser'
    BY <1>4, QuietStep DEF DialSucceeds, PushStep, outVars
  <2> QED BY <1>4, <2>1, <2>2 DEF DialledTyped, DialSucceeds, PushStep
<1>5. ASSUME NEW from \in {"dialled", "redialled"}, NEW to \in {"write", "rewrite"},
             StartWorkers(from, to)
      PROVE  StreamInvariant'
  <2>1. gen \in Gen
    BY <1>5 DEF DialledTyped, StartWorkers
  <2>2. TypeOK'
    BY <1>5, <2>1 DEF TypeOK, StartWorkers, Pusher, connVars, outVars, boundVars
  <2>3. \A g \in Gen : reader'[g] = "send" => reader[g] = "send"
    BY <1>5 DEF TypeOK, StartWorkers
  <2>4. OneCloser'
    BY <1>5, <2>3, QuietStep DEF StartWorkers, outVars
  <2> QED BY <1>5, <2>2, <2>4 DEF DialledTyped, StartWorkers
<1>6. ASSUME NEW from, WriteOk(from) PROVE StreamInvariant'
  <2>1. TypeOK'
    BY <1>6 DEF TypeOK, WriteOk, PushStep, Pusher, connVars, outVars, boundVars
  <2>2. OneCloser'
    BY <1>6, QuietStep DEF WriteOk, PushStep, outVars
  <2> QED BY <1>6, <2>1, <2>2 DEF DialledTyped, WriteOk, PushStep
<1>7. ASSUME FirstWriteFails PROVE StreamInvariant'
  <2>1. TypeOK'
    BY <1>7 DEF TypeOK, FirstWriteFails, PushStep, Pusher, connVars, outVars, boundVars
  <2>2. OneCloser'
    BY <1>7, QuietStep DEF FirstWriteFails, PushStep, outVars
  <2> QED BY <1>7, <2>1, <2>2 DEF DialledTyped, FirstWriteFails, PushStep
<1>8. ASSUME NEW from, ConnectRefused(from) \/ DialFails(from) PROVE StreamInvariant'
  BY <1>3, <1>8 DEF ConnectRefused, DialFails, TypeOK
<1>9. ASSUME SecondWriteFails PROVE StreamInvariant'
  BY <1>3, <1>9 DEF SecondWriteFails, TypeOK
<1>10. {"dial", "redial", "write", "rewrite"} \subseteq Pusher \ {"dialled", "redialled"}
  BY DEF Pusher
<1> QED
  BY <1>1, <1>2, <1>4, <1>5, <1>6, <1>7, <1>8, <1>9, <1>10 DEF PushAudio

\* The reader and keepalive goroutines of a connection.
LEMMA WorkersKeep ==
  ASSUME StreamInvariant, NEW g \in Gen, Workers(g) \/ ReadsError(g)
  PROVE  StreamInvariant'
<1> USE DEF StreamInvariant
<1>1. CASE ReadsFinal(g)
  <2>1. TypeOK'
    BY <1>1, StreamConstants DEF TypeOK, ReadsFinal, connVars, outVars
  <2>2. \A h \in Gen : reader'[h] = "send" => reader[h] = "send" \/ ~closed
    BY <1>1 DEF TypeOK, ReadsFinal
  <2>3. OneCloser'
    BY <1>1, <2>2, QuietStep DEF ReadsFinal, outVars
  <2> QED BY <1>1, <2>1, <2>3 DEF DialledTyped, ReadsFinal, connVars
<1>2. CASE Sends(g)
  <2>1. TypeOK'
    BY <1>2, StreamConstants DEF TypeOK, Sends, connVars, boundVars
  <2>2. \A h \in Gen : reader'[h] = "send" => reader[h] = "send"
    BY <1>2 DEF TypeOK, Sends
  <2>3. OneCloser'
    BY <1>2, <2>2, QuietStep DEF Sends
  <2> QED BY <1>2, <2>1, <2>3 DEF DialledTyped, Sends, connVars
<1>3. CASE SendAbandoned(g)
  <2>1. TypeOK'
    BY <1>3 DEF TypeOK, SendAbandoned, connVars, outVars, boundVars
  <2>2. \A h \in Gen : reader'[h] = "send" => reader[h] = "send"
    BY <1>3 DEF TypeOK, SendAbandoned
  <2>3. OneCloser'
    BY <1>3, <2>2, QuietStep DEF SendAbandoned, outVars
  <2> QED BY <1>3, <2>1, <2>3 DEF DialledTyped, SendAbandoned, connVars
<1>4. CASE ReaderEnds(g)
  <2>1. TypeOK'
    BY <1>4 DEF TypeOK, ReaderEnds, outVars, boundVars
  <2>2. \A h \in Gen : reader'[h] = "send" => reader[h] = "send"
    BY <1>4 DEF TypeOK, ReaderEnds
  <2>3. OneCloser'
    BY <1>4, <2>2, QuietStep DEF ReaderEnds, outVars
  <2> QED BY <1>4, <2>1, <2>3 DEF DialledTyped, ReaderEnds
<1>5. CASE KeepAliveEnds(g)
  <2>1. TypeOK'
    BY <1>5 DEF TypeOK, KeepAliveEnds, connVars, outVars, boundVars
  <2>2. OneCloser'
    BY <1>5, QuietStep DEF KeepAliveEnds, outVars
  <2> QED BY <1>5, <2>1, <2>2 DEF DialledTyped, KeepAliveEnds, connVars
<1>6. CASE ReadsError(g)
  <2>1. TypeOK'
    BY <1>6, FailAndCloseTyped DEF TypeOK, ReadsError, outVars, boundVars
  <2>2. OneCloser'
    BY <1>6, FailAndCloseIsOneCloser DEF ReadsError, outVars
  <2> QED BY <1>6, <2>1, <2>2 DEF DialledTyped, ReadsError
<1> QED BY <1>1, <1>2, <1>3, <1>4, <1>5, <1>6 DEF Workers

\* Close, and the goroutine of failAndClose.
LEMMA ClosersKeep ==
  ASSUME StreamInvariant, CloseBegins \/ Close \/ Finish
  PROVE  StreamInvariant'
<1> USE DEF StreamInvariant
<1>1. CASE CloseBegins
  <2>1. TypeOK'
    BY <1>1 DEF TypeOK, CloseBegins, CloseStep, Closer, boundVars
  <2>2. OneCloser'
    <3>1. CASE closed
      BY <1>1, <3>1 DEF OneCloser, CloseBegins, CloseStep, Closing, NoSends
    <3>2. CASE ~closed
      BY <1>1, <3>2 DEF OneCloser, CloseBegins, CloseStep, Closing, NoSends
    <3> QED BY <3>1, <3>2
  <2> QED BY <1>1, <2>1, <2>2 DEF DialledTyped, CloseBegins, CloseStep
<1>2. CASE Close
  <2>1. TypeOK'
    <3>1. CASE CloseFlushes
      BY <3>1 DEF TypeOK, CloseFlushes, CloseStep, Closer, boundVars
    <3>2. CASE CloseShuts
      BY <3>2, ShutTyped DEF TypeOK, CloseShuts, CloseStep, Closer, boundVars
    <3>3. CASE CloseCancels
      BY <3>3 DEF TypeOK, CloseCancels, CloseStep, Closer, boundVars
    <3>4. CASE CloseWaits
      BY <3>4 DEF TypeOK, CloseWaits, CloseStep, Closer, boundVars
    <3>5. CASE CloseEnds
      BY <3>5 DEF TypeOK, OneCloser, CloseEnds, CloseStep, Closing, Closer, boundVars
    <3> QED BY <1>2, <3>1, <3>2, <3>3, <3>4, <3>5 DEF Close
  <2>2. OneCloser'
    <3>1. closer \in Closing /\ UNCHANGED <<closed, finisher, reader>>
      BY <1>2 DEF Close, CloseFlushes, CloseShuts, CloseCancels, CloseWaits, CloseEnds,
         CloseStep, Closing
    <3>2. closed /\ finisher = "none" /\ closes = 0
      BY <3>1 DEF OneCloser, Closing
    <3>3. CASE CloseFlushes \/ CloseShuts \/ CloseCancels
      BY <3>1, <3>2, <3>3 DEF OneCloser, CloseFlushes, CloseShuts, CloseCancels, CloseStep,
         Closing
    <3>4. CASE CloseWaits
      BY <3>1, <3>2, <3>4 DEF OneCloser, CloseWaits, CloseStep, Closing, NoSends
    <3>5. CASE CloseEnds
      BY <3>1, <3>2, <3>5 DEF OneCloser, CloseEnds, CloseStep, Closing, NoSends
    <3> QED BY <1>2, <3>3, <3>4, <3>5 DEF Close
  <2>3. DialledTyped'
    BY <1>2 DEF DialledTyped, Close, CloseFlushes, CloseShuts, CloseCancels, CloseWaits,
       CloseEnds, CloseStep
  <2> QED BY <2>1, <2>2, <2>3
<1>3. CASE Finish
  <2>1. TypeOK'
    BY <1>3 DEF TypeOK, OneCloser, Finish, connVars, boundVars
  <2>2. OneCloser'
    BY <1>3 DEF TypeOK, OneCloser, Finish, Closing, NoSends
  <2> QED BY <1>3, <2>1, <2>2 DEF DialledTyped, Finish, connVars
<1> QED BY <1>1, <1>2, <1>3

LEMMA StreamStep == StreamInvariant /\ [Next]_vars => StreamInvariant'
<1> SUFFICES ASSUME StreamInvariant, [Next]_vars PROVE StreamInvariant'
  OBVIOUS
<1> USE DEF StreamInvariant
<1>1. CASE PushBegins
  <2>1. TypeOK'
    BY <1>1, StreamConstants DEF TypeOK, PushBegins, Pusher, connVars, outVars
  <2>2. OneCloser'
    BY <1>1, QuietStep DEF PushBegins, outVars
  <2> QED BY <1>1, <2>1, <2>2 DEF DialledTyped, PushBegins
<1>2. ASSUME NEW g \in Gen, VendorDrops(g) PROVE StreamInvariant'
  <2>1. TypeOK'
    BY <1>2 DEF TypeOK, VendorDrops, connVars, outVars, boundVars
  <2>2. OneCloser'
    BY <1>2, QuietStep DEF VendorDrops, outVars
  <2> QED BY <1>2, <2>1, <2>2 DEF DialledTyped, VendorDrops, connVars
<1>3. CASE Take
  <2>1. TypeOK'
    BY <1>3, StreamConstants DEF TypeOK, Take, connVars, boundVars
  <2>2. OneCloser'
    BY <1>3, QuietStep DEF Take
  <2> QED BY <1>3, <2>1, <2>2 DEF DialledTyped, Take, connVars
<1>4. CASE ParentCancels
  <2>1. TypeOK'
    BY <1>4 DEF TypeOK, ParentCancels, connVars, outVars, boundVars
  <2>2. OneCloser'
    BY <1>4, QuietStep DEF ParentCancels, outVars
  <2> QED BY <1>4, <2>1, <2>2 DEF DialledTyped, ParentCancels, connVars
<1>5. CASE UNCHANGED vars
  <2>1. TypeOK'
    BY <1>5 DEF TypeOK, vars, connVars, outVars, boundVars
  <2>2. OneCloser'
    BY <1>5, QuietStep DEF vars, outVars
  <2> QED BY <1>5, <2>1, <2>2 DEF DialledTyped, vars, connVars
<1> QED
  BY <1>1, <1>2, <1>3, <1>4, <1>5, PushAudioKeeps, WorkersKeep, ClosersKeep, Zenon DEF Next

-----------------------------------------------------------------------------
(* One reader at a time.                                                   *)

Dialling == {"dial", "redial", "dialled", "redialled"}

\* A reader that is alive belongs to the last connection, which s.conn still
\* names unless the stream is closed; so while a dial is under way, and until its
\* workers start, there is none.
ReaderIsCurrent ==
  /\ \A g \in Gen : Live(g) => g = gen /\ (closed \/ conn = g)
  /\ pusher \in Dialling => \A g \in Gen : ~Live(g)
  /\ pusher \in {"dialled", "redialled"} => closed \/ conn = gen

LEMMA ReaderInit == Init => ReaderIsCurrent
BY DEF Init, ReaderIsCurrent, Live, Dialling

\* A step that brings no reader to life and dials nothing.
LEMMA ReadersStay ==
  ASSUME ReaderIsCurrent, gen' = gen,
         \A g \in Gen : Live(g)' => Live(g),
         pusher' \in Dialling => pusher' = pusher,
         closed => closed', closed' \/ conn' = conn
  PROVE  ReaderIsCurrent'
BY DEF ReaderIsCurrent, Dialling

LEMMA FailAndCloseForReaders ==
  ASSUME TypeOK, FailAndClose PROVE (closed => closed') /\ (closed' \/ conn' = conn)
BY DEF FailAndClose, TypeOK

LEMMA PushKeepsReader ==
  ASSUME StreamInvariant, ReaderIsCurrent, PushAudio
  PROVE  ReaderIsCurrent'
<1> USE DEF StreamInvariant
<1>1. CASE ConnectNoop("reconnect", "rewrite") \/ WriteOk("write") \/ WriteOk("rewrite")
           \/ FirstWriteFails
  BY <1>1, ReadersStay DEF ConnectNoop, WriteOk, FirstWriteFails, PushStep, connVars,
     Live, Dialling
<1>2. ASSUME NEW from, NEW to \in {"dial", "redial"}, Dial(from, to)
      PROVE  ReaderIsCurrent'
  <2>1. \A g \in Gen : ~Live(g)
    BY <1>2, StreamConstants DEF Dial, ReaderIsCurrent, Gen
  <2> QED BY <1>2, <2>1 DEF Dial, PushStep, ReaderIsCurrent, Live, connVars
<1>3. ASSUME NEW from, PushFails(from) PROVE ReaderIsCurrent'
  <2>1. (closed => closed') /\ (closed' \/ conn' = conn)
    BY <1>3, FailAndCloseForReaders DEF PushFails
  <2> QED BY <1>3, <2>1, ReadersStay DEF PushFails, PushStep, Live, Dialling
<1>4. ASSUME NEW from \in {"dial", "redial"}, NEW to \in {"dialled", "redialled"},
             DialSucceeds(from, to)
      PROVE  ReaderIsCurrent'
  BY <1>4 DEF DialSucceeds, PushStep, ReaderIsCurrent, Live, Dialling
<1>5. ASSUME NEW from \in {"dialled", "redialled"}, NEW to \in {"write", "rewrite"},
             StartWorkers(from, to)
      PROVE  ReaderIsCurrent'
  <2>1. \A g \in Gen : Live(g)' => g = gen
    BY <1>5 DEF StartWorkers, ReaderIsCurrent, Live, Dialling, TypeOK
  <2> QED BY <1>5, <2>1 DEF StartWorkers, ReaderIsCurrent, Dialling, connVars
<1> QED
  BY <1>1, <1>2, <1>3, <1>4, <1>5
  DEF PushAudio, ConnectRefused, DialFails, SecondWriteFails

LEMMA ReaderStep ==
  ASSUME StreamInvariant, ReaderIsCurrent, [Next]_vars
  PROVE  ReaderIsCurrent'
<1> USE DEF StreamInvariant
<1>1. CASE PushBegins \/ Finish \/ Take \/ ParentCancels \/ UNCHANGED vars
  BY <1>1, ReadersStay DEF PushBegins, Finish, Take, ParentCancels, vars, connVars,
     Live, Dialling
<1>2. CASE CloseBegins \/ Close
  BY <1>2, ReadersStay DEF CloseBegins, Close, CloseFlushes, CloseShuts, CloseCancels,
     CloseWaits, CloseEnds, CloseStep, Live, Dialling
<1>3. ASSUME NEW g \in Gen,
             ReadsFinal(g) \/ Sends(g) \/ SendAbandoned(g) \/ KeepAliveEnds(g) \/ VendorDrops(g)
      PROVE  ReaderIsCurrent'
  <2>1. \A h \in Gen : Live(h)' => Live(h)
    BY <1>3 DEF ReadsFinal, Sends, SendAbandoned, KeepAliveEnds, VendorDrops, Live, TypeOK
  <2> QED BY <1>3, <2>1, ReadersStay DEF ReadsFinal, Sends, SendAbandoned, KeepAliveEnds,
      VendorDrops, connVars, Dialling
<1>4. ASSUME NEW g \in Gen, ReadsError(g) PROVE ReaderIsCurrent'
  <2>1. (closed => closed') /\ (closed' \/ conn' = conn)
    BY <1>4, FailAndCloseForReaders DEF ReadsError
  <2> QED BY <1>4, <2>1, ReadersStay DEF ReadsError, Live, Dialling
<1>5. ASSUME NEW g \in Gen, ReaderEnds(g) PROVE ReaderIsCurrent'
  <2>1. \A h \in Gen : Live(h)' => h # g /\ Live(h)
    BY <1>5 DEF ReaderEnds, Live, TypeOK
  <2>2. Live(g)
    BY <1>5 DEF ReaderEnds, Live
  <2>3. \A h \in Gen : ~Live(h)'
    BY <2>1, <2>2 DEF ReaderIsCurrent
  <2>4. pusher \notin Dialling
    BY <2>2 DEF ReaderIsCurrent
  <2> QED BY <1>5, <2>3, <2>4 DEF ReaderEnds, ReaderIsCurrent, Dialling
<1> QED
  BY <1>1, <1>2, <1>3, <1>4, <1>5, PushKeepsReader, Zenon DEF Next, Workers

-----------------------------------------------------------------------------
(* Theorems.                                                               *)

\* The types, and that the Transcripts channel is closed at most once, although
\* Close and failAndClose race from any goroutine.
THEOREM StreamTyped == Spec => []TypeOK
<1>1. StreamInvariant => TypeOK
  BY DEF StreamInvariant
<1> QED BY <1>1, StreamInit, StreamStep, PTL DEF Spec

\* No goroutine sends on the Transcripts channel once it is closed.
THEOREM NoSendAfterClose == Spec => []NoSendOnClosedOut
<1>1. StreamInvariant => NoSendOnClosedOut
  BY DEF StreamInvariant, OneCloser, NoSendOnClosedOut
<1> QED BY <1>1, StreamInit, StreamStep, PTL DEF Spec

\* Transcripts keep their order across reconnections: two readers are never alive
\* together, however writes fail, vendors drop and Close races the dial.
THEOREM ReadersNeverOverlap == Spec => []OneReader
<1>1. StreamInvariant /\ ReaderIsCurrent => OneReader
  BY DEF ReaderIsCurrent, OneReader
<1> QED BY <1>1, StreamInit, StreamStep, ReaderInit, ReaderStep, PTL DEF Spec

-----------------------------------------------------------------------------
(* The session with its breaker.                                           *)

LEMMA VendorsStep == [VendorsNext]_<<vars, vendorVars>> => [Next]_vars
<1> SUFFICES ASSUME VendorsNext PROVE [Next]_vars
  BY DEF vars
<1>1. CASE VendorPush
  BY <1>1 DEF VendorPush, PushGoesOn, PushFailsAndSettles, Dialled, WorkersStart, Next, PushAudio
<1>2. ASSUME NEW g \in Gen, VendorWorkers(g) PROVE Next
  BY <1>2 DEF VendorWorkers, Next
<1>3. CASE CloseSettles \/ CloseGoesOn
  BY <1>3 DEF CloseSettles, CloseGoesOn, Next, Close
<1> QED BY <1>1, <1>2, <1>3 DEF VendorsNext, Next

\* Deepgram's and Sarvam's streams, with their reports to the breaker, are streams
\* of AsrStream: what is proved of those holds of both.
THEOREM VendorsImplementStream == VendorsSpec => Spec
<1>1. VendorsInit => Init
  BY DEF VendorsInit
<1> QED BY <1>1, VendorsStep, PTL DEF VendorsSpec, Spec
-----------------------------------------------------------------------------
(* The breaker of the session.                                             *)

\* Where Close has settled: a Close that met no connection settles only as it
\* cancels the context, and one that met a connection settled at its flush.
Settling == {"shut", "waitWorkers", "waitSends", "closeOut"}

\* The outcome is owed or told from the moment it is settled; a connection settles
\* it, and so does whoever ends the channel.  A failure was told by the push that
\* closed the stream, which no dial follows.
OneOutcome ==
  /\ settled \in BOOLEAN /\ owed \in BOOLEAN
  /\ ~settled => told = <<>> /\ ~owed /\ gen = 0 /\ finisher = "none" /\ closes = 0
                 /\ closer \notin Settling
  /\ owed => told = <<>> /\ pusher \in {"dialled", "redialled"}
  /\ settled /\ ~owed => \E r \in Report : told = <<r>>
  /\ told = <<"failure">> => gen = 0 /\ closed /\ pusher \notin Dialling

LEMMA OutcomeInit == VendorsInit => OneOutcome
<1>1. <<>> # <<"failure">>
  OBVIOUS
<1> QED BY <1>1 DEF VendorsInit, Init, OneOutcome, Settling

\* What settling does, with what else is known of the state.
LEMMA SettledOnce ==
  ASSUME OneOutcome, NEW reports \in SUBSET Report, SettleBreaker(reports), UNCHANGED owed
  PROVE  /\ settled' = TRUE
         /\ owed' => told' = told
         /\ ~owed' => \E r \in Report : told' = <<r>>
         /\ settled => told' = told
         /\ "failure" \notin reports => (told' = <<"failure">> => told = <<"failure">>)
<1>1. CASE settled
  BY <1>1 DEF SettleBreaker, OneOutcome
<1>2. CASE ~settled
  <2>1. PICK r \in reports : Tell(r)
    BY <1>2 DEF SettleBreaker
  <2>2. told' = <<r>>
    BY <1>2, <2>1 DEF Tell, OneOutcome
  <2> QED BY <1>2, <2>1, <2>2 DEF SettleBreaker, OneOutcome
<1> QED BY <1>1, <1>2 DEF OneOutcome

\* The pushing goroutine: dials, reports what came of the first, and tears the
\* stream down when it must.
LEMMA PushKeepsOutcome ==
  ASSUME StreamInvariant, ReaderIsCurrent, OneOutcome, VendorPush
  PROVE  OneOutcome'
<1> USE DEF StreamInvariant
<1>1. CASE PushGoesOn
  <2>1. UNCHANGED <<vendorVars, gen, closed, finisher, closes, closer>>
        /\ (pusher \in {"dialled", "redialled"} => FALSE)
        /\ (closed => pusher' \notin Dialling)
    BY <1>1 DEF PushGoesOn, PushBegins, ConnectNoop, Dial, WriteOk, FirstWriteFails, PushStep,
       connVars, outVars, vendorVars, Dialling
  <2> QED BY <2>1 DEF OneOutcome, vendorVars
<1>2. CASE PushFailsAndSettles
  <2>1. UNCHANGED <<gen, closer, closes, owed>> /\ FailAndClose /\ FailSettles
        /\ pusher \notin {"dialled", "redialled"} /\ pusher' = "idle"
    BY <1>2 DEF PushFailsAndSettles, ConnectRefused, DialFails, SecondWriteFails, PushFails,
       PushStep, outVars, FailSettles
  <2>2. ~owed
    BY <2>1 DEF OneOutcome
  <2>3. CASE closed
    <3>1. UNCHANGED <<closed, finisher, settled, told>>
      BY <2>1, <2>3 DEF FailAndClose, FailSettles
    <3> QED BY <2>1, <3>1 DEF OneOutcome, Dialling
  <2>4. CASE ~closed
    <3>1. SettleBreaker(GaveUp) /\ GaveUp \in SUBSET Report
      BY <2>1, <2>4 DEF FailSettles, GaveUp, Report
    <3>2. settled' = TRUE /\ (\E r \in Report : told' = <<r>>) /\ (settled => told' = told)
      BY <2>1, <2>2, <3>1, SettledOnce
    <3>3. closed'
      BY <2>1, <2>4 DEF FailAndClose
    <3> QED BY <2>1, <2>2, <3>2, <3>3 DEF OneOutcome, Dialling
  <2> QED BY <2>3, <2>4
<1>3. ASSUME NEW from \in {"dial", "redial"}, NEW to \in {"dialled", "redialled"}, Dialled(from, to)
      PROVE  OneOutcome'
  <2>1. told # <<"failure">> /\ ~owed
    BY <1>3 DEF Dialled, DialSucceeds, PushStep, OneOutcome, Dialling
  <2> QED BY <1>3, <2>1 DEF Dialled, DialSucceeds, PushStep, OneOutcome, outVars
<1>4. ASSUME NEW from \in {"dialled", "redialled"}, NEW to \in {"write", "rewrite"},
             WorkersStart(from, to)
      PROVE  OneOutcome'
  <2>1. told # <<"failure">>
    BY <1>4 DEF WorkersStart, StartWorkers, OneOutcome, Dialling
  <2>2. UNCHANGED <<gen, closed, finisher, closer, closes, settled>> /\ owed' = FALSE
    BY <1>4 DEF WorkersStart, StartWorkers, connVars, outVars
  <2>3. CASE owed
    <3>1. told' = <<"success">>
      BY <1>4, <2>3 DEF WorkersStart, Tell, OneOutcome
    <3> QED BY <2>1, <2>2, <2>3, <3>1 DEF OneOutcome, Report
  <2>4. CASE ~owed
    <3>1. told' = told
      BY <1>4, <2>4 DEF WorkersStart
    <3> QED BY <2>1, <2>2, <2>4, <3>1 DEF OneOutcome
  <2> QED BY <2>3, <2>4
<1> QED BY <1>1, <1>2, <1>3, <1>4 DEF VendorPush

\* Every other goroutine: a reader that fails has a connection, so the outcome was
\* settled before it, and Close is never the one to tell of a failure.
LEMMA OutcomeStep ==
  ASSUME StreamInvariant, ReaderIsCurrent, OneOutcome, [VendorsNext]_<<vars, vendorVars>>
  PROVE  OneOutcome'
<1> USE DEF StreamInvariant
<1>1. ASSUME NEW g \in Gen, VendorWorkers(g) PROVE OneOutcome'
  <2>1. CASE (Workers(g) \/ VendorDrops(g)) /\ UNCHANGED vendorVars
    <3>1. UNCHANGED <<vendorVars, gen, closed, finisher, closes, closer, pusher>>
      BY <2>1 DEF Workers, ReadsFinal, Sends, SendAbandoned, ReaderEnds, KeepAliveEnds, VendorDrops,
         connVars, outVars
    <3> QED BY <3>1 DEF OneOutcome, vendorVars
  <2>2. CASE ReadsError(g) /\ FailSettles
    <3>1. gen # 0
      BY <2>2, StreamConstants DEF ReadsError, ReaderIsCurrent, Live, Gen
    <3>2. settled
      BY <3>1 DEF OneOutcome
    <3>3. UNCHANGED <<gen, closer, closes, pusher, owed, settled, told>> /\ (closed => closed')
      BY <2>2, <3>2 DEF ReadsError, FailSettles, SettleBreaker, outVars, FailAndClose
    <3> QED BY <3>2, <3>3 DEF OneOutcome
  <2> QED BY <1>1, <2>1, <2>2 DEF VendorWorkers
<1>2. CASE CloseSettles
  <2>1. SettleBreaker({"abort"}) /\ {"abort"} \in SUBSET Report /\ UNCHANGED owed
    BY <1>2 DEF CloseSettles, Report
  <2>2. UNCHANGED <<gen, closed, pusher>>
    BY <1>2 DEF CloseSettles, CloseFlushes, CloseCancels, CloseStep
  <2>3. /\ settled' = TRUE
        /\ owed' => told' = told
        /\ ~owed' => \E r \in Report : told' = <<r>>
        /\ told' = <<"failure">> => told = <<"failure">>
    BY <2>1, SettledOnce
  <2> QED BY <2>1, <2>2, <2>3 DEF OneOutcome
<1>3. CASE CloseGoesOn
  <2>1. UNCHANGED <<vendorVars, gen, pusher>> /\ (closed => closed')
    BY <1>3 DEF CloseGoesOn, CloseBegins, CloseShuts, CloseWaits, CloseEnds, CloseStep, Finish,
       connVars
  <2>2. ~settled => finisher' = "none" /\ closes' = 0 /\ closer' \notin Settling
    BY <1>3 DEF CloseGoesOn, CloseBegins, CloseShuts, CloseWaits, CloseEnds, CloseStep, Finish,
       OneOutcome, Settling
  <2> QED BY <2>1, <2>2 DEF OneOutcome, vendorVars
<1>4. CASE (Take \/ ParentCancels) /\ UNCHANGED vendorVars
  BY <1>4 DEF Take, ParentCancels, connVars, outVars, vendorVars, OneOutcome
<1>5. CASE UNCHANGED <<vars, vendorVars>>
  BY <1>5 DEF vars, connVars, outVars, vendorVars, OneOutcome
<1> QED BY <1>1, <1>2, <1>3, <1>4, <1>5, PushKeepsOutcome DEF VendorsNext

\* The breaker hears of a stream once and no more, a stream whose channel is closed
\* has been reported, and one that ever connected is not held against the vendor -
\* although the dial, a fatal error in any goroutine and Close race to report.
THEOREM BreakerToldOnce == VendorsSpec => []ToldOnce
<1>1. VendorsInit => StreamInvariant /\ ReaderIsCurrent /\ OneOutcome
  BY StreamInit, ReaderInit, OutcomeInit DEF VendorsInit
<1>2. StreamInvariant /\ ReaderIsCurrent /\ OneOutcome /\ [VendorsNext]_<<vars, vendorVars>>
        => (StreamInvariant /\ ReaderIsCurrent /\ OneOutcome)'
  BY VendorsStep, StreamStep, ReaderStep, OutcomeStep
<1>3. StreamInvariant /\ OneOutcome => ToldOnce
  <2> SUFFICES ASSUME StreamInvariant, OneOutcome PROVE ToldOnce
    OBVIOUS
  <2>1. told = <<>> \/ \E r \in Report : told = <<r>>
    BY DEF OneOutcome
  <2>2. Len(told) \in 0..1 /\ (told # <<>> => Len(told) = 1)
    BY <2>1
  <2>3. closes > 0 /\ pusher = "idle" => settled /\ ~owed
    BY DEF OneOutcome
  <2>4. settled /\ ~owed => told # <<>>
    BY DEF OneOutcome
  <2>5. told = <<"failure">> => gen = 0
    BY DEF OneOutcome
  <2>6. Len(told) <= 1
    BY <2>2
  <2> QED BY <2>2, <2>3, <2>4, <2>5, <2>6 DEF ToldOnce
<1> QED BY <1>1, <1>2, <1>3, PTL DEF VendorsSpec
=============================================================================
