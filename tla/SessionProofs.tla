--------------------------- MODULE SessionProofs ---------------------------
(* Theorems of Session, for every value of its constants.                  *)
EXTENDS SessionProperties, FiniteSetTheorems, FunctionTheorems, TLAPS

-----------------------------------------------------------------------------
(* The types of the helpers' results.                                      *)

\* What emitPassthrough forwards is a sequence of chunks.
LEMMA PassthroughTyped ==
  ASSUME NEW fs \in Seq(Nat)
  PROVE  PassthroughChunks(fs) \in Seq(Chunk)
<1> DEFINE raws == [i \in 1..Len(fs) |-> RawChunk(fs[i])]
           cs == (IF DegradeToneEnabled THEN <<Tone>> ELSE <<>>) \o raws
           marked == [i \in 1..Len(cs) |-> [cs[i] EXCEPT !.final = (i = Len(cs))]]
<1>1. raws \in Seq(Chunk)
  BY DEF RawChunk, Chunk
<1>2. Tone \in Chunk /\ Marker \in Chunk
  BY DEF Tone, Marker, Chunk
<1>3. cs \in Seq(Chunk)
  <2> HIDE DEF raws
  <2> QED BY <1>1, <1>2
<1>4. PassthroughChunks(fs) = IF cs = <<>> THEN <<Marker>> ELSE marked
  BY DEF PassthroughChunks
<1> HIDE DEF cs
<1>5. marked \in Seq(Chunk)
  <2> DEFINE Mark(i) == [cs[i] EXCEPT !.final = (i = Len(cs))]
  <2>1. \A i \in 1..Len(cs) : Mark(i) \in Chunk
    <3> SUFFICES ASSUME NEW i \in 1..Len(cs) PROVE Mark(i) \in Chunk
      OBVIOUS
    <3>1. cs[i] \in Chunk /\ (i = Len(cs)) \in BOOLEAN
      BY <1>3
    <3>2. \A c \in Chunk, b \in BOOLEAN : [c EXCEPT !.final = b] \in Chunk
      BY DEF Chunk
    <3> QED BY <3>1, <3>2
  <2>2. Len(cs) \in Nat
    BY <1>3
  <2>3. marked = [i \in 1..Len(cs) |-> Mark(i)]
    OBVIOUS
  <2> HIDE DEF Mark, marked
  <2>4. [i \in 1..Len(cs) |-> Mark(i)] \in Seq(Chunk)
    BY <2>1, <2>2
  <2> QED BY <2>3, <2>4
<1> HIDE DEF marked
<1>6. <<Marker>> \in Seq(Chunk)
  BY <1>2
<1> QED BY <1>4, <1>5, <1>6

\* A push into the ring buffer leaves a sequence of frames within capacity.
LEMMA RingPushTyped ==
  ASSUME NEW b \in Seq(Nat), NEW f \in Nat, Len(b) <= AudioBufferFrames
  PROVE  RingPush(b, f) \in Seq(Nat) /\ Len(RingPush(b, f)) <= AudioBufferFrames
<1>1. CASE Len(b) = AudioBufferFrames
  <2>1. b # <<>>
    BY <1>1, SessionConstants
  <2>2. Tail(b) \in Seq(Nat) /\ Len(Tail(b)) = AudioBufferFrames - 1
    BY <1>1, <2>1, SessionConstants
  <2> QED BY <1>1, <2>2, SessionConstants DEF RingPush
<1>2. CASE Len(b) # AudioBufferFrames
  BY <1>2, SessionConstants DEF RingPush
<1> QED BY <1>1, <1>2

\* A drained buffer is within capacity.
LEMMA DrainTyped ==
  ASSUME IngressTyped, NEW l \in Leg, Drain(l), UNCHANGED <<pushed, pushing>>
  PROVE  IngressTyped'
<1>1. audio' \in [Leg -> Seq(Nat)]
  BY DEF IngressTyped, Drain
<1>2. \A k \in Leg : Len(audio'[k]) <= AudioBufferFrames
  <2> SUFFICES ASSUME NEW k \in Leg PROVE Len(audio'[k]) <= AudioBufferFrames
    OBVIOUS
  <2>1. CASE k = l
    BY <2>1, SessionConstants DEF IngressTyped, Drain
  <2>2. CASE k # l
    BY <2>2 DEF IngressTyped, Drain
  <2> QED BY <2>1, <2>2
<1> QED BY <1>1, <1>2 DEF IngressTyped

\* Degradation bookkeeping keeps its types.
LEMMA RecordFailureTyped ==
  ASSUME HealthTyped, NEW l \in Leg, NEW fatal \in BOOLEAN, RecordFailure(l, fatal)
  PROVE  HealthTyped'
<1>1. degraded' \in [Leg -> BOOLEAN]
  BY Zenon DEF HealthTyped, RecordFailure
<1>2. consecutiveFailures' \in [Leg -> Nat]
  BY DEF HealthTyped, RecordFailure
<1> QED BY <1>1, <1>2 DEF HealthTyped

\* So does a success, which resets the counter.
LEMMA RecordSuccessTyped ==
  ASSUME HealthTyped, NEW l \in Leg, RecordSuccess(l)
  PROVE  HealthTyped'
<1>1. consecutiveFailures' \in [Leg -> Nat]
  BY DEF HealthTyped, RecordSuccess
<1>2. degraded' \in [Leg -> BOOLEAN]
  BY Zenon DEF HealthTyped, RecordSuccess
<1> QED BY <1>1, <1>2 DEF HealthTyped

\* StartPassthrough sets the passthrough audio, its reason and the next step.
LEMMA StartPassthroughTyped ==
  ASSUME PcTyped, PendingTyped, WorkTyped, NEW l \in Leg, NEW fs \in Seq(Nat),
         NEW v \in Verdict, StartPassthrough(l, fs, v)
  PROVE  PcTyped' /\ PendingTyped' /\ verdict' \in [Leg -> Verdict]
BY PassthroughTyped DEF StartPassthrough, PcTyped, PendingTyped, WorkTyped, LegPc

\* Resolve logs the outcome and clears the work in hand.
LEMMA ResolveTyped ==
  ASSUME PcTyped, WorkTyped, OutcomeTyped, NEW l \in Leg,
         NEW o \in Outcome \cup Verdict, Resolve(l, o)
  PROVE  PcTyped' /\ WorkTyped' /\ OutcomeTyped'
<1>1. PcTyped'
  BY DEF Resolve, PcTyped, LegPc
<1>2. WorkTyped'
  BY DEF Resolve, WorkTyped, NoUtterance, Transcript, Verdict
<1>3. OutcomeTyped'
  BY DEF Resolve, OutcomeTyped
<1> QED BY <1>1, <1>2, <1>3

\* A released synthesis has no chunk and no deadline.
LEMMA ReleaseTyped ==
  ASSUME TtsTyped, NEW l \in Leg, ReleaseSynthesis(l)
  PROVE  TtsTyped'
BY DEF TtsTyped, ReleaseSynthesis

\* A send appends one chunk to the outbound channel.
LEMMA EmitTyped ==
  ASSUME OutTyped, NEW l \in Leg, NEW c \in Chunk, Emit(l, c)
  PROVE  OutTyped'
BY DEF OutTyped, Emit, Chunk

\* So does a send of the next passthrough chunk.
LEMMA ForwardPendingTyped ==
  ASSUME OutTyped, PendingTyped, NEW l \in Leg, ForwardPending(l)
  PROVE  OutTyped' /\ PendingTyped'
<1>1. Head(pending[l]) \in Chunk /\ Tail(pending[l]) \in Seq(Chunk)
  BY DEF PendingTyped, ForwardPending
<1>2. OutTyped'
  BY <1>1, EmitTyped DEF ForwardPending
<1>3. PendingTyped'
  BY <1>1 DEF PendingTyped, ForwardPending
<1> QED BY <1>2, <1>3

\* A flush of a dead leg's buffer keeps the types of all it touches.
LEMMA FlushTyped ==
  ASSUME PendingTyped, DrainPcTyped, IngressTyped, NEW l \in Leg,
         NEW busy \in DrainPc, NEW idle \in DrainPc, Flush(l, busy, idle),
         UNCHANGED <<pushed, pushing>>
  PROVE  PendingTyped' /\ DrainPcTyped' /\ IngressTyped'
<1>1. audio[l] \in Seq(Nat) /\ PassthroughChunks(audio[l]) \in Seq(Chunk)
  BY PassthroughTyped DEF IngressTyped
<1>2. PendingTyped'
  BY <1>1 DEF PendingTyped, Flush
<1>3. DrainPcTyped'
  BY DEF DrainPcTyped, Flush
<1>4. IngressTyped'
  BY DrainTyped DEF Flush
<1> QED BY <1>2, <1>3, <1>4

-----------------------------------------------------------------------------
(* Type correctness.                                                       *)

\* A part of the state that a step leaves alone keeps its type.
LEMMA Frame ==
  ASSUME TypeOK
  PROVE  /\ UNCHANGED ingressVars => IngressTyped'
         /\ UNCHANGED asrVars => AsrTyped'
         /\ UNCHANGED healthVars => HealthTyped'
         /\ UNCHANGED pc => PcTyped'
         /\ UNCHANGED drainPc => DrainPcTyped'
         /\ UNCHANGED workVars => WorkTyped'
         /\ UNCHANGED pending => PendingTyped'
         /\ UNCHANGED ttsVars => TtsTyped'
         /\ UNCHANGED outVars => OutTyped'
         /\ UNCHANGED lifeVars => LifeTyped'
         /\ UNCHANGED outcome => OutcomeTyped'
         /\ UNCHANGED wg => wg' \in Int
BY DEF TypeOK, IngressTyped, AsrTyped, HealthTyped, PcTyped, DrainPcTyped, WorkTyped,
   PendingTyped, TtsTyped, OutTyped, LifeTyped, OutcomeTyped, ingressVars, asrVars,
   healthVars, workVars, ttsVars, outVars, lifeVars

\* Every variable keeps its type and every raw-audio buffer its bound (the fields of Session, legState and
\* audioRingBuffer in session.go and fallback.go).
THEOREM SessionTyped == Spec => []TypeOK
<1>1. Init => TypeOK
  <2> SUFFICES ASSUME Init PROVE TypeOK
    OBVIOUS
  <2> USE DEF Init
  <2>1. HealthTyped /\ PcTyped /\ DrainPcTyped
    BY DEF HealthTyped, PcTyped, DrainPcTyped, LegPc, DrainPc
  <2>2. AsrTyped /\ PendingTyped
    BY DEF AsrTyped, PendingTyped
  <2>3. WorkTyped
    BY DEF WorkTyped, NoUtterance, Transcript, Verdict
  <2>4. TtsTyped /\ OutTyped
    BY DEF TtsTyped, OutTyped
  <2>5. LifeTyped
    BY DEF LifeTyped, ClosePc
  <2>6. OutcomeTyped /\ wg \in Int
    BY DEF OutcomeTyped
  <2>7. IngressTyped
    BY SessionConstants DEF IngressTyped
  <2> QED BY <2>1, <2>2, <2>3, <2>4, <2>5, <2>6, <2>7 DEF TypeOK
<1>2. TypeOK /\ [Next]_vars => TypeOK'
  <2> SUFFICES ASSUME TypeOK, [Next]_vars PROVE TypeOK'
    OBVIOUS
  <2> USE Frame
  <2>1. ASSUME NEW l \in Leg, PushBuffer(l) PROVE TypeOK'
    <3>1. IngressTyped'
      <4>1. /\ audio[l] \in Seq(Nat) /\ Len(audio[l]) <= AudioBufferFrames
            /\ pushed[l] + 1 \in Nat
        BY DEF TypeOK, IngressTyped
      <4>2. /\ RingPush(audio[l], pushed[l] + 1) \in Seq(Nat)
            /\ Len(RingPush(audio[l], pushed[l] + 1)) <= AudioBufferFrames
        BY <4>1, RingPushTyped
      <4>5. \A k \in Leg : Len(audio'[k]) <= AudioBufferFrames
        <5>1. audio' = [audio EXCEPT ![l] = RingPush(audio[l], pushed[l] + 1)]
          BY <2>1 DEF PushBuffer
        <5>2. TAKE k \in Leg
        <5>3. CASE k = l
          BY <4>2, <5>1, <5>3 DEF TypeOK, IngressTyped
        <5>4. CASE k # l
          BY <5>1, <5>4 DEF TypeOK, IngressTyped
        <5> QED BY <5>3, <5>4
      <4>3. audio' \in [Leg -> Seq(Nat)] /\ pushed' \in [Leg -> Nat]
        BY <2>1, <4>1, <4>2 DEF PushBuffer, TypeOK, IngressTyped
      <4>4. pushing' \in [Leg -> BOOLEAN]
        BY <2>1, Zenon DEF PushBuffer, TypeOK, IngressTyped
      <4> QED BY <4>3, <4>4, <4>5 DEF IngressTyped
    <3> QED BY <2>1, <3>1 DEF PushBuffer, TypeOK
  <2>2. ASSUME NEW l \in Leg, PushASR(l) PROVE TypeOK'
    <3>1. IngressTyped'
      BY <2>2 DEF PushASR, TypeOK, IngressTyped
    <3>2. AsrTyped'
      BY <2>2 DEF PushASR, TypeOK, AsrTyped, IngressTyped
    <3> QED BY <2>2, <3>1, <3>2 DEF PushASR, TypeOK
  <2>3. ASSUME NEW l \in Leg, AsrPartial(l) PROVE TypeOK'
    <3>1. AsrTyped'
      BY <2>3 DEF AsrPartial, TypeOK, AsrTyped, NoUtterance, Transcript
    <3> QED BY <2>3, <3>1 DEF AsrPartial, TypeOK
  <2>4. ASSUME NEW l \in Leg, AsrFinal(l) PROVE TypeOK'
    <3>1. AsrTyped'
      <4>1. PICK k \in {"low", "ok"}, u \in spoken[l]..accepted[l] :
               /\ transcripts' = [transcripts EXCEPT ![l] =
                    Append(@, [kind |-> k, from |-> spoken[l] + 1, upto |-> u])]
               /\ spoken' = [spoken EXCEPT ![l] = u]
        BY <2>4 DEF AsrFinal
      <4>2. spoken[l] \in Nat /\ accepted[l] \in Nat /\ u \in Nat
        BY DEF TypeOK, AsrTyped
      <4>3. [kind |-> k, from |-> spoken[l] + 1, upto |-> u] \in Transcript
        BY <4>2 DEF Transcript
      <4>4. transcripts' \in [Leg -> Seq(Transcript)]
        BY <4>1, <4>3 DEF TypeOK, AsrTyped
      <4>5. spoken' \in [Leg -> Nat] /\ finals' \in [Leg -> Nat]
        BY <2>4, <4>1, <4>2 DEF AsrFinal, TypeOK, AsrTyped
      <4>6. asr' \in [Leg -> {"open", "closing", "closed"}] /\ accepted' \in [Leg -> Nat]
        BY <2>4 DEF AsrFinal, TypeOK, AsrTyped
      <4> QED BY <4>4, <4>5, <4>6 DEF AsrTyped
    <3> QED BY <2>4, <3>1 DEF AsrFinal, TypeOK
  <2>5. ASSUME NEW l \in Leg, AsrChannelCloses(l) PROVE TypeOK'
    <3>1. AsrTyped'
      BY <2>5 DEF AsrChannelCloses, TypeOK, AsrTyped
    <3> QED BY <2>5, <3>1 DEF AsrChannelCloses, TypeOK
  <2>6. ASSUME NEW l \in Leg, TakePartial(l) PROVE TypeOK'
    <3>1. AsrTyped'
      BY <2>6 DEF TakePartial, TypeOK, AsrTyped
    <3> QED BY <2>6, <3>1 DEF TakePartial, TypeOK
  <2>7. ASSUME NEW l \in Leg, TakeFinal(l) PROVE TypeOK'
    <3>1. IngressTyped'
      BY <2>7, DrainTyped DEF TakeFinal, TypeOK
    <3>2. AsrTyped'
      BY <2>7 DEF TakeFinal, TypeOK, AsrTyped
    <3>3. PcTyped' /\ PendingTyped'
      <4>1. PassthroughChunks(audio[l]) \in Seq(Chunk)
        BY PassthroughTyped DEF TypeOK, IngressTyped
      <4>2. PcTyped'
        BY <2>7 DEF TakeFinal, TypeOK, PcTyped, LegPc, StartPassthrough
      <4>3. PendingTyped'
        BY <2>7, <4>1 DEF TakeFinal, TypeOK, PendingTyped, StartPassthrough
      <4> QED BY <4>2, <4>3
    <3>4. WorkTyped'
      <4>1. audio[l] \in Seq(Nat) /\ Head(transcripts[l]) \in Transcript
        BY <2>7 DEF TakeFinal, TypeOK, IngressTyped, AsrTyped
      <4>2. utterance' \in [Leg -> Transcript] /\ frames' \in [Leg -> Seq(Nat)]
        BY <2>7, <4>1 DEF TakeFinal, TypeOK, WorkTyped
      <4>3. verdict' \in [Leg -> Verdict]
        BY <2>7 DEF TakeFinal, TypeOK, WorkTyped, StartPassthrough, Verdict
      <4> QED BY <4>2, <4>3 DEF WorkTyped
    <3> QED BY <2>7, <3>1, <3>2, <3>3, <3>4 DEF TakeFinal, TypeOK
  <2>8. ASSUME NEW l \in Leg, LegAsrShutdown(l) PROVE TypeOK'
    <3>1. PcTyped' /\ wg' \in Int
      BY <2>8 DEF LegAsrShutdown, TypeOK, PcTyped, LegPc, LegExit
    <3> QED BY <2>8, <3>1 DEF LegAsrShutdown, TypeOK
  <2>9. ASSUME NEW l \in Leg, LegAsrDied(l) PROVE TypeOK'
    <3>1. HealthTyped'
      BY <2>9, RecordFailureTyped DEF LegAsrDied, TypeOK
    <3>2. PendingTyped'
      BY <2>9, PassthroughTyped DEF LegAsrDied, TypeOK, PendingTyped, IngressTyped
    <3>3. IngressTyped'
      BY <2>9, DrainTyped DEF LegAsrDied, TypeOK
    <3>4. PcTyped'
      BY <2>9 DEF LegAsrDied, TypeOK, PcTyped, LegPc
    <3> QED BY <2>9, <3>1, <3>2, <3>3, <3>4 DEF LegAsrDied, TypeOK
  <2>10. ASSUME NEW l \in Leg, TranslateOk(l) PROVE TypeOK'
    <3>1. HealthTyped'
      BY <2>10, RecordSuccessTyped DEF TranslateOk, TypeOK
    <3>2. PcTyped' /\ WorkTyped' /\ OutcomeTyped'
      <4>1. CASE Resolve(l, "emptyText")
        BY <4>1, ResolveTyped DEF TypeOK, Outcome
      <4>2. CASE ~Resolve(l, "emptyText")
        <5>1. pc' = [pc EXCEPT ![l] = "synthesize"] /\ UNCHANGED <<workVars, outcome>>
          BY <2>10, <4>2 DEF TranslateOk
        <5> QED BY <5>1 DEF TypeOK, PcTyped, LegPc
      <4> QED BY <4>1, <4>2
    <3> QED BY <2>10, <3>1, <3>2 DEF TranslateOk, TypeOK
  <2>11. ASSUME NEW l \in Leg, TranslateFails(l) PROVE TypeOK'
    <3>1. HealthTyped'
      BY <2>11, RecordFailureTyped DEF TranslateFails, TypeOK
    <3>2. PcTyped' /\ PendingTyped'
      BY <2>11, StartPassthroughTyped DEF TranslateFails, TypeOK, Verdict, WorkTyped
    <3>3. WorkTyped'
      BY <2>11 DEF TranslateFails, TypeOK, WorkTyped, StartPassthrough, Verdict
    <3> QED BY <2>11, <3>1, <3>2, <3>3 DEF TranslateFails, TypeOK
  <2>12. ASSUME NEW l \in Leg, SynthesizeOk(l) PROVE TypeOK'
    <3>1. TtsTyped'
      BY <2>12 DEF SynthesizeOk, TypeOK, TtsTyped
    <3>2. PcTyped'
      BY <2>12 DEF SynthesizeOk, TypeOK, PcTyped, LegPc
    <3> QED BY <2>12, <3>1, <3>2 DEF SynthesizeOk, TypeOK
  <2>13. ASSUME NEW l \in Leg, SynthesizeFails(l) PROVE TypeOK'
    <3>1. HealthTyped'
      BY <2>13, RecordFailureTyped DEF SynthesizeFails, TypeOK
    <3>2. TtsTyped'
      BY <2>13, ReleaseTyped DEF SynthesizeFails, TypeOK
    <3>3. PcTyped' /\ PendingTyped'
      BY <2>13, StartPassthroughTyped DEF SynthesizeFails, TypeOK, Verdict, WorkTyped
    <3>4. WorkTyped'
      BY <2>13 DEF SynthesizeFails, TypeOK, WorkTyped, StartPassthrough, Verdict
    <3> QED BY <2>13, <3>1, <3>2, <3>3, <3>4 DEF SynthesizeFails, TypeOK
  <2>14. ASSUME NEW l \in Leg, FirstChunk(l) PROVE TypeOK'
    <3>1. PcTyped'
      BY <2>14 DEF FirstChunk, TypeOK, PcTyped, LegPc
    <3> QED BY <2>14, <3>1 DEF FirstChunk, TypeOK
  <2>15. ASSUME NEW l \in Leg, SendFirstChunk(l) PROVE TypeOK'
    <3>1. Head(ttsBuf[l]) \in Chunk
      BY <2>15 DEF SendFirstChunk, TypeOK, TtsTyped
    <3>2. OutTyped'
      BY <2>15, <3>1, EmitTyped DEF SendFirstChunk, TypeOK
    <3>3. HealthTyped'
      BY <2>15, RecordSuccessTyped DEF SendFirstChunk, TypeOK
    <3>4. TtsTyped'
      <4>1. CASE ReleaseSynthesis(l)
        BY <4>1, ReleaseTyped DEF TypeOK
      <4>2. CASE ~ReleaseSynthesis(l)
        <5>1. /\ ttsBuf' = [ttsBuf EXCEPT ![l] = Tail(@)] /\ ttsBuf[l] # <<>>
              /\ UNCHANGED <<tts, ttsExpired>>
          BY <2>15, <4>2 DEF SendFirstChunk
        <5>2. Tail(ttsBuf[l]) \in Seq(Chunk)
          BY <5>1 DEF TypeOK, TtsTyped
        <5> QED BY <5>1, <5>2 DEF TypeOK, TtsTyped
      <4> QED BY <4>1, <4>2
    <3>5. PcTyped' /\ WorkTyped' /\ OutcomeTyped'
      <4>1. CASE Resolve(l, "translated")
        BY <4>1, ResolveTyped DEF TypeOK, Outcome
      <4>2. CASE ~Resolve(l, "translated")
        <5>1. pc' = [pc EXCEPT ![l] = "stream"] /\ UNCHANGED <<workVars, outcome>>
          BY <2>15, <4>2 DEF SendFirstChunk
        <5> QED BY <5>1 DEF TypeOK, PcTyped, LegPc
      <4> QED BY <4>1, <4>2
    <3> QED BY <2>15, <3>2, <3>3, <3>4, <3>5 DEF SendFirstChunk, TypeOK
  <2>16. ASSUME NEW l \in Leg, StreamChunk(l) PROVE TypeOK'
    <3>1. Head(ttsBuf[l]) \in Chunk
      BY <2>16 DEF StreamChunk, TypeOK, TtsTyped
    <3>2. OutTyped'
      BY <2>16, <3>1, EmitTyped DEF StreamChunk, TypeOK
    <3>3. TtsTyped'
      BY <2>16 DEF StreamChunk, TypeOK, TtsTyped
    <3> QED BY <2>16, <3>2, <3>3 DEF StreamChunk, TypeOK
  <2>17. ASSUME NEW l \in Leg, SynthesisCompleted(l) PROVE TypeOK'
    <3>1. HealthTyped'
      BY <2>17, RecordSuccessTyped DEF SynthesisCompleted, TypeOK
    <3>2. TtsTyped'
      BY <2>17, ReleaseTyped DEF SynthesisCompleted, TypeOK
    <3>3. PcTyped' /\ WorkTyped' /\ OutcomeTyped'
      BY <2>17, ResolveTyped DEF SynthesisCompleted, TypeOK, Outcome
    <3> QED BY <2>17, <3>1, <3>2, <3>3 DEF SynthesisCompleted, TypeOK
  <2>18. ASSUME NEW l \in Leg, SynthesisStalls(l) PROVE TypeOK'
    <3>1. HealthTyped'
      BY <2>18, RecordFailureTyped DEF SynthesisStalls, TypeOK
    <3>2. TtsTyped'
      BY <2>18, ReleaseTyped DEF SynthesisStalls, TypeOK
    <3>3. PcTyped' /\ PendingTyped'
      BY <2>18, StartPassthroughTyped DEF SynthesisStalls, TypeOK, Verdict, WorkTyped
    <3>4. WorkTyped'
      BY <2>18 DEF SynthesisStalls, TypeOK, WorkTyped, StartPassthrough, Verdict
    <3> QED BY <2>18, <3>1, <3>2, <3>3, <3>4 DEF SynthesisStalls, TypeOK
  <2>19. ASSUME NEW l \in Leg, ForwardChunk(l) PROVE TypeOK'
    <3>1. OutTyped' /\ PendingTyped'
      BY <2>19, ForwardPendingTyped DEF ForwardChunk, TypeOK
    <3> QED BY <2>19, <3>1 DEF ForwardChunk, TypeOK
  <2>20. ASSUME NEW l \in Leg, PassthroughDone(l) PROVE TypeOK'
    <3>1. PcTyped' /\ WorkTyped' /\ OutcomeTyped'
      BY <2>20, ResolveTyped DEF PassthroughDone, TypeOK, WorkTyped
    <3> QED BY <2>20, <3>1 DEF PassthroughDone, TypeOK
  <2>21. ASSUME NEW l \in Leg, LastWordsDone(l) PROVE TypeOK'
    <3>1. PendingTyped'
      BY <2>21 DEF LastWordsDone, TypeOK, PendingTyped
    <3>2. PcTyped'
      BY <2>21 DEF LastWordsDone, TypeOK, PcTyped, LegPc
    <3> QED BY <2>21, <3>1, <3>2 DEF LastWordsDone, TypeOK
  <2>22. ASSUME NEW l \in Leg, SpawnDrain(l) PROVE TypeOK'
    <3>1. wg' \in Int
      BY <2>22 DEF SpawnDrain, TypeOK
    <3>2. DrainPcTyped'
      BY <2>22 DEF SpawnDrain, TypeOK, DrainPcTyped, DrainPc
    <3>3. PcTyped'
      BY <2>22 DEF SpawnDrain, TypeOK, PcTyped, LegPc
    <3> QED BY <2>22, <3>1, <3>2, <3>3 DEF SpawnDrain, TypeOK
  <2>23. ASSUME NEW l \in Leg, LegReturn(l) PROVE TypeOK'
    <3>1. PcTyped' /\ wg' \in Int
      BY <2>23 DEF LegReturn, TypeOK, PcTyped, LegPc, LegExit
    <3> QED BY <2>23, <3>1 DEF LegReturn, TypeOK
  <2>24. ASSUME NEW l \in Leg, LegAbort(l) PROVE TypeOK'
    <3>1. PcTyped' /\ wg' \in Int
      BY <2>24 DEF LegAbort, TypeOK, PcTyped, LegPc, LegExit
    <3>2. TtsTyped'
      BY <2>24 DEF LegAbort, TypeOK, TtsTyped
    <3> QED BY <2>24, <3>1, <3>2 DEF LegAbort, TypeOK
  <2>25. ASSUME NEW l \in Leg, DrainTick(l) PROVE TypeOK'
    <3>1. PendingTyped' /\ DrainPcTyped' /\ IngressTyped'
      BY <2>25, FlushTyped DEF DrainTick, TypeOK, DrainPc
    <3> QED BY <2>25, <3>1 DEF DrainTick, TypeOK
  <2>26. ASSUME NEW l \in Leg, DrainCtxDone(l) PROVE TypeOK'
    <3>1. PendingTyped' /\ DrainPcTyped' /\ IngressTyped'
      BY <2>26, FlushTyped DEF DrainCtxDone, TypeOK, DrainPc
    <3>2. wg' \in Int
      BY <2>26 DEF DrainCtxDone, TypeOK
    <3> QED BY <2>26, <3>1, <3>2 DEF DrainCtxDone, TypeOK
  <2>27. ASSUME NEW l \in Leg, DrainForward(l) PROVE TypeOK'
    <3>1. OutTyped' /\ PendingTyped'
      BY <2>27, ForwardPendingTyped DEF DrainForward, TypeOK
    <3> QED BY <2>27, <3>1 DEF DrainForward, TypeOK
  <2>28. ASSUME NEW l \in Leg, DrainFlushed(l) PROVE TypeOK'
    <3>1. DrainPcTyped'
      BY <2>28 DEF DrainFlushed, TypeOK, DrainPcTyped, DrainPc
    <3> QED BY <2>28, <3>1 DEF DrainFlushed, TypeOK
  <2>29. ASSUME NEW l \in Leg, DrainReturns(l) PROVE TypeOK'
    <3>1. DrainPcTyped' /\ wg' \in Int
      BY <2>29 DEF DrainReturns, TypeOK, DrainPcTyped, DrainPc, DrainExit
    <3> QED BY <2>29, <3>1 DEF DrainReturns, TypeOK
  <2>30. ASSUME NEW l \in Leg, DrainCheck(l) PROVE TypeOK'
    <3>1. DrainPcTyped' /\ wg' \in Int
      BY <2>30 DEF DrainCheck, TypeOK, DrainPcTyped, DrainPc, DrainExit
    <3> QED BY <2>30, <3>1 DEF DrainCheck, TypeOK
  <2>31. ASSUME NEW l \in Leg, TtsDeadline(l) PROVE TypeOK'
    <3>1. TtsTyped'
      BY <2>31 DEF TtsDeadline, TypeOK, TtsTyped
    <3> QED BY <2>31, <3>1 DEF TtsDeadline, TypeOK
  <2>32. ASSUME NEW l \in Leg, TtsProduces(l) PROVE TypeOK'
    <3>1. TtsTyped'
      BY <2>32 DEF TtsProduces, TypeOK, TtsTyped, TtsChunk, Chunk
    <3> QED BY <2>32, <3>1 DEF TtsProduces, TypeOK
  <2>33. ASSUME NEW l \in Leg, TtsVendorDrops(l) PROVE TypeOK'
    <3>1. TtsTyped'
      BY <2>33 DEF TtsVendorDrops, TypeOK, TtsTyped
    <3> QED BY <2>33, <3>1 DEF TtsVendorDrops, TypeOK
  <2>34. ASSUME NEW l \in Leg, TtsCutOff(l) PROVE TypeOK'
    <3>1. TtsTyped'
      BY <2>34 DEF TtsCutOff, TypeOK, TtsTyped
    <3> QED BY <2>34, <3>1 DEF TtsCutOff, TypeOK
  <2>35. ASSUME NEW l \in Leg, Listen(l) PROVE TypeOK'
    <3>1. OutTyped'
      BY <2>35 DEF Listen, TypeOK, OutTyped, outVars
    <3> QED BY <2>35, <3>1 DEF Listen, TypeOK
  <2>36. CASE CloseStream("caller", "closeCaller", "inCaller")
    <3>1. AsrTyped' /\ LifeTyped'
      BY <2>36 DEF CloseStream, TypeOK, AsrTyped, LifeTyped, ClosePc
    <3> QED BY <2>36, <3>1 DEF CloseStream, TypeOK
  <2>37. CASE CloseStream("agent", "inCaller", "inAgent")
    <3>1. AsrTyped' /\ LifeTyped'
      BY <2>37 DEF CloseStream, TypeOK, AsrTyped, LifeTyped, ClosePc
    <3> QED BY <2>37, <3>1 DEF CloseStream, TypeOK
  <2>45. CASE StreamsClosed
    <3>1. LifeTyped'
      BY <2>45 DEF StreamsClosed, TypeOK, LifeTyped, ClosePc
    <3> QED BY <2>45, <3>1 DEF StreamsClosed, TypeOK
  <2>38. CASE CloseBegin
    <3>1. LifeTyped'
      BY <2>38 DEF CloseBegin, TypeOK, LifeTyped, ClosePc
    <3> QED BY <2>38, <3>1 DEF CloseBegin, TypeOK
  <2>39. CASE CloseWaited
    <3>1. LifeTyped'
      BY <2>39 DEF CloseWaited, TypeOK, LifeTyped, ClosePc
    <3> QED BY <2>39, <3>1 DEF CloseWaited, TypeOK
  <2>40. CASE CloseBackstop
    <3>1. LifeTyped'
      BY <2>40 DEF CloseBackstop, TypeOK, LifeTyped, ClosePc
    <3> QED BY <2>40, <3>1 DEF CloseBackstop, TypeOK
  <2>41. CASE CloseCancel
    <3>1. LifeTyped'
      BY <2>41 DEF CloseCancel, TypeOK, LifeTyped, ClosePc
    <3> QED BY <2>41, <3>1 DEF CloseCancel, TypeOK
  <2>42. CASE CloseOuts
    <3>1. LifeTyped'
      BY <2>42 DEF CloseOuts, TypeOK, LifeTyped, ClosePc
    <3> QED BY <2>42, <3>1 DEF CloseOuts, TypeOK
  <2>43. CASE ParentCancels
    <3>1. LifeTyped'
      BY <2>43 DEF ParentCancels, TypeOK, LifeTyped, ClosePc
    <3> QED BY <2>43, <3>1 DEF ParentCancels, TypeOK
  <2>44. CASE UNCHANGED vars
    BY <2>44 DEF vars, TypeOK
  <2> QED BY <2>1, <2>2, <2>3, <2>4, <2>5, <2>6, <2>7, <2>8, <2>9, <2>10, <2>11, <2>12, <2>13,
     <2>14, <2>15, <2>16, <2>17, <2>18, <2>19, <2>20, <2>21, <2>22, <2>23, <2>24, <2>25,
     <2>26, <2>27, <2>28, <2>29, <2>30, <2>31, <2>32, <2>33, <2>34, <2>35, <2>36, <2>37,
     <2>38, <2>39, <2>40, <2>41, <2>42, <2>43, <2>44, <2>45 DEF Next, RunLeg,
     DrainDeadLeg, Synthesis, Close, StreamReturns, CloseProceeds
<1> QED BY <1>1, <1>2, PTL DEF Spec

-----------------------------------------------------------------------------
(* The wait group.                                                         *)

\* Why no goroutine outlives Close: the wait group counts them, a leg's drain
\* goroutine exists only once runLeg can do nothing but return, and past
\* wg.Wait there is none left that could start another.
Lifecycle ==
  /\ WaitGroupCounts
  /\ \A l \in Leg : drainPc[l] # "none" => pc[l] \in {"return", "exited"}
  /\ closePc \in {"cancel", "closeOuts", "done"} =>
       \A l \in Leg : ~LegRunning(l) /\ ~DrainRunning(l)
  /\ outClosed => closePc = "done"

closeVars == <<closePc, outClosed>>

\* A step within runLeg, from a step it can go on from.
LEMMA LegStays ==
  ASSUME TypeOK, Lifecycle, NEW l \in Leg, NEW p \in LegPc \ {"exited"},
         pc[l] \notin {"return", "exited"}, pc' = [pc EXCEPT ![l] = p],
         UNCHANGED <<wg, drainPc, closeVars>>
  PROVE  Lifecycle'
BY DEF TypeOK, PcTyped, LegPc, Lifecycle, WaitGroupCounts, Goroutines, LegRunning,
   DrainRunning, closeVars, Leg

\* runLeg returns.
LEMMA LegLeaves ==
  ASSUME TypeOK, Lifecycle, NEW l \in Leg, pc[l] # "exited", LegExit(l),
         UNCHANGED <<drainPc, closeVars>>
  PROVE  Lifecycle'
BY DEF TypeOK, PcTyped, LegPc, Lifecycle, WaitGroupCounts, Goroutines, LegRunning,
   DrainRunning, LegExit, closeVars, Leg

\* A step within drainDeadLeg.
LEMMA DrainStays ==
  ASSUME TypeOK, Lifecycle, NEW l \in Leg, NEW p \in DrainPc \ {"none", "exited"},
         DrainRunning(l), drainPc' = [drainPc EXCEPT ![l] = p],
         UNCHANGED <<wg, pc, closeVars>>
  PROVE  Lifecycle'
BY DEF TypeOK, DrainPcTyped, DrainPc, Lifecycle, WaitGroupCounts, Goroutines, LegRunning,
   DrainRunning, closeVars, Leg

\* drainDeadLeg returns.
LEMMA DrainLeaves ==
  ASSUME TypeOK, Lifecycle, NEW l \in Leg, DrainRunning(l), DrainExit(l),
         UNCHANGED <<pc, closeVars>>
  PROVE  Lifecycle'
BY DEF TypeOK, DrainPcTyped, DrainPc, Lifecycle, WaitGroupCounts, Goroutines, LegRunning,
   DrainRunning, DrainExit, closeVars, Leg

\* The invariant holds throughout.
LEMMA LifecycleInvariant == Spec => []Lifecycle
<1>1. Init => Lifecycle
  BY DEF Init, Lifecycle, WaitGroupCounts, Goroutines, LegRunning, DrainRunning, Leg
<1>2. TypeOK /\ Lifecycle /\ [Next]_vars => Lifecycle'
  <2> SUFFICES ASSUME TypeOK, Lifecycle, [Next]_vars PROVE Lifecycle'
    OBVIOUS
  <2> USE DEF closeVars
  <2>1. ASSUME UNCHANGED <<pc, drainPc, wg, closeVars>> PROVE Lifecycle'
    BY <2>1 DEF Lifecycle, WaitGroupCounts, Goroutines, LegRunning, DrainRunning
  <2>2. ASSUME NEW l \in Leg,
               \/ PushBuffer(l) \/ PushASR(l) \/ AsrPartial(l) \/ AsrFinal(l)
               \/ AsrChannelCloses(l) \/ TtsDeadline(l) \/ Synthesis(l) \/ Listen(l)
               \/ TakePartial(l) \/ StreamChunk(l) \/ ForwardChunk(l) \/ DrainForward(l)
        PROVE Lifecycle'
    BY <2>1, <2>2 DEF PushBuffer, PushASR, AsrPartial, AsrFinal, AsrChannelCloses,
       TtsDeadline, Synthesis, TtsProduces, TtsVendorDrops, TtsCutOff, Listen, TakePartial,
       StreamChunk, ForwardChunk, DrainForward, lifeVars
  <2>3. ASSUME NEW l \in Leg, LegAsrShutdown(l) \/ LegAbort(l) \/ LegReturn(l)
        PROVE Lifecycle'
    BY <2>3, LegLeaves DEF LegAsrShutdown, LegAbort, LegReturn, lifeVars
  <2>4. ASSUME NEW l \in Leg, TakeFinal(l) PROVE Lifecycle'
    BY <2>4, LegStays DEF TakeFinal, StartPassthrough, lifeVars, LegPc
  <2>5. ASSUME NEW l \in Leg, LegAsrDied(l) \/ LastWordsDone(l) PROVE Lifecycle'
    BY <2>5, LegStays DEF LegAsrDied, LastWordsDone, lifeVars, LegPc
  <2>6. ASSUME NEW l \in Leg, TranslateOk(l) \/ TranslateFails(l) PROVE Lifecycle'
    BY <2>6, LegStays DEF TranslateOk, TranslateFails, Resolve, StartPassthrough,
       lifeVars, LegPc
  <2>7. ASSUME NEW l \in Leg, SynthesizeOk(l) \/ SynthesizeFails(l) \/ SynthesisStalls(l)
        PROVE Lifecycle'
    BY <2>7, LegStays DEF SynthesizeOk, SynthesizeFails, SynthesisStalls,
       StartPassthrough, lifeVars, LegPc
  <2>8. ASSUME NEW l \in Leg,
               \/ FirstChunk(l) \/ SendFirstChunk(l) \/ SynthesisCompleted(l)
               \/ PassthroughDone(l)
        PROVE Lifecycle'
    BY <2>8, LegStays DEF FirstChunk, SendFirstChunk, SynthesisCompleted, PassthroughDone,
       Resolve, lifeVars, LegPc
  <2>9. ASSUME NEW l \in Leg, SpawnDrain(l) PROVE Lifecycle'
    BY <2>9 DEF SpawnDrain, TypeOK, PcTyped, LegPc, DrainPcTyped, DrainPc, Lifecycle,
       WaitGroupCounts, Goroutines, LegRunning, DrainRunning, lifeVars, Leg
  <2>10. ASSUME NEW l \in Leg, DrainTick(l) PROVE Lifecycle'
    BY <2>10, DrainStays DEF DrainTick, Flush, DrainRunning, DrainPc, lifeVars
  <2>11. ASSUME NEW l \in Leg, DrainCtxDone(l) PROVE Lifecycle'
    <3>1. CASE audio[l] = <<>>
      BY <2>11, <3>1, DrainLeaves DEF DrainCtxDone, Flush, DrainExit, DrainRunning, lifeVars
    <3>2. CASE audio[l] # <<>>
      BY <2>11, <3>2, DrainStays DEF DrainCtxDone, Flush, DrainRunning, DrainPc, lifeVars
    <3> QED BY <3>1, <3>2
  <2>12. ASSUME NEW l \in Leg, DrainFlushed(l) PROVE Lifecycle'
    BY <2>12, DrainStays DEF DrainFlushed, DrainRunning, DrainPc, lifeVars
  <2>13. ASSUME NEW l \in Leg, DrainReturns(l) PROVE Lifecycle'
    BY <2>13, DrainLeaves DEF DrainReturns, DrainRunning, lifeVars
  <2>14. ASSUME NEW l \in Leg, DrainCheck(l) PROVE Lifecycle'
    BY <2>14, DrainStays, DrainLeaves DEF DrainCheck, DrainRunning, DrainPc, lifeVars
  <2>15. ASSUME CloseBegin \/ Close \/ ParentCancels PROVE Lifecycle'
    BY <2>15 DEF CloseBegin, Close, StreamReturns, CloseProceeds, CloseStream, StreamsClosed,
       CloseWaited, CloseBackstop, CloseCancel, CloseOuts, ParentCancels, Lifecycle, WaitGroupCounts, Goroutines, LegRunning,
       DrainRunning, Leg
  <2>16. CASE UNCHANGED vars
    BY <2>1, <2>16 DEF vars, lifeVars
  <2> QED BY <2>2, <2>3, <2>4, <2>5, <2>6, <2>7, <2>8, <2>9, <2>10, <2>11, <2>12, <2>13,
     <2>14, <2>15, <2>16 DEF Next, RunLeg, DrainDeadLeg
<1> QED BY <1>1, <1>2, SessionTyped, PTL DEF Spec

\* The wait group counts the goroutines that run (session.go's wg.Add calls).
THEOREM WaitGroupIsExact == Spec => []WaitGroupCounts
<1>1. Lifecycle => WaitGroupCounts
  BY DEF Lifecycle
<1> QED BY <1>1, LifecycleInvariant, PTL

\* No goroutine can send on an outbound channel that Close has closed.
THEOREM NoSendOnClosedChannel == Spec => []NoGoroutineAfterClose
<1>1. Lifecycle => NoGoroutineAfterClose
  BY DEF Lifecycle, NoGoroutineAfterClose
<1> QED BY <1>1, LifecycleInvariant, PTL

-----------------------------------------------------------------------------
(* Degradation.                                                            *)

\* A failure degrades the leg or leaves it within its budget; no other leg is touched.
LEMMA FailureBudget ==
  ASSUME HealthTyped, NEW l \in Leg, NEW fatal \in BOOLEAN, RecordFailure(l, fatal)
  PROVE  /\ \A k \in Leg \ {l} : degraded'[k] = degraded[k]
                                /\ consecutiveFailures'[k] = consecutiveFailures[k]
         /\ degraded[l] => degraded'[l]
         /\ ~degraded'[l] => consecutiveFailures'[l] < MaxConsecutiveFailures
<1> DEFINE now == degraded[l] \/ fatal \/ consecutiveFailures[l] + 1 >= MaxConsecutiveFailures
<1>1. degraded' = [degraded EXCEPT ![l] = now] /\ degraded \in [Leg -> BOOLEAN]
  BY Zenon DEF RecordFailure, HealthTyped
<1>2. consecutiveFailures' = [consecutiveFailures EXCEPT ![l] = IF fatal THEN @ ELSE @ + 1]
  BY DEF RecordFailure
<1>3. ~now => ~fatal /\ consecutiveFailures[l] + 1 < MaxConsecutiveFailures
  BY SessionConstants DEF HealthTyped
<1>4. degraded[l] => now
  OBVIOUS
<1> HIDE DEF now
<1>5. degraded'[l] = now /\ \A k \in Leg \ {l} : degraded'[k] = degraded[k]
  BY <1>1, Zenon
<1>6. \A k \in Leg \ {l} : consecutiveFailures'[k] = consecutiveFailures[k]
  BY <1>2 DEF HealthTyped
<1>7. ~fatal => consecutiveFailures'[l] = consecutiveFailures[l] + 1
  BY <1>2 DEF HealthTyped
<1>8. ~now => consecutiveFailures'[l] < MaxConsecutiveFailures
  BY <1>3, <1>7
<1> QED BY <1>4, <1>5, <1>6, <1>8, Zenon

\* What a success leaves.
LEMMA SuccessResets ==
  ASSUME HealthTyped, NEW l \in Leg, RecordSuccess(l)
  PROVE  /\ \A k \in Leg \ {l} : consecutiveFailures'[k] = consecutiveFailures[k]
         /\ consecutiveFailures'[l] < MaxConsecutiveFailures
         /\ degraded' = degraded
BY SessionConstants DEF HealthTyped, RecordSuccess

\* A leg's utterance is passed through for a reason, and DegradedNeverTranslates.
Discipline ==
  /\ DegradedNeverTranslates
  /\ \A l \in Leg : pc[l] = "forward" => verdict[l] \in Passthrough

\* A step that moves no leg into a translation and touches no leg's health.
LEMMA DisciplineKept ==
  ASSUME TypeOK, Discipline, UNCHANGED healthVars,
         \A k \in Leg : /\ pc'[k] \in Translating => pc[k] \in Translating
                        /\ pc'[k] = "forward" =>
                             pc[k] = "forward" /\ verdict'[k] = verdict[k]
  PROVE  Discipline'
BY DEF Discipline, DegradedNeverTranslates, Translating, healthVars

\* The invariant holds throughout.
LEMMA DisciplineInvariant == Spec => []Discipline
<1>1. Init => Discipline
  BY SessionConstants DEF Init, Discipline, DegradedNeverTranslates
<1>2. TypeOK /\ Discipline /\ [Next]_vars => Discipline'
  <2> SUFFICES ASSUME TypeOK, Discipline, [Next]_vars PROVE Discipline'
    OBVIOUS
  <2>0. HealthTyped /\ PcTyped /\ WorkTyped
    BY DEF TypeOK
  <2>1. ASSUME UNCHANGED <<pc, healthVars, workVars>> PROVE Discipline'
    BY <2>1, DisciplineKept DEF workVars
  <2>2. ASSUME NEW l \in Leg,
               \/ PushBuffer(l) \/ PushASR(l) \/ AsrPartial(l) \/ AsrFinal(l)
               \/ AsrChannelCloses(l) \/ TtsDeadline(l) \/ Synthesis(l) \/ Listen(l)
               \/ TakePartial(l) \/ StreamChunk(l) \/ ForwardChunk(l) \/ DrainDeadLeg(l)
        PROVE Discipline'
    BY <2>1, <2>2 DEF PushBuffer, PushASR, AsrPartial, AsrFinal, AsrChannelCloses,
       TtsDeadline, Synthesis, TtsProduces, TtsVendorDrops, TtsCutOff, Listen, TakePartial,
       StreamChunk, ForwardChunk, DrainDeadLeg, DrainTick, DrainCtxDone, DrainForward,
       DrainFlushed, DrainReturns, DrainCheck
  <2>3. ASSUME NEW l \in Leg, LegAsrShutdown(l) \/ LegAbort(l) \/ LegReturn(l)
        PROVE Discipline'
    BY <2>0, <2>3, DisciplineKept DEF LegAsrShutdown, LegAbort, LegReturn, LegExit, PcTyped,
       workVars, Translating
  <2>4. ASSUME NEW l \in Leg, LastWordsDone(l) \/ SpawnDrain(l) PROVE Discipline'
    BY <2>0, <2>4, DisciplineKept DEF LastWordsDone, SpawnDrain, PcTyped, workVars,
       Translating
  <2>5. ASSUME NEW l \in Leg, SynthesizeOk(l) \/ FirstChunk(l) PROVE Discipline'
    BY <2>0, <2>5, DisciplineKept DEF SynthesizeOk, FirstChunk, PcTyped, workVars,
       Translating
  <2>6. ASSUME NEW l \in Leg, PassthroughDone(l) PROVE Discipline'
    BY <2>0, <2>6, DisciplineKept DEF PassthroughDone, Resolve, PcTyped, WorkTyped,
       Translating
  <2>7. ASSUME NEW l \in Leg, TakeFinal(l) PROVE Discipline'
    <3>1. \A k \in Leg \ {l} : pc'[k] = pc[k] /\ verdict'[k] = verdict[k]
      BY <2>7, <2>0 DEF TakeFinal, StartPassthrough, PcTyped, WorkTyped
    <3>2. UNCHANGED healthVars
      BY <2>7 DEF TakeFinal
    <3>3. CASE pc'[l] = "translate" /\ ~degraded[l]
      BY <3>1, <3>2, <3>3 DEF Discipline, DegradedNeverTranslates, healthVars
    <3>4. CASE pc'[l] = "forward" /\ verdict'[l] \in Passthrough
      BY <3>1, <3>2, <3>4 DEF Discipline, DegradedNeverTranslates, Translating, healthVars
    <3>5. \/ pc'[l] = "translate" /\ ~degraded[l]
          \/ pc'[l] = "forward" /\ verdict'[l] \in Passthrough
      BY <2>7, <2>0 DEF TakeFinal, MayAttempt, StartPassthrough, PcTyped, WorkTyped,
         Passthrough, Verdict
    <3> QED BY <3>3, <3>4, <3>5
  <2>8. ASSUME NEW l \in Leg,
               TranslateOk(l) \/ SendFirstChunk(l) \/ SynthesisCompleted(l)
        PROVE Discipline'
    <3>1. \A k \in Leg \ {l} : pc'[k] = pc[k] /\ verdict'[k] = verdict[k]
      BY <2>8, <2>0 DEF TranslateOk, SendFirstChunk, SynthesisCompleted, Resolve, PcTyped,
         WorkTyped, workVars
    <3>2. pc[l] \in Translating /\ pc'[l] \in {"synthesize", "stream", "select"}
      BY <2>8, <2>0 DEF TranslateOk, SendFirstChunk, SynthesisCompleted, Resolve, PcTyped,
         Translating
    <3>3. RecordSuccess(l) \/ UNCHANGED healthVars
      BY <2>8 DEF TranslateOk, SendFirstChunk, SynthesisCompleted
    <3>4. CASE UNCHANGED healthVars
      BY <3>1, <3>2, <3>4, DisciplineKept DEF Translating
    <3>5. CASE RecordSuccess(l)
      BY <2>0, <3>1, <3>2, <3>5, SuccessResets DEF Discipline, DegradedNeverTranslates,
         Translating
    <3> QED BY <3>3, <3>4, <3>5
  <2>9. ASSUME NEW l \in Leg,
               \/ TranslateFails(l) \/ SynthesizeFails(l) \/ SynthesisStalls(l)
               \/ LegAsrDied(l)
        PROVE Discipline'
    <3>1. \A k \in Leg \ {l} : pc'[k] = pc[k] /\ verdict'[k] = verdict[k]
      BY <2>9, <2>0 DEF TranslateFails, SynthesizeFails, SynthesisStalls, LegAsrDied,
         StartPassthrough, PcTyped, WorkTyped, workVars
    <3>2. \/ pc'[l] = "forward" /\ verdict'[l] \in Passthrough
          \/ pc'[l] = "lastWords"
      BY <2>9, <2>0 DEF TranslateFails, SynthesizeFails, SynthesisStalls, LegAsrDied,
         StartPassthrough, PcTyped, WorkTyped, Passthrough, Verdict
    <3>3. PICK fatal \in BOOLEAN : RecordFailure(l, fatal)
      BY <2>9 DEF TranslateFails, SynthesizeFails, SynthesisStalls, LegAsrDied
    <3> QED BY <2>0, <3>1, <3>2, <3>3, FailureBudget DEF Discipline, DegradedNeverTranslates,
       Translating
  <2>10. ASSUME CloseBegin \/ Close \/ ParentCancels PROVE Discipline'
    BY <2>1, <2>10 DEF CloseBegin, Close, StreamReturns, CloseProceeds, CloseStream, StreamsClosed,
       CloseWaited, CloseBackstop, CloseCancel, CloseOuts, ParentCancels
  <2>11. CASE UNCHANGED vars
    BY <2>1, <2>11 DEF vars
  <2> QED BY <2>2, <2>3, <2>4, <2>5, <2>6, <2>7, <2>8, <2>9, <2>10, <2>11 DEF Next, RunLeg
<1> QED BY <1>1, <1>2, SessionTyped, PTL DEF Spec

\* A degraded leg attempts no translation, and one that is not degraded is within
\* its failure budget (legState.recordFailure, runLeg's isDegraded check).
THEOREM DegradedStaysOut == Spec => []DegradedNeverTranslates
<1>1. Discipline => DegradedNeverTranslates
  BY DEF Discipline
<1> QED BY <1>1, DisciplineInvariant, PTL

-----------------------------------------------------------------------------
(* A leg implements LegContract.                                           *)

\* The contract's step, for leg l, of mode m and then n.
ContractStep(l, m, n) ==
  \/ n = m /\ outcome'[l] = outcome[l]
  \/ /\ m # "stopped" /\ n = m
     /\ \E o \in (IF m = "degraded" THEN Passthrough ELSE Outcome) :
          outcome'[l] = Append(outcome[l], o)
  \/ m = "translating" /\ n = "degraded" /\ outcome'[l] = outcome[l]
  \/ m # "stopped" /\ n = "stopped" /\ outcome'[l] = outcome[l]

\* A step that leaves a leg's outcomes alone, revives nothing and heals nothing.
LEMMA LegDoesNotSettle ==
  ASSUME HealthTyped, NEW l \in Leg,
         outcome'[l] = outcome[l],
         degraded'[l] = degraded[l],
         ~LegRunning(l) /\ ~DrainRunning(l) => ~LegRunning(l)' /\ ~DrainRunning(l)'
  PROVE  ContractStep(l, Mode(l), Mode(l)')
<1>1. CASE ~LegRunning(l)' /\ ~DrainRunning(l)'
  BY <1>1 DEF Mode, ContractStep
<1>2. CASE LegRunning(l)' \/ DrainRunning(l)'
  BY <1>2 DEF Mode, ContractStep
<1> QED BY <1>1, <1>2

\* A leg that fails and goes on is degraded or as it was.
LEMMA LegFails ==
  ASSUME HealthTyped, NEW l \in Leg, NEW fatal \in BOOLEAN, RecordFailure(l, fatal),
         outcome'[l] = outcome[l], LegRunning(l), LegRunning(l)'
  PROVE  ContractStep(l, Mode(l), Mode(l)')
<1>1. degraded[l] => degraded'[l]
  BY FailureBudget
<1> QED BY <1>1 DEF Mode, ContractStep

\* A leg that settles a transcript as its mode allows, and goes on.
LEMMA LegSettles ==
  ASSUME HealthTyped, NEW l \in Leg, NEW o \in Outcome,
         outcome'[l] = Append(outcome[l], o), LegRunning(l), LegRunning(l)',
         degraded'[l] = degraded[l], degraded[l] => o \in Passthrough
  PROVE  ContractStep(l, Mode(l), Mode(l)')
BY DEF Mode, ContractStep

\* Every step of the session is a step of the contract of each leg.
LEMMA LegImplementsContract ==
  ASSUME TypeOK, Lifecycle, Discipline, [Next]_vars, NEW k \in Leg
  PROVE  ContractStep(k, Mode(k), Mode(k)')
<1>0. HealthTyped /\ PcTyped /\ DrainPcTyped /\ WorkTyped /\ OutcomeTyped
  BY DEF TypeOK
<1>1. ASSUME UNCHANGED <<pc, drainPc, healthVars, outcome>>
      PROVE ContractStep(k, Mode(k), Mode(k)')
  BY <1>0, <1>1, LegDoesNotSettle DEF healthVars, LegRunning, DrainRunning
<1>2. ASSUME NEW l \in Leg,
             \/ PushBuffer(l) \/ PushASR(l) \/ AsrPartial(l) \/ AsrFinal(l)
             \/ AsrChannelCloses(l) \/ TtsDeadline(l) \/ Synthesis(l) \/ Listen(l)
             \/ TakePartial(l) \/ StreamChunk(l) \/ ForwardChunk(l) \/ DrainForward(l)
      PROVE ContractStep(k, Mode(k), Mode(k)')
  BY <1>1, <1>2 DEF PushBuffer, PushASR, AsrPartial, AsrFinal, AsrChannelCloses,
     TtsDeadline, Synthesis, TtsProduces, TtsVendorDrops, TtsCutOff, Listen, TakePartial,
     StreamChunk, ForwardChunk, DrainForward
<1>3. ASSUME NEW l \in Leg,
             \/ LegAsrShutdown(l) \/ LegAbort(l) \/ LegReturn(l) \/ LastWordsDone(l)
             \/ SpawnDrain(l) \/ SynthesizeOk(l) \/ FirstChunk(l)
      PROVE ContractStep(k, Mode(k), Mode(k)')
  <2>1. UNCHANGED <<healthVars, outcome>>
    BY <1>3 DEF LegAsrShutdown, LegAbort, LegReturn, LastWordsDone, SpawnDrain,
       SynthesizeOk, FirstChunk
  <2>2. pc[l] # "exited" /\ \A j \in Leg \ {l} : pc'[j] = pc[j] /\ drainPc'[j] = drainPc[j]
    BY <1>0, <1>3 DEF LegAsrShutdown, LegAbort, LegReturn, LastWordsDone, SpawnDrain,
       SynthesizeOk, FirstChunk, LegExit, PcTyped, DrainPcTyped
  <2> QED BY <1>0, <2>1, <2>2, LegDoesNotSettle DEF healthVars, LegRunning, DrainRunning
<1>4. ASSUME NEW l \in Leg, TakeFinal(l) PROVE ContractStep(k, Mode(k), Mode(k)')
  <2>1. UNCHANGED <<healthVars, outcome, drainPc>>
    BY <1>4 DEF TakeFinal
  <2>2. pc[l] # "exited" /\ \A j \in Leg \ {l} : pc'[j] = pc[j]
    BY <1>0, <1>4 DEF TakeFinal, StartPassthrough, PcTyped
  <2> QED BY <1>0, <2>1, <2>2, LegDoesNotSettle DEF healthVars, LegRunning, DrainRunning
<1>5. ASSUME NEW l \in Leg,
             \/ DrainTick(l) \/ DrainCtxDone(l) \/ DrainFlushed(l) \/ DrainReturns(l)
             \/ DrainCheck(l)
      PROVE ContractStep(k, Mode(k), Mode(k)')
  <2>1. UNCHANGED <<healthVars, outcome, pc>>
    BY <1>5 DEF DrainTick, DrainCtxDone, DrainFlushed, DrainReturns, DrainCheck
  <2>2. DrainRunning(l) /\ \A j \in Leg \ {l} : drainPc'[j] = drainPc[j]
    BY <1>0, <1>5 DEF DrainTick, DrainCtxDone, DrainFlushed, DrainReturns, DrainCheck,
       Flush, DrainExit, DrainRunning, DrainPcTyped
  <2> QED BY <1>0, <2>1, <2>2, LegDoesNotSettle DEF healthVars, LegRunning, DrainRunning
<1>6. ASSUME NEW l \in Leg,
             \/ TranslateFails(l) \/ SynthesizeFails(l) \/ SynthesisStalls(l)
             \/ LegAsrDied(l)
      PROVE ContractStep(k, Mode(k), Mode(k)')
  <2>1. UNCHANGED <<outcome, drainPc>>
    BY <1>6 DEF TranslateFails, SynthesizeFails, SynthesisStalls, LegAsrDied
  <2>2. /\ pc[l] # "exited" /\ pc'[l] # "exited"
        /\ \A j \in Leg \ {l} : pc'[j] = pc[j]
    BY <1>0, <1>6 DEF TranslateFails, SynthesizeFails, SynthesisStalls, LegAsrDied,
       StartPassthrough, PcTyped
  <2>3. PICK fatal \in BOOLEAN : RecordFailure(l, fatal)
    BY <1>6 DEF TranslateFails, SynthesizeFails, SynthesisStalls, LegAsrDied
  <2>4. CASE k = l
    BY <1>0, <2>1, <2>2, <2>3, <2>4, LegFails DEF LegRunning
  <2>5. CASE k # l
    <3>1. degraded'[k] = degraded[k]
      BY <1>0, <2>3, <2>5, FailureBudget
    <3> QED BY <1>0, <2>1, <2>2, <2>5, <3>1, LegDoesNotSettle DEF LegRunning, DrainRunning
  <2> QED BY <2>4, <2>5
<1>7. ASSUME NEW l \in Leg, NEW o \in Outcome, Resolve(l, o), pc[l] # "exited",
             UNCHANGED <<degraded, drainPc>>, degraded[l] => o \in Passthrough
      PROVE ContractStep(k, Mode(k), Mode(k)')
  <2>1. CASE k = l
    BY <1>0, <1>7, <2>1, LegSettles DEF Resolve, OutcomeTyped, PcTyped, LegRunning
  <2>2. CASE k # l
    BY <1>0, <1>7, <2>2, LegDoesNotSettle DEF Resolve, OutcomeTyped, PcTyped, LegRunning,
       DrainRunning
  <2> QED BY <2>1, <2>2
<1>8. ASSUME NEW l \in Leg, PassthroughDone(l) PROVE ContractStep(k, Mode(k), Mode(k)')
  <2>1. verdict[l] \in Passthrough /\ verdict[l] \in Outcome
    BY <1>8 DEF PassthroughDone, Discipline, Outcome
  <2> QED BY <1>7, <1>8, <2>1 DEF PassthroughDone, healthVars
<1>9. ASSUME NEW l \in Leg,
             TranslateOk(l) \/ SendFirstChunk(l) \/ SynthesisCompleted(l)
      PROVE ContractStep(k, Mode(k), Mode(k)')
  <2>1. ~degraded[l] /\ pc[l] # "exited" /\ UNCHANGED <<degraded, drainPc>>
    BY <1>9 DEF TranslateOk, SendFirstChunk, SynthesisCompleted, Discipline,
       DegradedNeverTranslates, Translating, RecordSuccess, healthVars
  <2>2. CASE \E o \in Outcome : Resolve(l, o)
    BY <1>7, <2>1, <2>2
  <2>3. CASE pc' \in {[pc EXCEPT ![l] = "synthesize"], [pc EXCEPT ![l] = "stream"]}
             /\ UNCHANGED outcome
    BY <1>0, <2>1, <2>3, LegDoesNotSettle DEF PcTyped, LegRunning, DrainRunning
  <2>4. \/ \E o \in Outcome : Resolve(l, o)
        \/ pc' \in {[pc EXCEPT ![l] = "synthesize"], [pc EXCEPT ![l] = "stream"]}
           /\ UNCHANGED outcome
    BY <1>9 DEF TranslateOk, SendFirstChunk, SynthesisCompleted, Outcome
  <2> QED BY <2>2, <2>3, <2>4
<1>10. ASSUME CloseBegin \/ Close \/ ParentCancels
       PROVE ContractStep(k, Mode(k), Mode(k)')
  BY <1>1, <1>10 DEF CloseBegin, Close, StreamReturns, CloseProceeds, CloseStream, StreamsClosed,
     CloseWaited, CloseBackstop, CloseCancel, CloseOuts, ParentCancels
<1>11. CASE UNCHANGED vars
  BY <1>1, <1>11 DEF vars
<1> QED BY <1>2, <1>3, <1>4, <1>5, <1>6, <1>8, <1>9, <1>10, <1>11 DEF Next, RunLeg,
   DrainDeadLeg

\* A session's steps as steps of the contract, by the leg's mode and outcomes.
LEMMA ContractSteps ==
  ASSUME TypeOK, Lifecycle, Discipline, [Next]_vars
  PROVE  /\ [CallerContract!Next]_<<Mode("caller"), outcome["caller"]>>
         /\ [AgentContract!Next]_<<Mode("agent"), outcome["agent"]>>
<1>1. /\ ContractStep("caller", Mode("caller"), Mode("caller")')
      /\ ContractStep("agent", Mode("agent"), Mode("agent")')
  BY LegImplementsContract DEF Leg
<1>2. [CallerContract!Next]_<<Mode("caller"), outcome["caller"]>>
  BY <1>1 DEF ContractStep, CallerContract!Next, CallerContract!Settle,
     CallerContract!Degrade, CallerContract!Stop
<1>3. [AgentContract!Next]_<<Mode("agent"), outcome["agent"]>>
  BY <1>1 DEF ContractStep, AgentContract!Next, AgentContract!Settle,
     AgentContract!Degrade, AgentContract!Stop
<1> QED BY <1>2, <1>3

\* Both legs implement LegContract (runLeg, recordFailure, recordSuccess).
THEOREM LegsImplementContract == Spec => LegsKeepContract
<1>1. Init => CallerContract!Init /\ AgentContract!Init
  BY DEF Init, CallerContract!Init, AgentContract!Init, Mode, LegRunning, DrainRunning, Leg
<1> QED BY <1>1, ContractSteps, SessionTyped, LifecycleInvariant, DisciplineInvariant, PTL
   DEF Spec, LegsKeepContract, CallerContract!Spec, AgentContract!Spec

-----------------------------------------------------------------------------
(* Raw audio.                                                              *)

\* What RawAudioInOrder says of a leg, given the last frame sent, those held, those
\* buffered and how many were pushed; and that only what was pushed is anywhere.
Ordered(last, held, buffer, n) ==
  /\ Increasing(held) /\ Increasing(buffer) /\ Before(held, buffer)
  /\ \A i \in DOMAIN held : last < held[i] /\ held[i] <= n
  /\ \A i \in DOMAIN buffer : last < buffer[i] /\ buffer[i] <= n
  /\ last <= n

\* A push evicts the oldest frame of a full ring buffer and is itself the latest of all.
LEMMA PushInOrder ==
  ASSUME NEW last \in Nat, NEW held, NEW b \in Seq(Nat), NEW n \in Nat,
         \A i \in DOMAIN held : held[i] \in Nat, Ordered(last, held, b, n)
  PROVE  Ordered(last, held, RingPush(b, n + 1), n + 1)
<1> DEFINE kept == IF Len(b) = AudioBufferFrames THEN Tail(b) ELSE b
<1>1. /\ kept \in Seq(Nat) /\ RingPush(b, n + 1) = Append(kept, n + 1)
      /\ \A i \in DOMAIN kept : kept[i] \in Nat /\ i \in Nat
  <2>1. CASE Len(b) = AudioBufferFrames
    <3>1. b # <<>>
      BY <2>1, SessionConstants
    <3> QED BY <2>1, <3>1 DEF RingPush
  <2>2. CASE Len(b) # AudioBufferFrames
    BY <2>2 DEF RingPush
  <2> QED BY <2>1, <2>2
<1>2. \E d \in 0..1 : \A i \in DOMAIN kept : i + d \in DOMAIN b /\ kept[i] = b[i + d]
  <2>1. CASE Len(b) = AudioBufferFrames
    <3>1. b # <<>>
      BY <2>1, SessionConstants
    <3>2. \A i \in DOMAIN kept : i + 1 \in DOMAIN b /\ kept[i] = b[i + 1]
      BY <2>1, <3>1
    <3> QED BY <3>2
  <2>2. CASE Len(b) # AudioBufferFrames
    <3>1. \A i \in DOMAIN kept : i + 0 \in DOMAIN b /\ kept[i] = b[i + 0]
      BY <2>2
    <3> QED BY <3>1
  <2> QED BY <2>1, <2>2
<1>3. PICK d \in 0..1 : \A i \in DOMAIN kept : i + d \in DOMAIN b /\ kept[i] = b[i + d]
  BY <1>2
<1> HIDE DEF kept
<1>4. /\ Increasing(kept) /\ Before(held, kept)
      /\ \A i \in DOMAIN kept : last < kept[i] /\ kept[i] <= n
  <2>1. \A i, j \in DOMAIN kept : i < j => i + d < j + d
    BY <1>1
  <2> QED BY <1>3, <2>1 DEF Ordered, Increasing, Before
<1> DEFINE r == Append(kept, n + 1)
<1>5. \A i \in DOMAIN r : \/ i \in DOMAIN kept /\ r[i] = kept[i]
                          \/ r[i] = n + 1 /\ \A j \in DOMAIN r : j <= i
  BY <1>1
<1>6. \A i \in DOMAIN r : i \in Nat
  BY <1>1
<1> HIDE DEF r
<1>7. \A i \in DOMAIN r : last < r[i] /\ r[i] <= n + 1
  BY <1>1, <1>4, <1>5 DEF Ordered
<1>8. Increasing(r)
  <2> SUFFICES ASSUME NEW i \in DOMAIN r, NEW j \in DOMAIN r, i < j PROVE r[i] < r[j]
    BY DEF Increasing
  <2>1. i \in DOMAIN kept /\ r[i] = kept[i]
    BY <1>5, <1>6
  <2>2. CASE j \in DOMAIN kept /\ r[j] = kept[j]
    BY <1>4, <2>1, <2>2 DEF Increasing
  <2>3. CASE r[j] = n + 1
    BY <1>1, <1>4, <2>1, <2>3
  <2> QED BY <1>5, <2>2, <2>3
<1>9. Before(held, r)
  BY <1>4, <1>5 DEF Before, Ordered
<1>10. \A i \in DOMAIN held : last < held[i] /\ held[i] <= n + 1
  BY DEF Ordered
<1>11. last <= n + 1
  BY DEF Ordered
<1>12. RingPush(b, n + 1) = r
  BY <1>1 DEF r
<1> QED BY <1>7, <1>8, <1>9, <1>10, <1>11, <1>12 DEF Ordered

\* The whole buffer is taken in hand.
LEMMA DrainInOrder ==
  ASSUME NEW last, NEW held, NEW b, NEW n, Ordered(last, held, b, n)
  PROVE  Ordered(last, b, <<>>, n)
BY DEF Ordered, Increasing, Before

\* What is in hand is dropped.
LEMMA DropInOrder ==
  ASSUME NEW last, NEW held, NEW b, NEW n, Ordered(last, held, b, n), NEW g, DOMAIN g = {}
  PROVE  Ordered(last, g, b, n)
BY DEF Ordered, Increasing, Before

\* What a place of two sequences put together holds.
LEMMA Joined ==
  ASSUME NEW S, NEW a \in Seq(S), NEW b \in Seq(S)
  PROVE  /\ a \o b \in Seq(S) /\ Len(a \o b) = Len(a) + Len(b)
         /\ \A i \in 1..Len(a \o b) : (a \o b)[i] = IF i <= Len(a) THEN a[i] ELSE b[i - Len(a)]
OBVIOUS

\* PassthroughChunks keeps the frames it is given in their order.
LEMMA PassthroughInOrder ==
  ASSUME NEW last, NEW fs \in Seq(Nat), NEW b, NEW n, Ordered(last, fs, b, n)
  PROVE  Ordered(last, RawOf(PassthroughChunks(fs)), b, n)
<1> DEFINE p == PassthroughChunks(fs)
           lead == IF DegradeToneEnabled THEN <<Tone>> ELSE <<>>
           raws == [i \in 1..Len(fs) |-> RawChunk(fs[i])]
           cs == lead \o raws
<1>1. /\ raws \in Seq(Chunk) /\ Len(raws) = Len(fs)
      /\ \A i \in 1..Len(raws) : raws[i].frame = fs[i]
  BY DEF RawChunk, Chunk
<1>2. Tone \in Chunk /\ Tone.kind = "tone" /\ Marker.kind = "marker"
  BY DEF Tone, Marker, Chunk
<1>0. lead \in Seq(Chunk) /\ Len(lead) \in 0..1 /\ \A i \in 1..Len(lead) : lead[i].kind = "tone"
  <2>1. CASE DegradeToneEnabled
    BY <1>2, <2>1
  <2>2. CASE ~DegradeToneEnabled
    BY <2>2
  <2> QED BY <2>1, <2>2
<1>3. \A i \in DOMAIN cs : /\ i \in Nat /\ cs[i] \in Chunk
                           /\ cs[i].kind = "raw" =>
                                i - Len(lead) \in 1..Len(fs) /\ cs[i].frame = fs[i - Len(lead)]
  <2> HIDE DEF lead, raws
  <2>1. lead \in Seq(Chunk) /\ raws \in Seq(Chunk)
    BY <1>0, <1>1
  <2>2. cs \in Seq(Chunk) /\ Len(cs) = Len(lead) + Len(raws)
        /\ \A i \in 1..Len(cs) : cs[i] = IF i <= Len(lead) THEN lead[i] ELSE raws[i - Len(lead)]
    BY <2>1, Joined
  <2>3. ASSUME NEW i \in 1..Len(cs), cs[i].kind = "raw"
        PROVE  i - Len(lead) \in 1..Len(fs) /\ cs[i].frame = fs[i - Len(lead)]
    <3>1. ~(i <= Len(lead))
      BY <1>0, <2>2, <2>3
    <3>2. i - Len(lead) \in 1..Len(raws) /\ cs[i] = raws[i - Len(lead)]
      BY <1>0, <1>1, <2>2, <3>1
    <3> QED BY <1>1, <3>2
  <2> QED BY <2>2, <2>3
<1>4. cs \in Seq(Chunk)
  <2> HIDE DEF lead, raws
  <2> QED BY <1>0, <1>1
<1>5. p = IF cs = <<>> THEN <<Marker>> ELSE [i \in 1..Len(cs) |-> [cs[i] EXCEPT !.final = (i = Len(cs))]]
  BY DEF PassthroughChunks
<1> HIDE DEF p, cs, lead
<1>6. \A i \in DOMAIN p : p[i].kind = "raw" =>
         i \in DOMAIN cs /\ cs[i].kind = "raw" /\ p[i].frame = cs[i].frame
  <2>1. CASE cs = <<>>
    BY <1>2, <1>5, <2>1
  <2>2. CASE cs # <<>>
    <3> SUFFICES ASSUME NEW i \in DOMAIN p, p[i].kind = "raw"
                 PROVE  i \in DOMAIN cs /\ cs[i].kind = "raw" /\ p[i].frame = cs[i].frame
      OBVIOUS
    <3>1. i \in 1..Len(cs) /\ p[i] = [cs[i] EXCEPT !.final = (i = Len(cs))]
      BY <1>5, <2>2
    <3>2. cs[i] \in Chunk /\ i \in DOMAIN cs
      BY <1>4, <3>1
    <3>3. \A c \in Chunk : \A f : /\ [c EXCEPT !.final = f].kind = c.kind
                                   /\ [c EXCEPT !.final = f].frame = c.frame
      BY DEF Chunk
    <3> QED BY <3>1, <3>2, <3>3
  <2> QED BY <2>1, <2>2
<1> DEFINE f == RawOf(p)
           d == Len(lead)
<1>7. \A i \in DOMAIN f : i \in Nat /\ i - d \in DOMAIN fs /\ f[i] = fs[i - d]
  BY <1>3, <1>6 DEF RawOf
<1>8. d \in Nat
  BY <1>0
<1> HIDE DEF f, d
<1>9. Increasing(f)
  <2> SUFFICES ASSUME NEW i \in DOMAIN f, NEW j \in DOMAIN f, i < j PROVE f[i] < f[j]
    BY DEF Increasing
  <2>1. i - d < j - d
    BY <1>7, <1>8
  <2> QED BY <1>7, <2>1 DEF Ordered, Increasing
<1>10. Before(f, b) /\ \A i \in DOMAIN f : last < f[i] /\ f[i] <= n
  BY <1>7 DEF Ordered, Before
<1> QED BY <1>9, <1>10 DEF Ordered, f, p

\* One chunk of what is in hand is sent.
LEMMA SendInOrder ==
  ASSUME NEW last \in Nat, NEW p \in Seq(Chunk), p # <<>>, NEW b \in Seq(Nat), NEW n \in Nat,
         Ordered(last, RawOf(p), b, n)
  PROVE  Ordered(IF Head(p).kind = "raw" THEN Head(p).frame ELSE last, RawOf(Tail(p)), b, n)
<1> DEFINE t == Tail(p)
           f == RawOf(p)
           g == RawOf(t)
           next == IF Head(p).kind = "raw" THEN Head(p).frame ELSE last
<1>1. /\ \A i \in DOMAIN t : i \in Nat \ {0} /\ i + 1 \in DOMAIN p /\ t[i] = p[i + 1]
      /\ Head(p) = p[1] /\ 1 \in DOMAIN p /\ p[1] \in Chunk
  OBVIOUS
<1>2. \A i \in DOMAIN g : i \in Nat \ {0} /\ i + 1 \in DOMAIN f /\ g[i] = f[i + 1]
  BY <1>1 DEF RawOf
<1>3. next = last \/ (1 \in DOMAIN f /\ next = f[1])
  BY <1>1 DEF RawOf
<1>4. \A i \in DOMAIN b : b[i] \in Nat
  OBVIOUS
<1> HIDE DEF f, g, next, t
<1>5. Increasing(g)
  <2> SUFFICES ASSUME NEW i \in DOMAIN g, NEW j \in DOMAIN g, i < j PROVE g[i] < g[j]
    BY DEF Increasing
  <2>1. i + 1 < j + 1
    BY <1>2
  <2> QED BY <1>2, <2>1 DEF Ordered, Increasing, f
<1>6. Before(g, b)
  BY <1>2 DEF Ordered, Before, f
<1>7. \A i \in DOMAIN g : next < g[i] /\ g[i] <= n
  <2> SUFFICES ASSUME NEW i \in DOMAIN g PROVE next < g[i] /\ g[i] <= n
    OBVIOUS
  <2>1. 1 < i + 1 /\ g[i] = f[i + 1] /\ i + 1 \in DOMAIN f
    BY <1>2
  <2>2. last < f[i + 1] /\ f[i + 1] <= n
    BY <2>1 DEF Ordered, f
  <2>3. 1 \in DOMAIN f => f[1] < f[i + 1]
    BY <2>1 DEF Ordered, Increasing, f
  <2> QED BY <1>3, <2>1, <2>2, <2>3
<1>8. (\A i \in DOMAIN b : next < b[i] /\ b[i] <= n) /\ next <= n
  BY <1>3 DEF Ordered, Before, f
<1> QED BY <1>5, <1>6, <1>7, <1>8 DEF Ordered, g, next, t

\* The raw audio of a leg is in order, nothing is left of a passthrough once the leg
\* is ready for the next utterance, and what is synthesized is not raw audio.
RawLeg(l) ==
  /\ Ordered(lastRaw[l], Held(l), audio[l], pushed[l])
  /\ pc[l] \in Translating \cup {"select"} => pending[l] = <<>>
  /\ \A i \in DOMAIN ttsBuf[l] : ttsBuf[l][i].kind = "tts"

RawVars(l) == <<lastRaw[l], pc[l], frames[l], pending[l], audio[l], pushed[l], ttsBuf[l]>>

\* A leg that a step leaves alone.
LEMMA RawAlone ==
  ASSUME NEW l \in Leg, RawLeg(l), UNCHANGED RawVars(l)
  PROVE  RawLeg(l)'
<1>1. Held(l)' = Held(l)
  BY DEF RawVars, Held
<1> QED BY <1>1 DEF RawVars, RawLeg, Ordered, Increasing, Before

\* The goroutine goes on with what it has in hand, or gives it up.
LEMMA RawMoves ==
  ASSUME NEW l \in Leg, RawLeg(l),
         UNCHANGED <<lastRaw[l], frames[l], pending[l], audio[l], pushed[l]>>,
         \A i \in DOMAIN ttsBuf'[l] : ttsBuf'[l][i].kind = "tts",
         \/ pc[l] \in Translating /\ pc'[l] \in Translating \cup {"exited"}
         \/ pc[l] \notin Translating /\ pc'[l] \notin Translating \cup {"select"}
  PROVE  RawLeg(l)'
<1>1. CASE Held(l)' = Held(l)
  BY <1>1 DEF RawLeg, Ordered, Increasing, Before, Translating
<1>2. CASE Held(l)' # Held(l)
  <2>1. pending[l] = <<>> /\ pc'[l] \notin Translating
    BY <1>2 DEF RawLeg, Held
  <2>2. DOMAIN RawOf(<<>>) = {} /\ Held(l)' = RawOf(<<>>)
    BY <2>1 DEF RawOf, Held
  <2>3. Ordered(lastRaw[l], RawOf(<<>>), audio[l], pushed[l])
    BY <2>2, DropInOrder DEF RawLeg
  <2> QED BY <2>1, <2>2, <2>3
    DEF RawLeg, Ordered, Increasing, Before
<1> QED BY <1>1, <1>2

\* The utterance is finished: nothing is in hand.
LEMMA RawResolved ==
  ASSUME PcTyped, TtsTyped, NEW l \in Leg, RawLeg(l), NEW o, Resolve(l, o), pending[l] = <<>>,
         UNCHANGED <<lastRaw[l], pending[l], audio[l], pushed[l]>>,
         ttsBuf'[l] = ttsBuf[l] \/ ttsBuf'[l] = <<>>
  PROVE  RawLeg(l)'
<1>1. pc'[l] = "select" /\ Held(l)' = RawOf(<<>>) /\ DOMAIN RawOf(<<>>) = {}
  BY DEF Resolve, PcTyped, Held, Translating, RawOf
<1>2. Ordered(lastRaw[l], RawOf(<<>>), audio[l], pushed[l])
  BY <1>1, DropInOrder DEF RawLeg
<1> QED BY <1>1, <1>2 DEF RawLeg, Ordered, Increasing, Before

\* What is in hand is to be passed through (StartPassthrough, emitPassthrough).
LEMMA RawPassed ==
  ASSUME NEW l \in Leg, RawLeg(l), NEW fs \in Seq(Nat), NEW b,
         Ordered(lastRaw[l], fs, b, pushed[l]),
         pending'[l] = PassthroughChunks(fs), audio'[l] = b,
         UNCHANGED <<lastRaw[l], pushed[l]>>,
         pc'[l] \notin Translating \cup {"select"},
         ttsBuf'[l] = ttsBuf[l] \/ ttsBuf'[l] = <<>>
  PROVE  RawLeg(l)'
<1>1. Held(l)' = RawOf(PassthroughChunks(fs))
  BY DEF Held
<1>2. Ordered(lastRaw[l], RawOf(PassthroughChunks(fs)), b, pushed[l])
  BY PassthroughInOrder
<1> QED BY <1>1, <1>2 DEF RawLeg, Ordered, Increasing, Before

\* A chunk of the passthrough is sent.
LEMMA RawForwarded ==
  ASSUME TypeOK, NEW l \in Leg, RawLeg(l), pc[l] \notin Translating \cup {"select"},
         ForwardPending(l), UNCHANGED <<pc, audio, pushed, ttsBuf>>
  PROVE  RawLeg(l)'
<1>1. /\ pending[l] # <<>> /\ pending[l] \in Seq(Chunk) /\ pending'[l] = Tail(pending[l])
      /\ lastRaw'[l] = IF Head(pending[l]).kind = "raw" THEN Head(pending[l]).frame ELSE lastRaw[l]
      /\ lastRaw[l] \in Nat /\ audio[l] \in Seq(Nat) /\ pushed[l] \in Nat
  BY DEF TypeOK, PendingTyped, OutTyped, IngressTyped, ForwardPending, Emit
<1>2. Held(l) = RawOf(pending[l]) /\ Held(l)' = RawOf(Tail(pending[l]))
  BY <1>1 DEF Held
<1>3. Ordered(lastRaw'[l], RawOf(Tail(pending[l])), audio[l], pushed[l])
  BY <1>1, <1>2, SendInOrder DEF RawLeg
<1> QED BY <1>2, <1>3 DEF RawLeg, Ordered, Increasing, Before

\* What is in hand is dropped.
LEMMA RawDropped ==
  ASSUME NEW l \in Leg, RawLeg(l), pending'[l] = <<>>, pc'[l] \notin Translating,
         UNCHANGED <<lastRaw[l], audio[l], pushed[l], ttsBuf[l]>>
  PROVE  RawLeg(l)'
<1>1. Held(l)' = RawOf(<<>>) /\ DOMAIN RawOf(<<>>) = {}
  BY DEF Held, RawOf
<1>2. Ordered(lastRaw[l], RawOf(<<>>), audio[l], pushed[l])
  BY <1>1, DropInOrder DEF RawLeg
<1> QED BY <1>1, <1>2 DEF RawLeg, Ordered, Increasing, Before

\* It holds throughout: what each kind of step does to a leg is one of the lemmas above.
LEMMA RawInvariant == Spec => []\A l \in Leg : RawLeg(l)
<1>1. Init => \A l \in Leg : RawLeg(l)
  <2> SUFFICES ASSUME Init, NEW l \in Leg PROVE RawLeg(l)
    OBVIOUS
  <2>1. /\ lastRaw[l] = 0 /\ pc[l] = "select" /\ pending[l] = <<>> /\ audio[l] = <<>>
        /\ pushed[l] = 0 /\ ttsBuf[l] = <<>>
    BY DEF Init
  <2> QED BY <2>1 DEF RawLeg, Ordered, Increasing, Before, Held, RawOf, Translating
<1>2. TypeOK /\ Lifecycle /\ (\A l \in Leg : RawLeg(l)) /\ [Next]_vars => (\A l \in Leg : RawLeg(l))'
  <2> SUFFICES ASSUME TypeOK, Lifecycle, \A l \in Leg : RawLeg(l), [Next]_vars, NEW k \in Leg
               PROVE  RawLeg(k)'
    OBVIOUS
  <2>0. IngressTyped /\ PcTyped /\ WorkTyped /\ PendingTyped /\ TtsTyped /\ OutTyped
    BY DEF TypeOK
  <2> USE DEF ingressVars, workVars, ttsVars, outVars
  <2>1. CASE UNCHANGED <<lastRaw, pc, frames, pending, audio, pushed, ttsBuf>>
    BY <2>1, RawAlone DEF RawVars
  <2>2. ASSUME NEW l \in Leg,
               \/ PushASR(l) \/ AsrPartial(l) \/ AsrFinal(l) \/ AsrChannelCloses(l)
               \/ TakePartial(l) \/ TtsDeadline(l) \/ TtsVendorDrops(l) \/ TtsCutOff(l)
               \/ Listen(l) \/ DrainFlushed(l) \/ DrainReturns(l) \/ DrainCheck(l)
        PROVE  RawLeg(k)'
    BY <2>1, <2>2 DEF PushASR, AsrPartial, AsrFinal, AsrChannelCloses, TakePartial, TtsDeadline,
       TtsVendorDrops, TtsCutOff, Listen, DrainFlushed, DrainReturns, DrainCheck
  <2>3. CASE CloseBegin \/ Close \/ ParentCancels \/ UNCHANGED vars
    BY <2>1, <2>3 DEF CloseBegin, Close, StreamReturns, CloseProceeds, CloseStream, StreamsClosed,
       CloseWaited, CloseBackstop, CloseCancel, CloseOuts, ParentCancels, vars
  <2>4. ASSUME NEW l \in Leg, PushBuffer(l) PROVE RawLeg(k)'
    <3>1. CASE k = l
      <4>1. /\ audio'[l] = RingPush(audio[l], pushed[l] + 1) /\ pushed'[l] = pushed[l] + 1
            /\ UNCHANGED <<lastRaw, pc, frames, pending, ttsBuf>>
            /\ lastRaw[l] \in Nat /\ audio[l] \in Seq(Nat) /\ pushed[l] \in Nat
        BY <2>0, <2>4 DEF PushBuffer, IngressTyped, OutTyped
      <4>2. Held(l)' = Held(l) /\ \A i \in DOMAIN Held(l) : Held(l)[i] \in Nat
        <5>1. \A i \in DOMAIN frames[l] : frames[l][i] \in Nat
          BY <2>0 DEF WorkTyped
        <5>2. \A i \in DOMAIN pending[l] : pending[l][i].frame \in Nat
          <6>1. \A i \in DOMAIN pending[l] : pending[l][i] \in Chunk
            BY <2>0 DEF PendingTyped
          <6>2. \A c \in Chunk : c.frame \in Nat
            BY DEF Chunk
          <6> QED BY <6>1, <6>2
        <5>3. \A i \in DOMAIN RawOf(pending[l]) : RawOf(pending[l])[i] \in Nat
          BY <5>2 DEF RawOf
        <5>4. Held(l)' = Held(l)
          BY <4>1 DEF Held
        <5> QED BY <5>1, <5>3, <5>4 DEF Held
      <4>3. Ordered(lastRaw[l], Held(l), RingPush(audio[l], pushed[l] + 1), pushed[l] + 1)
        BY <4>1, <4>2, PushInOrder DEF RawLeg
      <4> QED BY <3>1, <4>1, <4>2, <4>3 DEF RawLeg, Ordered, Increasing, Before
    <3>2. CASE k # l
      BY <2>0, <2>4, <3>2, RawAlone DEF PushBuffer, RawVars, IngressTyped
    <3> QED BY <3>1, <3>2
  <2>5. ASSUME NEW l \in Leg, TtsProduces(l) PROVE RawLeg(k)'
    <3>1. CASE k = l
      <4>1. /\ UNCHANGED <<lastRaw, pc, frames, pending, audio, pushed>>
            /\ \A i \in DOMAIN ttsBuf'[l] : ttsBuf'[l][i].kind = "tts"
        BY <2>0, <2>5 DEF TtsProduces, TtsTyped, TtsChunk
      <4>2. Held(l)' = Held(l)
        BY <4>1 DEF Held
      <4> QED BY <3>1, <4>1, <4>2 DEF RawLeg, Ordered, Increasing, Before
    <3>2. CASE k # l
      BY <2>0, <2>5, <3>2, RawAlone DEF TtsProduces, RawVars, TtsTyped
    <3> QED BY <3>1, <3>2
  <2>6. ASSUME NEW l \in Leg,
               \/ LegAsrShutdown(l) \/ LegAbort(l) \/ LegReturn(l) \/ SpawnDrain(l)
               \/ SynthesizeOk(l) \/ FirstChunk(l)
        PROVE  RawLeg(k)'
    <3>1. UNCHANGED <<lastRaw, frames, pending, audio, pushed>>
      BY <2>6 DEF LegAsrShutdown, LegAbort, LegReturn, SpawnDrain, SynthesizeOk, FirstChunk
    <3>2. ttsBuf'[l] = ttsBuf[l] \/ ttsBuf'[l] = <<>>
      BY <2>0, <2>6 DEF LegAsrShutdown, LegAbort, LegReturn, SpawnDrain, SynthesizeOk, FirstChunk,
         TtsTyped
    <3>3. \/ pc[l] \in Translating /\ pc'[l] \in Translating \cup {"exited"}
          \/ pc[l] \notin Translating /\ pc'[l] \notin Translating \cup {"select"}
      BY <2>0, <2>6 DEF LegAsrShutdown, LegAbort, LegReturn, SpawnDrain, SynthesizeOk, FirstChunk,
         LegExit, PcTyped, Translating
    <3>4. \A i \in DOMAIN ttsBuf'[l] : ttsBuf'[l][i].kind = "tts"
      BY <3>2 DEF RawLeg
    <3>5. CASE k = l
      BY <3>1, <3>3, <3>4, <3>5, RawMoves
    <3>6. CASE k # l
      <4>1. ttsBuf'[k] = ttsBuf[k] /\ pc'[k] = pc[k]
        BY <2>0, <2>6, <3>6 DEF LegAsrShutdown, LegAbort, LegReturn, SpawnDrain, SynthesizeOk,
           FirstChunk, LegExit, PcTyped, TtsTyped
      <4> QED BY <3>1, <4>1, RawAlone DEF RawVars
    <3> QED BY <3>5, <3>6
  <2>7. ASSUME NEW l \in Leg, NEW o, Resolve(l, o),
               UNCHANGED <<lastRaw, pending, audio, pushed>>, pending[l] = <<>>,
               ttsBuf'[l] = ttsBuf[l] \/ ttsBuf'[l] = <<>>,
               \A m \in Leg \ {l} : ttsBuf'[m] = ttsBuf[m]
        PROVE  RawLeg(k)'
    <3>1. CASE k = l
      BY <2>0, <2>7, <3>1, RawResolved
    <3>2. CASE k # l
      BY <2>0, <2>7, <3>2, RawAlone DEF Resolve, RawVars, PcTyped, WorkTyped
    <3> QED BY <3>1, <3>2
  <2>8. ASSUME NEW l \in Leg, TranslateOk(l) PROVE RawLeg(k)'
    <3>0. pending[l] = <<>>
      BY <2>8 DEF TranslateOk, RawLeg, Translating
    <3>1. CASE Resolve(l, "emptyText")
      BY <2>7, <2>8, <3>0, <3>1 DEF TranslateOk
    <3>2. CASE pc' = [pc EXCEPT ![l] = "synthesize"] /\ UNCHANGED <<workVars, outcome>>
      <4>1. CASE k = l
        BY <2>0, <2>8, <3>2, <4>1, RawMoves DEF TranslateOk, PcTyped, Translating, RawLeg
      <4>2. CASE k # l
        BY <2>0, <2>8, <3>2, <4>2, RawAlone DEF TranslateOk, PcTyped, RawVars
      <4> QED BY <4>1, <4>2
    <3> QED BY <2>8, <3>1, <3>2 DEF TranslateOk
  <2>9. ASSUME NEW l \in Leg, PassthroughDone(l) PROVE RawLeg(k)'
    BY <2>7, <2>9 DEF PassthroughDone
  <2>10. ASSUME NEW l \in Leg, SynthesisCompleted(l) PROVE RawLeg(k)'
    <3>1. pending[l] = <<>>
      BY <2>10 DEF SynthesisCompleted, RawLeg, Translating
    <3>2. ttsBuf'[l] = <<>> /\ \A m \in Leg \ {l} : ttsBuf'[m] = ttsBuf[m]
      BY <2>0, <2>10 DEF SynthesisCompleted, ReleaseSynthesis, TtsTyped
    <3> QED BY <2>7, <2>10, <3>1, <3>2 DEF SynthesisCompleted
  <2>11. ASSUME NEW l \in Leg, SendFirstChunk(l) \/ StreamChunk(l) PROVE RawLeg(k)'
    <3>0. pc[l] \in Translating /\ ttsBuf[l] # <<>> /\ Emit(l, Head(ttsBuf[l]))
          /\ UNCHANGED <<pending, audio, pushed>> /\ pending[l] = <<>>
      BY <2>11 DEF SendFirstChunk, StreamChunk, Translating, RawLeg
    <3>1. Head(ttsBuf[l]).kind = "tts"
      <4>1. Head(ttsBuf[l]) = ttsBuf[l][1] /\ 1 \in DOMAIN ttsBuf[l]
        BY <2>0, <3>0 DEF TtsTyped
      <4> QED BY <4>1 DEF RawLeg
    <3>2. UNCHANGED lastRaw
      BY <2>0, <3>0, <3>1 DEF Emit, OutTyped
    <3>3. CASE Resolve(l, "translated") /\ ReleaseSynthesis(l)
      <4>1. ttsBuf'[l] = <<>> /\ \A m \in Leg \ {l} : ttsBuf'[m] = ttsBuf[m]
        BY <2>0, <3>3 DEF ReleaseSynthesis, TtsTyped
      <4> QED BY <2>7, <3>0, <3>2, <3>3, <4>1
    <3>4. CASE /\ ttsBuf' = [ttsBuf EXCEPT ![l] = Tail(ttsBuf[l])] /\ UNCHANGED workVars
               /\ pc' = [pc EXCEPT ![l] = "stream"]
      <4>1. CASE k = l
        <5>1. \A i \in DOMAIN ttsBuf'[l] : ttsBuf'[l][i].kind = "tts"
          <6>1. \A i \in DOMAIN Tail(ttsBuf[l]) :
                  i + 1 \in DOMAIN ttsBuf[l] /\ Tail(ttsBuf[l])[i] = ttsBuf[l][i + 1]
            BY <2>0, <3>0 DEF TtsTyped
          <6>2. ttsBuf'[l] = Tail(ttsBuf[l])
            BY <2>0, <3>4 DEF TtsTyped
          <6> QED BY <6>1, <6>2 DEF RawLeg
        <5>2. pc'[l] \in Translating
          BY <2>0, <3>4 DEF PcTyped, Translating
        <5> QED BY <3>0, <3>2, <3>4, <4>1, <5>1, <5>2, RawMoves
      <4>2. CASE k # l
        BY <2>0, <3>0, <3>2, <3>4, <4>2, RawAlone DEF PcTyped, TtsTyped, RawVars
      <4> QED BY <4>1, <4>2
    <3>5. \/ Resolve(l, "translated") /\ ReleaseSynthesis(l)
          \/ /\ ttsBuf' = [ttsBuf EXCEPT ![l] = Tail(ttsBuf[l])] /\ UNCHANGED workVars
             /\ pc' = [pc EXCEPT ![l] = "stream"]
      <4>1. CASE SendFirstChunk(l)
        BY <4>1 DEF SendFirstChunk
      <4>2. CASE StreamChunk(l)
        <5>1. pc = [pc EXCEPT ![l] = "stream"]
          BY <2>0, <4>2 DEF StreamChunk, PcTyped
        <5> QED BY <4>2, <5>1 DEF StreamChunk
      <4> QED BY <2>11, <4>1, <4>2
    <3> QED BY <3>3, <3>4, <3>5
  <2>12. ASSUME NEW l \in Leg, NEW fs \in Seq(Nat), NEW b,
                Ordered(lastRaw[l], fs, b, pushed[l]), audio'[l] = b,
                pending' = [pending EXCEPT ![l] = PassthroughChunks(fs)],
                pc'[l] \notin Translating \cup {"select"},
                ttsBuf'[l] = ttsBuf[l] \/ ttsBuf'[l] = <<>>, UNCHANGED <<lastRaw, pushed>>,
                \A m \in Leg \ {l} : /\ pc'[m] = pc[m] /\ frames'[m] = frames[m]
                                     /\ audio'[m] = audio[m] /\ ttsBuf'[m] = ttsBuf[m]
         PROVE  RawLeg(k)'
    <3>1. CASE k = l
      <4>1. pending'[l] = PassthroughChunks(fs)
        BY <2>0, <2>12 DEF PendingTyped
      <4> QED BY <2>12, <3>1, <4>1, RawPassed
    <3>2. CASE k # l
      BY <2>0, <2>12, <3>2, RawAlone DEF PendingTyped, RawVars
    <3> QED BY <3>1, <3>2
  <2>13. ASSUME NEW l \in Leg, TakeFinal(l) PROVE RawLeg(k)'
    <3>1. /\ Ordered(lastRaw[l], audio[l], <<>>, pushed[l]) /\ audio[l] \in Seq(Nat)
          /\ audio'[l] = <<>> /\ frames'[l] = audio[l] /\ UNCHANGED <<lastRaw, pushed, ttsBuf>>
          /\ \A m \in Leg \ {l} : frames'[m] = frames[m] /\ audio'[m] = audio[m]
      BY <2>0, <2>13, DrainInOrder DEF TakeFinal, Drain, RawLeg, IngressTyped, WorkTyped
    <3>2. CASE pc' = [pc EXCEPT ![l] = "translate"] /\ UNCHANGED pending
      <4>1. CASE k = l
        <5>1. pc'[l] \in Translating /\ pending'[l] = <<>>
          BY <2>0, <2>13, <3>2 DEF TakeFinal, PcTyped, Translating, RawLeg
        <5>2. Held(l)' = audio[l]
          BY <3>1, <5>1 DEF Held
        <5> QED BY <3>1, <4>1, <5>1, <5>2 DEF RawLeg, Ordered, Increasing, Before
      <4>2. CASE k # l
        BY <2>0, <3>1, <3>2, <4>2, RawAlone DEF PcTyped, RawVars
      <4> QED BY <4>1, <4>2
    <3>3. ASSUME NEW v, StartPassthrough(l, audio[l], v) PROVE RawLeg(k)'
      <4>1. pc'[l] = "forward" /\ \A m \in Leg \ {l} : pc'[m] = pc[m]
        BY <2>0, <3>3 DEF StartPassthrough, PcTyped
      <4>2. pc'[l] \notin Translating \cup {"select"}
        BY <4>1 DEF Translating
      <4> QED BY <2>12, <3>1, <3>3, <4>1, <4>2 DEF StartPassthrough
    <3> QED BY <2>13, <3>2, <3>3 DEF TakeFinal
  <2>14. ASSUME NEW l \in Leg, LegAsrDied(l) PROVE RawLeg(k)'
    <3>1. /\ Ordered(lastRaw[l], audio[l], <<>>, pushed[l]) /\ audio[l] \in Seq(Nat)
          /\ audio'[l] = <<>> /\ pc'[l] = "lastWords" /\ UNCHANGED <<lastRaw, pushed, ttsBuf, frames>>
          /\ \A m \in Leg \ {l} : pc'[m] = pc[m] /\ audio'[m] = audio[m]
      BY <2>0, <2>14, DrainInOrder DEF LegAsrDied, Drain, RawLeg, IngressTyped, PcTyped
    <3>2. pc'[l] \notin Translating \cup {"select"}
      BY <3>1 DEF Translating
    <3>3. pending' = [pending EXCEPT ![l] = PassthroughChunks(audio[l])]
      BY <2>14 DEF LegAsrDied
    <3> QED BY <2>12, <3>1, <3>2, <3>3
  <2>15. ASSUME NEW l \in Leg, TranslateFails(l) \/ SynthesizeFails(l) \/ SynthesisStalls(l)
         PROVE  RawLeg(k)'
    <3>1. /\ pc[l] \in Translating /\ UNCHANGED <<lastRaw, pushed, audio, frames>>
          /\ pending' = [pending EXCEPT ![l] = PassthroughChunks(frames[l])]
          /\ pc' = [pc EXCEPT ![l] = "forward"]
      BY <2>15 DEF TranslateFails, SynthesizeFails, SynthesisStalls, StartPassthrough, Translating
    <3>2. Ordered(lastRaw[l], frames[l], audio[l], pushed[l]) /\ frames[l] \in Seq(Nat)
      BY <2>0, <3>1 DEF RawLeg, Held, WorkTyped
    <3>3. /\ ttsBuf'[l] = ttsBuf[l] \/ ttsBuf'[l] = <<>>
          /\ \A m \in Leg \ {l} : ttsBuf'[m] = ttsBuf[m]
      BY <2>0, <2>15 DEF TranslateFails, SynthesizeFails, SynthesisStalls, ReleaseSynthesis, TtsTyped
    <3>4. pc'[l] \notin Translating \cup {"select"} /\ \A m \in Leg \ {l} : pc'[m] = pc[m]
      BY <2>0, <3>1 DEF PcTyped, Translating
    <3> QED BY <2>12, <3>1, <3>2, <3>3, <3>4
  <2>16. ASSUME NEW l \in Leg, ForwardChunk(l) \/ DrainForward(l) PROVE RawLeg(k)'
    <3>1. ForwardPending(l) /\ UNCHANGED <<pc, frames, audio, pushed, ttsBuf>>
      BY <2>16 DEF ForwardChunk, DrainForward
    <3>2. pc[l] \notin Translating \cup {"select"}
      BY <2>16 DEF ForwardChunk, DrainForward, Lifecycle, Translating
    <3>3. CASE k = l
      BY <3>1, <3>2, <3>3, RawForwarded
    <3>4. CASE k # l
      BY <2>0, <3>1, <3>4, RawAlone DEF ForwardPending, Emit, PendingTyped, OutTyped, RawVars
    <3> QED BY <3>3, <3>4
  <2>17. ASSUME NEW l \in Leg, LastWordsDone(l) PROVE RawLeg(k)'
    <3>1. CASE k = l
      <4>1. pc'[l] = "spawn" /\ pending'[l] = <<>>
        BY <2>0, <2>17 DEF LastWordsDone, PcTyped, PendingTyped
      <4> QED BY <2>17, <3>1, <4>1, RawDropped DEF LastWordsDone, Translating
    <3>2. CASE k # l
      BY <2>0, <2>17, <3>2, RawAlone DEF LastWordsDone, PcTyped, PendingTyped, RawVars
    <3> QED BY <3>1, <3>2
  <2>18. ASSUME NEW l \in Leg, DrainTick(l) \/ DrainCtxDone(l) PROVE RawLeg(k)'
    <3>1. /\ UNCHANGED <<lastRaw, pc, frames, pushed, ttsBuf>> /\ Drain(l)
          /\ pending' = [pending EXCEPT ![l] =
                           IF audio[l] = <<>> THEN <<>> ELSE PassthroughChunks(audio[l])]
      BY <2>18 DEF DrainTick, DrainCtxDone, Flush
    <3>2. pc[l] \notin Translating \cup {"select"}
      BY <2>18 DEF DrainTick, DrainCtxDone, Lifecycle, Translating
    <3>3. audio'[l] = <<>> /\ \A m \in Leg \ {l} : audio'[m] = audio[m]
      BY <2>0, <3>1 DEF Drain, IngressTyped
    <3>4. CASE audio[l] = <<>> /\ k = l
      <4>1. pending'[l] = <<>>
        BY <2>0, <3>1, <3>4 DEF PendingTyped
      <4> QED BY <3>1, <3>2, <3>3, <3>4, <4>1, RawDropped
    <3>5. CASE audio[l] = <<>> /\ k # l
      BY <2>0, <3>1, <3>3, <3>5, RawAlone DEF PendingTyped, RawVars
    <3>6. CASE audio[l] # <<>>
      <4>1. Ordered(lastRaw[l], audio[l], <<>>, pushed[l]) /\ audio[l] \in Seq(Nat)
        BY <2>0, DrainInOrder DEF RawLeg, IngressTyped
      <4> QED BY <2>12, <3>1, <3>2, <3>3, <3>6, <4>1
    <3> QED BY <3>4, <3>5, <3>6
  <2> QED BY <2>2, <2>3, <2>4, <2>5, <2>6, <2>8, <2>9, <2>10, <2>11, <2>13, <2>14, <2>15, <2>16,
     <2>17, <2>18 DEF Next, RunLeg, DrainDeadLeg, Synthesis
<1> QED BY <1>1, <1>2, SessionTyped, LifecycleInvariant, PTL DEF Spec

\* No frame of raw audio is sent twice or out of order, whoever has it in hand: the ring
\* buffer, the utterance, the passthrough of runLeg or of drainDeadLeg (session.go,
\* emitPassthrough and flushDeadLegAudio; fallback.go, audioRingBuffer).
THEOREM RawAudioOnceInOrder == Spec => []RawAudioInOrder
<1>1. (\A l \in Leg : RawLeg(l)) => RawAudioInOrder
  <2> SUFFICES ASSUME NEW l \in Leg, RawLeg(l)
               PROVE  /\ Increasing(Held(l)) /\ Increasing(audio[l]) /\ Before(Held(l), audio[l])
                      /\ Before(<<lastRaw[l]>>, Held(l)) /\ Before(<<lastRaw[l]>>, audio[l])
    BY DEF RawAudioInOrder
  <2> QED BY DEF RawLeg, Ordered, Before
<1> QED BY <1>1, RawInvariant, PTL

-----------------------------------------------------------------------------
(* Hangup.                                                                 *)

\* The final transcripts among those in the channel.
Waiting(s) == {i \in DOMAIN s : s[i].kind # "partial"}
Weight(t) == IF t.kind = "partial" THEN 0 ELSE 1

\* There are finitely many transcripts in a channel.
LEMMA WaitingIsFinite ==
  ASSUME NEW s \in Seq(Transcript)
  PROVE  IsFiniteSet(Waiting(s)) /\ Cardinality(Waiting(s)) \in Nat
<1>1. IsFiniteSet(1..Len(s))
  BY FS_Interval
<1>2. Waiting(s) \subseteq 1..Len(s)
  BY DEF Waiting
<1> QED BY <1>1, <1>2, FS_Subset, FS_CardinalityType

\* A transcript is sent.
LEMMA WaitingSent ==
  ASSUME NEW s \in Seq(Transcript), NEW t \in Transcript
  PROVE  Cardinality(Waiting(Append(s, t))) = Cardinality(Waiting(s)) + Weight(t)
<1> DEFINE r == Append(s, t)
<1>1. /\ DOMAIN r = DOMAIN s \cup {Len(s) + 1} /\ Len(s) + 1 \notin DOMAIN s
      /\ r[Len(s) + 1] = t /\ \A i \in DOMAIN s : r[i] = s[i]
  OBVIOUS
<1> HIDE DEF r
<1>2. CASE t.kind = "partial"
  <2>1. Waiting(r) = Waiting(s)
    BY <1>1, <1>2 DEF Waiting
  <2> QED BY <1>2, <2>1, WaitingIsFinite DEF Weight, r
<1>3. CASE t.kind # "partial"
  <2>1. Waiting(r) = Waiting(s) \cup {Len(s) + 1} /\ Len(s) + 1 \notin Waiting(s)
    BY <1>1, <1>3 DEF Waiting
  <2>2. Cardinality(Waiting(s) \cup {Len(s) + 1}) = Cardinality(Waiting(s)) + 1
    BY <2>1, WaitingIsFinite, FS_AddElement
  <2> QED BY <1>3, <2>1, <2>2 DEF Weight, r
<1> QED BY <1>2, <1>3

\* A transcript is received.
LEMMA WaitingReceived ==
  ASSUME NEW s \in Seq(Transcript), s # <<>>
  PROVE  Cardinality(Waiting(s)) = Cardinality(Waiting(Tail(s))) + Weight(Head(s))
<1> DEFINE r == Tail(s)
           later == Waiting(s) \ {1}
           f == [i \in Waiting(r) |-> i + 1]
<1>1. /\ r \in Seq(Transcript) /\ Head(s) = s[1] /\ 1 \in DOMAIN s
      /\ \A i \in DOMAIN r : i \in Nat /\ i # 0 /\ i + 1 \in DOMAIN s /\ r[i] = s[i + 1]
      /\ \A i \in DOMAIN s : i \in Nat /\ (i # 1 => i - 1 \in DOMAIN r /\ r[i - 1] = s[i])
  OBVIOUS
<1> HIDE DEF r
<1>2. f \in Bijection(Waiting(r), later)
  <2>1. \A i \in Waiting(r) : i \in Nat /\ i # 0 /\ i + 1 \in later
    BY <1>1 DEF Waiting
  <2>2. f \in [Waiting(r) -> later]
    BY <2>1
  <2>3. \A i, j \in Waiting(r) : f[i] = f[j] => i = j
    BY <2>1
  <2>4. \A j \in later : \E i \in Waiting(r) : f[i] = j
    <3> SUFFICES ASSUME NEW j \in later PROVE \E i \in Waiting(r) : f[i] = j
      OBVIOUS
    <3>1. j - 1 \in Waiting(r) /\ j \in Nat
      BY <1>1 DEF Waiting
    <3>2. f[j - 1] = j
      BY <3>1
    <3> QED BY <3>1, <3>2
  <2> QED BY <2>2, <2>3, <2>4, Fun_IsBij
<1>3. Cardinality(later) = Cardinality(Waiting(r)) /\ IsFiniteSet(later)
  BY <1>1, <1>2, WaitingIsFinite, FS_Bijection DEF ExistsBijection
<1>4. CASE Head(s).kind = "partial"
  <2>1. Waiting(s) = later
    BY <1>1, <1>4 DEF Waiting
  <2>2. Cardinality(Waiting(s)) = Cardinality(Waiting(r))
    BY <1>3, <2>1
  <2>3. Weight(Head(s)) = 0 /\ Cardinality(Waiting(r)) \in Nat
    BY <1>1, <1>4, WaitingIsFinite DEF Weight
  <2> QED BY <2>2, <2>3 DEF r
<1>5. CASE Head(s).kind # "partial"
  <2>1. 1 \in Waiting(s)
    BY <1>1, <1>5 DEF Waiting
  <2>2. Cardinality(later) = Cardinality(Waiting(s)) - 1
    BY <2>1, WaitingIsFinite, FS_RemoveElement
  <2> QED BY <1>1, <1>3, <1>5, <2>2, WaitingIsFinite DEF Weight, r
<1> QED BY <1>4, <1>5

\* Of every final transcript sent, the leg has settled it, is working on it, or has yet to
\* receive it; and a leg that is past its select has received all there will ever be.
Busy == Translating \cup {"forward"}
Leaving == {"lastWords", "spawn", "return", "exited"}
Accounted(l) ==
  /\ Len(outcome[l]) + Cardinality(Waiting(transcripts[l]))
       + (IF pc[l] \in Busy THEN 1 ELSE 0) = finals[l]
  /\ pc[l] \in Leaving => asr[l] = "closed" /\ transcripts[l] = <<>>

\* So it is until the context is cancelled, unless it is Close that cancels it.
Hangup ==
  /\ ctx \in {"live", "released"} => \A l \in Leg : Accounted(l)
  /\ ctx = "released" => closePc \in {"closeOuts", "done"}

\* A leg that a step leaves alone.
LEMMA HangupAlone ==
  ASSUME NEW l \in Leg, Accounted(l),
         UNCHANGED <<outcome[l], transcripts[l], pc[l], finals[l], asr[l]>>
  PROVE  Accounted(l)'
BY DEF Accounted

\* A leg whose goroutine goes on with the utterance it has, or leaves its select for good.
LEMMA HangupGoesOn ==
  ASSUME NEW l \in Leg, Accounted(l), UNCHANGED <<outcome[l], transcripts[l], finals[l], asr[l]>>,
         pc[l] \in Busy <=> pc'[l] \in Busy,
         pc'[l] \in Leaving => pc[l] \in Leaving \/ (asr[l] = "closed" /\ transcripts[l] = <<>>)
  PROVE  Accounted(l)'
BY DEF Accounted

\* A leg that settles the utterance it has.
LEMMA HangupSettles ==
  ASSUME TypeOK, NEW l \in Leg, Accounted(l), NEW o \in Outcome \cup Verdict, Resolve(l, o),
         pc[l] \in Busy, UNCHANGED <<transcripts[l], finals[l], asr[l]>>
  PROVE  Accounted(l)'
<1>1. /\ outcome[l] \in Seq(Outcome \cup Verdict) /\ outcome'[l] = Append(outcome[l], o)
      /\ pc'[l] = "select" /\ transcripts[l] \in Seq(Transcript) /\ finals[l] \in Nat
  BY DEF TypeOK, OutcomeTyped, PcTyped, AsrTyped, Resolve
<1>2. Len(outcome'[l]) = Len(outcome[l]) + 1 /\ Len(outcome[l]) \in Nat
  BY <1>1
<1>3. Cardinality(Waiting(transcripts[l])) \in Nat
  BY <1>1, WaitingIsFinite
<1>4. Len(outcome[l]) + Cardinality(Waiting(transcripts[l])) + 1 = finals[l]
  BY DEF Accounted
<1>5. pc'[l] \notin Busy /\ pc'[l] \notin Leaving
  BY <1>1 DEF Busy, Translating, Leaving
<1>6. Len(outcome'[l]) + Cardinality(Waiting(transcripts[l])) + 0 = finals[l]
  BY <1>2, <1>3, <1>4
<1> QED BY <1>5, <1>6 DEF Accounted

\* A leg that takes the next transcript: a final one is now worked on.
LEMMA HangupTakes ==
  ASSUME TypeOK, NEW l \in Leg, Accounted(l), pc[l] = "select", transcripts[l] # <<>>,
         transcripts'[l] = Tail(transcripts[l]), UNCHANGED <<outcome[l], finals[l], asr[l]>>,
         IF Head(transcripts[l]).kind = "partial" THEN pc'[l] = "select"
         ELSE pc'[l] \in {"translate", "forward"}
  PROVE  Accounted(l)'
<1>1. /\ transcripts[l] \in Seq(Transcript) /\ Tail(transcripts[l]) \in Seq(Transcript)
      /\ Len(outcome[l]) \in Nat
  BY DEF TypeOK, OutcomeTyped, AsrTyped
<1>2. /\ Cardinality(Waiting(transcripts[l])) =
            Cardinality(Waiting(Tail(transcripts[l]))) + Weight(Head(transcripts[l]))
      /\ Cardinality(Waiting(Tail(transcripts[l]))) \in Nat
  BY <1>1, WaitingReceived, WaitingIsFinite
<1>3. pc[l] \notin Busy /\ pc'[l] \notin Leaving
  BY DEF Busy, Translating, Leaving
<1>4. Len(outcome[l]) + Cardinality(Waiting(transcripts[l])) + 0 = finals[l]
  BY <1>3 DEF Accounted
<1>5. (IF pc'[l] \in Busy THEN 1 ELSE 0) = Weight(Head(transcripts[l]))
  BY DEF Weight, Busy, Translating
<1>6. Weight(Head(transcripts[l])) \in Nat
  BY DEF Weight
<1>7. Len(outcome[l]) + Cardinality(Waiting(Tail(transcripts[l]))) + Weight(Head(transcripts[l]))
        = finals[l]
  BY <1>1, <1>2, <1>4, <1>6
<1> QED BY <1>3, <1>5, <1>7 DEF Accounted

\* A transcript is sent to a leg; its stream is not closed.
LEMMA HangupSent ==
  ASSUME TypeOK, NEW l \in Leg, Accounted(l), NEW t \in Transcript, asr[l] # "closed",
         transcripts'[l] = Append(transcripts[l], t), finals'[l] = finals[l] + Weight(t),
         UNCHANGED <<outcome[l], pc[l], asr[l]>>
  PROVE  Accounted(l)'
<1>1. transcripts[l] \in Seq(Transcript) /\ Len(outcome[l]) \in Nat /\ finals[l] \in Nat
  BY DEF TypeOK, OutcomeTyped, AsrTyped
<1>2. /\ Cardinality(Waiting(transcripts'[l])) = Cardinality(Waiting(transcripts[l])) + Weight(t)
      /\ Cardinality(Waiting(transcripts[l])) \in Nat /\ Weight(t) \in Nat
  BY <1>1, WaitingSent, WaitingIsFinite DEF Weight
<1>3. pc'[l] \notin Leaving
  BY DEF Accounted
<1> DEFINE one == IF pc[l] \in Busy THEN 1 ELSE 0
<1>4. Len(outcome[l]) + Cardinality(Waiting(transcripts[l])) + one = finals[l] /\ one \in Nat
  BY DEF Accounted
<1> HIDE DEF one
<1>5. Len(outcome[l]) + Cardinality(Waiting(transcripts'[l])) + one = finals'[l]
  BY <1>1, <1>2, <1>4
<1> QED BY <1>3, <1>5 DEF Accounted, one

\* It holds throughout, up to the release of the context and after it.
LEMMA HangupInvariant == Spec => []Hangup
<1>1. Init => Hangup
  <2> SUFFICES ASSUME Init, NEW l \in Leg PROVE Accounted(l) /\ ctx = "live"
    BY DEF Hangup, Init
  <2>1. /\ outcome[l] = <<>> /\ transcripts[l] = <<>> /\ pc[l] = "select" /\ finals[l] = 0
        /\ ctx = "live"
    BY DEF Init
  <2>2. Waiting(<<>>) = {}
    BY DEF Waiting
  <2> QED BY <2>1, <2>2, FS_EmptySet DEF Accounted, Busy, Translating, Leaving
<1>2. TypeOK /\ Lifecycle /\ Hangup /\ [Next]_vars => Hangup'
  <2> SUFFICES ASSUME TypeOK, Lifecycle, Hangup, [Next]_vars PROVE Hangup'
    OBVIOUS
  <2>0. PcTyped /\ AsrTyped /\ OutcomeTyped /\ WorkTyped
    BY DEF TypeOK
  <2> USE DEF asrVars, lifeVars
  <2>1. ASSUME UNCHANGED <<ctx, closePc>>,
               ctx \in {"live", "released"} => \A k \in Leg : Accounted(k) => Accounted(k)'
        PROVE  Hangup'
    BY <2>1 DEF Hangup
  <2>2. CASE UNCHANGED <<ctx, closePc, outcome, transcripts, pc, finals, asr>>
    BY <2>1, <2>2, HangupAlone
  <2>3. ASSUME NEW l \in Leg,
               \/ PushBuffer(l) \/ PushASR(l) \/ TtsDeadline(l) \/ Synthesis(l) \/ Listen(l)
               \/ StreamChunk(l) \/ ForwardChunk(l) \/ DrainDeadLeg(l)
        PROVE  Hangup'
    BY <2>2, <2>3 DEF PushBuffer, PushASR, TtsDeadline, Synthesis, TtsProduces, TtsVendorDrops,
       TtsCutOff, Listen, StreamChunk, ForwardChunk, DrainDeadLeg, DrainTick, DrainCtxDone,
       DrainForward, DrainFlushed, DrainReturns, DrainCheck
  <2>4. CASE UNCHANGED vars
    BY <2>2, <2>4 DEF vars
  <2>5. ASSUME NEW l \in Leg, UNCHANGED <<ctx, closePc>>, Accounted(l) => Accounted(l)',
               \A k \in Leg \ {l} :
                  UNCHANGED <<outcome[k], transcripts[k], pc[k], finals[k], asr[k]>>
        PROVE  Hangup'
    BY <2>1, <2>5, HangupAlone
  <2>6. ASSUME NEW l \in Leg, AsrPartial(l) \/ AsrFinal(l) PROVE Hangup'
    <3>1. PICK t \in Transcript : /\ transcripts' = [transcripts EXCEPT ![l] = Append(@, t)]
                                  /\ finals'[l] = finals[l] + Weight(t)
      <4>1. CASE AsrPartial(l)
        <5>1. NoUtterance \in Transcript /\ Weight(NoUtterance) = 0 /\ finals[l] + 0 = finals[l]
          BY <2>0 DEF NoUtterance, Transcript, Weight, AsrTyped
        <5> QED BY <4>1, <5>1 DEF AsrPartial
      <4>2. CASE AsrFinal(l)
        <5>1. PICK d \in {"low", "ok"}, u \in spoken[l]..accepted[l] :
                 transcripts' = [transcripts EXCEPT ![l] =
                                   Append(@, [kind |-> d, from |-> spoken[l] + 1, upto |-> u])]
          BY <4>2 DEF AsrFinal
        <5>2. [kind |-> d, from |-> spoken[l] + 1, upto |-> u] \in Transcript
          BY <2>0 DEF AsrTyped, Transcript
        <5>3. Weight([kind |-> d, from |-> spoken[l] + 1, upto |-> u]) = 1
          BY DEF Weight
        <5>4. finals'[l] = finals[l] + 1
          BY <2>0, <4>2 DEF AsrFinal, AsrTyped
        <5> QED BY <5>1, <5>2, <5>3, <5>4
      <4> QED BY <2>6, <4>1, <4>2
    <3>2. /\ asr[l] # "closed" /\ UNCHANGED <<outcome, pc, asr, ctx, closePc>>
          /\ \A k \in Leg \ {l} : finals'[k] = finals[k]
      BY <2>0, <2>6 DEF AsrPartial, AsrFinal, AsrTyped
    <3>3. transcripts'[l] = Append(transcripts[l], t)
          /\ \A k \in Leg \ {l} : transcripts'[k] = transcripts[k]
      BY <2>0, <3>1 DEF AsrTyped
    <3>4. Accounted(l) => Accounted(l)'
      BY <3>1, <3>2, <3>3, HangupSent
    <3> QED BY <2>5, <3>2, <3>3, <3>4
  <2>7. ASSUME NEW l \in Leg, AsrChannelCloses(l) PROVE Hangup'
    <3>1. /\ asr'[l] = "closed" /\ asr[l] # "closed" /\ \A k \in Leg \ {l} : asr'[k] = asr[k]
          /\ UNCHANGED <<outcome, transcripts, pc, finals, ctx, closePc>>
      BY <2>0, <2>7 DEF AsrChannelCloses, AsrTyped
    <3>2. Accounted(l) => Accounted(l)'
      BY <3>1 DEF Accounted
    <3> QED BY <2>5, <3>1, <3>2
  <2>8. ASSUME NEW l \in Leg, TakePartial(l) \/ TakeFinal(l) PROVE Hangup'
    <3>1. /\ pc[l] = "select" /\ transcripts[l] # <<>> /\ transcripts'[l] = Tail(transcripts[l])
          /\ UNCHANGED <<outcome, finals, asr, ctx, closePc>>
          /\ \A k \in Leg \ {l} : transcripts'[k] = transcripts[k] /\ pc'[k] = pc[k]
      BY <2>0, <2>8 DEF TakePartial, TakeFinal, StartPassthrough, AsrTyped, PcTyped
    <3>2. IF Head(transcripts[l]).kind = "partial" THEN pc'[l] = "select"
          ELSE pc'[l] \in {"translate", "forward"}
      BY <2>0, <2>8 DEF TakePartial, TakeFinal, StartPassthrough, PcTyped
    <3>3. Accounted(l) => Accounted(l)'
      BY <3>1, <3>2, HangupTakes
    <3> QED BY <2>5, <3>1, <3>3
  <2>9. ASSUME NEW l \in Leg,
               \/ LegAsrShutdown(l) \/ LegAsrDied(l) \/ LastWordsDone(l) \/ SpawnDrain(l)
               \/ LegReturn(l) \/ TranslateFails(l) \/ SynthesizeOk(l) \/ SynthesizeFails(l)
               \/ FirstChunk(l) \/ SynthesisStalls(l)
        PROVE  Hangup'
    <3>1. UNCHANGED <<outcome, transcripts, finals, asr, ctx, closePc>>
          /\ \A k \in Leg \ {l} : pc'[k] = pc[k]
      BY <2>0, <2>9 DEF LegAsrShutdown, LegAsrDied, LastWordsDone, SpawnDrain, LegReturn,
         TranslateFails, SynthesizeOk, SynthesizeFails, FirstChunk, SynthesisStalls, LegExit,
         StartPassthrough, PcTyped
    <3>2. /\ pc[l] \in Busy <=> pc'[l] \in Busy
          /\ pc'[l] \in Leaving => pc[l] \in Leaving \/ (asr[l] = "closed" /\ transcripts[l] = <<>>)
      BY <2>0, <2>9 DEF LegAsrShutdown, LegAsrDied, LastWordsDone, SpawnDrain, LegReturn,
         TranslateFails, SynthesizeOk, SynthesizeFails, FirstChunk, SynthesisStalls, LegExit,
         StartPassthrough, PcTyped, Busy, Translating, Leaving
    <3>3. Accounted(l) => Accounted(l)'
      BY <3>1, <3>2, HangupGoesOn
    <3> QED BY <2>5, <3>1, <3>3
  <2>10. ASSUME NEW l \in Leg,
                TranslateOk(l) \/ SendFirstChunk(l) \/ SynthesisCompleted(l) \/ PassthroughDone(l)
         PROVE  Hangup'
    <3>1. UNCHANGED <<transcripts, finals, asr, ctx, closePc>> /\ pc[l] \in Busy
      BY <2>10 DEF TranslateOk, SendFirstChunk, SynthesisCompleted, PassthroughDone, Busy, Translating
    <3>2. CASE \E o \in Outcome \cup Verdict : Resolve(l, o)
      <4>1. PICK o \in Outcome \cup Verdict : Resolve(l, o)
        BY <3>2
      <4>2. \A k \in Leg \ {l} : outcome'[k] = outcome[k] /\ pc'[k] = pc[k]
        BY <2>0, <4>1 DEF Resolve, OutcomeTyped, PcTyped
      <4>3. Accounted(l) => Accounted(l)'
        BY <3>1, <4>1, HangupSettles
      <4> QED BY <2>5, <3>1, <4>2, <4>3
    <3>3. CASE \E p \in {"synthesize", "stream"} :
                  pc' = [pc EXCEPT ![l] = p] /\ UNCHANGED outcome
      <4>1. pc'[l] \in Busy /\ pc'[l] \notin Leaving /\ (\A k \in Leg \ {l} : pc'[k] = pc[k])
            /\ UNCHANGED outcome
        BY <2>0, <3>3 DEF PcTyped, Busy, Translating, Leaving
      <4>2. Accounted(l) => Accounted(l)'
        BY <3>1, <4>1, HangupGoesOn
      <4> QED BY <2>5, <3>1, <4>1, <4>2
    <3>4. \/ \E o \in Outcome \cup Verdict : Resolve(l, o)
          \/ \E p \in {"synthesize", "stream"} : pc' = [pc EXCEPT ![l] = p] /\ UNCHANGED outcome
      <4>1. CASE TranslateOk(l)
        BY <4>1 DEF TranslateOk, Outcome
      <4>2. CASE SendFirstChunk(l)
        BY <4>2 DEF SendFirstChunk, Outcome
      <4>3. CASE SynthesisCompleted(l)
        BY <4>3 DEF SynthesisCompleted, Outcome
      <4>4. CASE PassthroughDone(l)
        BY <2>0, <4>4 DEF PassthroughDone, WorkTyped
      <4> QED BY <2>10, <4>1, <4>2, <4>3, <4>4
    <3> QED BY <3>2, <3>3, <3>4
  <2>11. ASSUME NEW l \in Leg, LegAbort(l) PROVE Hangup'
    <3>1. ctx # "live" /\ UNCHANGED <<ctx, closePc>> /\ pc[l] # "exited"
      BY <2>11 DEF LegAbort, CtxDone
    <3>2. ctx # "released"
      BY <3>1 DEF Hangup, Lifecycle, LegRunning
    <3> QED BY <3>1, <3>2 DEF Hangup
  <2>12. CASE Close
    <3>1. ASSUME NEW l \in Leg, NEW from \in {"closeCaller", "inCaller"},
                 NEW to \in {"inCaller", "inAgent"}, CloseStream(l, from, to)
          PROVE  Hangup'
      <4>1. /\ UNCHANGED <<ctx, outcome, transcripts, pc, finals>> /\ ctx # "released"
            /\ \A k \in Leg : asr'[k] = asr[k] \/ asr[k] = "open"
        BY <2>0, <3>1 DEF CloseStream, AsrTyped, Hangup
      <4>2. \A k \in Leg : Accounted(k) => Accounted(k)'
        BY <4>1 DEF Accounted
      <4> QED BY <4>1, <4>2 DEF Hangup
    <3>2. CASE StreamsClosed \/ CloseWaited \/ CloseOuts
      <4>1. UNCHANGED <<ctx, outcome, transcripts, pc, finals, asr>>
        BY <3>2 DEF StreamsClosed, CloseWaited, CloseOuts
      <4>2. \A k \in Leg : Accounted(k) => Accounted(k)'
        BY <4>1, HangupAlone
      <4>3. ctx = "released" => closePc' \in {"closeOuts", "done"}
        BY <3>2 DEF StreamsClosed, CloseWaited, CloseOuts, Hangup
      <4> QED BY <4>1, <4>2, <4>3 DEF Hangup
    <3>3. CASE CloseBackstop
      <4>1. ctx' \notin {"live", "released"}
        BY <3>3 DEF CloseBackstop, Hangup, CtxDone
      <4> QED BY <4>1 DEF Hangup
    <3>4. CASE CloseCancel
      <4>1. /\ UNCHANGED <<outcome, transcripts, pc, finals, asr>> /\ closePc' = "closeOuts"
            /\ ctx' = "released" => ctx \in {"live", "released"}
            /\ ctx' = "live" => ctx = "live"
        BY <3>4 DEF CloseCancel, CtxDone
      <4>2. \A k \in Leg : Accounted(k) => Accounted(k)'
        BY <4>1, HangupAlone
      <4> QED BY <4>1, <4>2 DEF Hangup
    <3> QED BY <2>12, <3>1, <3>2, <3>3, <3>4 DEF Close, StreamReturns, CloseProceeds, Leg
  <2>13. CASE CloseBegin
    <3>1. UNCHANGED <<ctx, outcome, transcripts, pc, finals, asr>> /\ ctx # "released"
      BY <2>13 DEF CloseBegin, Hangup
    <3>2. \A k \in Leg : Accounted(k) => Accounted(k)'
      BY <3>1, HangupAlone
    <3> QED BY <3>1, <3>2 DEF Hangup
  <2>14. CASE ParentCancels
    BY <2>14 DEF ParentCancels, Hangup
  <2> QED BY <2>3, <2>4, <2>6, <2>7, <2>8, <2>9, <2>10, <2>11, <2>12, <2>13, <2>14
     DEF Next, RunLeg
<1> QED BY <1>1, <1>2, SessionTyped, LifecycleInvariant, PTL DEF Spec

\* Close closes the ASR streams before it cancels the context, and waits for runLeg: when
\* it has not resorted to its backstop, every final transcript has been settled.
THEOREM HangupLosesNothing == Spec => []HangupFlushes
<1>1. Lifecycle /\ Hangup => HangupFlushes
  <2> SUFFICES ASSUME Lifecycle, Hangup, outClosed, ctx = "released", NEW l \in Leg
               PROVE  transcripts[l] = <<>> /\ Len(outcome[l]) = finals[l]
    BY DEF HangupFlushes
  <2>1. pc[l] = "exited" /\ Accounted(l)
    BY DEF Lifecycle, Hangup, LegRunning
  <2>2. transcripts[l] = <<>> /\ pc[l] \notin Busy
    BY <2>1 DEF Accounted, Leaving, Busy, Translating
  <2>3. Cardinality(Waiting(transcripts[l])) = 0
    <3>1. Waiting(transcripts[l]) = {}
      BY <2>2 DEF Waiting
    <3> QED BY <3>1, FS_EmptySet
  <2> QED BY <2>1, <2>2, <2>3 DEF Accounted
<1> QED BY <1>1, LifecycleInvariant, HangupInvariant, PTL
=============================================================================
