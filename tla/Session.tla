------------------------------ MODULE Session ------------------------------
(***************************************************************************)
(* A duplex translation session (pkg/langstream/session.go, fallback.go).  *)
(*                                                                         *)
(* Each of the two legs is a pipeline ASR -> Translator -> Synthesizer run *)
(* by one goroutine (runLeg).  When an utterance cannot be translated the  *)
(* leg forwards the utterance's raw audio instead (passthrough); when it   *)
(* keeps failing, or its ASR stream dies, it is degraded for good.  A leg  *)
(* whose ASR stream died hands its audio to a second goroutine,            *)
(* drainDeadLeg.  Close closes the ASR streams one after the other, waits   *)
(* for the goroutines with a 3s backstop and closes the outbound channels. *)
(*                                                                         *)
(* A leg's name is the direction it is fed from; out[l] is the channel it  *)
(* writes (agentOut for the caller leg, callerOut for the agent leg).      *)
(* A frame of raw audio is its position in the order of the pushes.        *)
(***************************************************************************)
EXTENDS Integers, Sequences

CONSTANTS
  AudioBufferFrames,       \* capacity of a leg's raw-audio ring buffer
  OutboundBuffer,          \* capacity of an outbound channel
  TranscriptBuffer,        \* capacity of an ASR stream's Transcripts channel
  MaxConsecutiveFailures,  \* FallbackConfig.MaxConsecutiveFailures
  DegradeToneEnabled,      \* FallbackConfig.DegradeToneEnabled
  Traffic,                 \* bounds: the frames pushed on each leg together with
                           \* the final transcripts of its ASR
  AsrMayFail               \* bound: the legs whose ASR stream may close by itself

Leg == {"caller", "agent"}

ASSUME SessionConstants ==
  /\ AudioBufferFrames \in Nat \ {0}
  /\ OutboundBuffer \in Nat \ {0}
  /\ TranscriptBuffer \in Nat \ {0}
  /\ MaxConsecutiveFailures \in Nat \ {0}
  /\ DegradeToneEnabled \in BOOLEAN
  /\ Traffic \in [Leg -> SUBSET [frames : Nat, finals : Nat]]
  /\ AsrMayFail \subseteq Leg

VARIABLES
  audio,                \* legState.audio: the raw-audio ring buffer
  pushed,               \* frames pushed so far
  pushing,              \* a Push*Audio call is between the buffer and the ASR
  asr,                  \* the ASR stream: "open", "closing" (Close called) or "closed"
  accepted,             \* the last frame the ASR stream accepted
  spoken,               \* the last frame covered by a final transcript
  transcripts,          \* the Transcripts channel
  finals,               \* final transcripts sent on it
  consecutiveFailures,  \* legState.consecutiveFailures
  degraded,             \* legState.degraded
  pc,                   \* where runLeg is
  drainPc,              \* where drainDeadLeg is
  utterance,            \* the transcript runLeg is working on
  frames,               \* the raw audio drained with it
  verdict,              \* why the utterance is being passed through
  pending,              \* passthrough chunks still to be forwarded
  tts,                  \* the synthesis: "none", "open", or why it closed
  ttsBuf,               \* chunks synthesized and not yet received
  ttsExpired,           \* ttsCtx's deadline has passed
  out,                  \* the outbound channel
  outClosed,            \* both outbound channels are closed
  closing,              \* Session.closing
  ctx,                  \* Session.ctx: "live", or who cancelled it
  wg,                   \* Session.wg
  closePc,              \* where Close is
  outcome,              \* history: what became of each final transcript
  lastRaw               \* history: the last raw frame written to out

ingressVars == <<audio, pushed, pushing>>
asrVars     == <<asr, accepted, spoken, transcripts, finals>>
healthVars  == <<consecutiveFailures, degraded>>
workVars    == <<utterance, frames, verdict>>
ttsVars     == <<tts, ttsBuf, ttsExpired>>
outVars     == <<out, lastRaw>>
lifeVars    == <<outClosed, closing, ctx, closePc>>
vars == <<ingressVars, asrVars, healthVars, pc, drainPc, workVars, pending,
          ttsVars, outVars, lifeVars, wg, outcome>>

-----------------------------------------------------------------------------
(* Values.                                                                 *)

Chunk == [kind : {"tone", "raw", "tts", "marker"}, frame : Nat, final : BOOLEAN]
RawChunk(f) == [kind |-> "raw", frame |-> f, final |-> FALSE]
Tone        == [kind |-> "tone", frame |-> 0, final |-> FALSE]
Marker      == [kind |-> "marker", frame |-> 0, final |-> TRUE]
TtsChunk(last) == [kind |-> "tts", frame |-> 0, final |-> last]

\* "ok" stands for a confidence of 0 (not reported) or one at the threshold
\* or above; "low" for one strictly between.
Transcript == [kind : {"partial", "low", "ok"}, from : Nat, upto : Nat]
NoUtterance == [kind |-> "partial", from |-> 1, upto |-> 0]

Verdict == {"none", "lowConfidence", "degradedLeg", "mtFailed", "ttsFailed"}
Passthrough == Verdict \ {"none"}
\* truncated: the synthesis ended without its final chunk; silent: it ended
\* without any chunk; emptyText: the translation was empty.
Outcome == Passthrough \cup {"translated", "truncated", "silent", "emptyText"}

LegPc == {"select", "translate", "synthesize", "await", "sendFirst", "stream",
          "forward", "lastWords", "spawn", "return", "exited"}
DrainPc == {"none", "poll", "flush", "check", "lastFlush", "exited"}
ClosePc == {"idle", "closeCaller", "inCaller", "inAgent", "wait", "waitForced",
            "cancel", "closeOuts", "done"}

CtxDone == ctx # "live"

WithinTraffic(l, f, n) == \E b \in Traffic[l] : f <= b.frames /\ n <= b.finals

-----------------------------------------------------------------------------
(* The raw-audio ring buffer and the passthrough audio.                    *)

\* Mutant: nothing is evicted.
RingPushNeverEvicts(b, f) == Append(b, f)

RingPush(b, f) ==
  IF Len(b) = AudioBufferFrames THEN Append(Tail(b), f) ELSE Append(b, f)

\* Mutant: drain returns the frames and leaves them in the buffer.
DrainKeepsFrames(l) == UNCHANGED audio

Drain(l) == audio' = [audio EXCEPT ![l] = <<>>]

PassthroughChunks(fs) ==
  LET cs == (IF DegradeToneEnabled THEN <<Tone>> ELSE <<>>)
              \o [i \in 1..Len(fs) |-> RawChunk(fs[i])]
  IN  IF cs = <<>> THEN <<Marker>>
      ELSE [i \in 1..Len(cs) |-> [cs[i] EXCEPT !.final = (i = Len(cs))]]

-----------------------------------------------------------------------------
(* Degradation.                                                            *)

\* Mutant: the comparison is strict.
RecordFailureLate(l, fatal) ==
  /\ degraded' = [degraded EXCEPT ![l] =
                    @ \/ fatal \/ consecutiveFailures[l] + 1 > MaxConsecutiveFailures]
  /\ consecutiveFailures' = [consecutiveFailures EXCEPT ![l] = IF fatal THEN @ ELSE @ + 1]

RecordFailure(l, fatal) ==
  /\ degraded' = [degraded EXCEPT ![l] =
                    @ \/ fatal \/ consecutiveFailures[l] + 1 >= MaxConsecutiveFailures]
  /\ consecutiveFailures' = [consecutiveFailures EXCEPT ![l] = IF fatal THEN @ ELSE @ + 1]

RecordSuccess(l) ==
  /\ consecutiveFailures' = [consecutiveFailures EXCEPT ![l] = 0]
  /\ UNCHANGED degraded

-----------------------------------------------------------------------------
Init ==
  /\ audio = [l \in Leg |-> <<>>]
  /\ pushed = [l \in Leg |-> 0]
  /\ pushing = [l \in Leg |-> FALSE]
  /\ asr = [l \in Leg |-> "open"]
  /\ accepted = [l \in Leg |-> 0]
  /\ spoken = [l \in Leg |-> 0]
  /\ transcripts = [l \in Leg |-> <<>>]
  /\ finals = [l \in Leg |-> 0]
  /\ consecutiveFailures = [l \in Leg |-> 0]
  /\ degraded = [l \in Leg |-> FALSE]
  /\ pc = [l \in Leg |-> "select"]
  /\ drainPc = [l \in Leg |-> "none"]
  /\ utterance = [l \in Leg |-> NoUtterance]
  /\ frames = [l \in Leg |-> <<>>]
  /\ verdict = [l \in Leg |-> "none"]
  /\ pending = [l \in Leg |-> <<>>]
  /\ tts = [l \in Leg |-> "none"]
  /\ ttsBuf = [l \in Leg |-> <<>>]
  /\ ttsExpired = [l \in Leg |-> FALSE]
  /\ out = [l \in Leg |-> <<>>]
  /\ lastRaw = [l \in Leg |-> 0]
  /\ outClosed = FALSE
  /\ closing = FALSE
  /\ ctx = "live"
  /\ wg = 2
  /\ closePc = "idle"
  /\ outcome = [l \in Leg |-> <<>>]

-----------------------------------------------------------------------------
(* Push{Caller,Agent}Audio: the ring buffer first, then the ASR stream.    *)

PushBuffer(l) ==
  /\ ~pushing[l] /\ WithinTraffic(l, pushed[l] + 1, finals[l])
  /\ audio' = [audio EXCEPT ![l] = RingPush(@, pushed[l] + 1)]
  /\ pushed' = [pushed EXCEPT ![l] = @ + 1]
  /\ pushing' = [pushing EXCEPT ![l] = TRUE]
  /\ UNCHANGED <<asrVars, healthVars, pc, drainPc, workVars, pending, ttsVars,
                 outVars, lifeVars, wg, outcome>>

PushASR(l) ==
  /\ pushing[l]
  /\ pushing' = [pushing EXCEPT ![l] = FALSE]
  /\ accepted' = [accepted EXCEPT ![l] = IF asr[l] = "open" THEN pushed[l] ELSE @]
  /\ UNCHANGED <<audio, pushed, asr, spoken, transcripts, finals, healthVars, pc,
                 drainPc, workVars, pending, ttsVars, outVars, lifeVars, wg, outcome>>

-----------------------------------------------------------------------------
(* The ASR stream, as runLeg sees it (asr.StreamSession).  A final          *)
(* transcript covers some of the frames accepted since the one before.      *)

AsrPartial(l) ==
  /\ asr[l] # "closed" /\ Len(transcripts[l]) < TranscriptBuffer
  /\ accepted[l] > spoken[l]
  /\ transcripts' = [transcripts EXCEPT ![l] = Append(@, NoUtterance)]
  /\ UNCHANGED <<ingressVars, asr, accepted, spoken, finals, healthVars, pc, drainPc,
                 workVars, pending, ttsVars, outVars, lifeVars, wg, outcome>>

AsrFinal(l) ==
  /\ asr[l] # "closed" /\ Len(transcripts[l]) < TranscriptBuffer
  /\ WithinTraffic(l, pushed[l], finals[l] + 1)
  /\ \E k \in {"low", "ok"}, u \in spoken[l]..accepted[l] :
       /\ transcripts' = [transcripts EXCEPT ![l] =
                            Append(@, [kind |-> k, from |-> spoken[l] + 1, upto |-> u])]
       /\ spoken' = [spoken EXCEPT ![l] = u]
  /\ finals' = [finals EXCEPT ![l] = @ + 1]
  /\ UNCHANGED <<ingressVars, asr, accepted, healthVars, pc, drainPc, workVars,
                 pending, ttsVars, outVars, lifeVars, wg, outcome>>

\* The backend closes the channel: on its own (a permanent failure) or, once
\* Close was called on the stream, after flushing what it had.
AsrChannelCloses(l) ==
  /\ asr[l] = "closing" \/ (asr[l] = "open" /\ l \in AsrMayFail)
  /\ asr' = [asr EXCEPT ![l] = "closed"]
  /\ UNCHANGED <<ingressVars, accepted, spoken, transcripts, finals, healthVars, pc,
                 drainPc, workVars, pending, ttsVars, outVars, lifeVars, wg, outcome>>

-----------------------------------------------------------------------------
(* runLeg: the select over the context and the Transcripts channel.        *)

\* The goroutine returns and wg.Done runs.
LegExit(l) ==
  /\ pc' = [pc EXCEPT ![l] = "exited"]
  /\ wg' = wg - 1

\* forwardAudio, forwardTTSWithStallGuard and the outer select all give up
\* when the context is done.
LegAbort(l) ==
  /\ CtxDone /\ pc[l] \in {"select", "await", "sendFirst", "stream", "forward"}
  /\ LegExit(l)
  /\ tts' = [tts EXCEPT ![l] = "none"]
  /\ ttsBuf' = [ttsBuf EXCEPT ![l] = <<>>]
  /\ ttsExpired' = [ttsExpired EXCEPT ![l] = FALSE]
  /\ UNCHANGED <<ingressVars, asrVars, healthVars, drainPc, workVars, pending,
                 outVars, lifeVars, outcome>>

TakePartial(l) ==
  /\ pc[l] = "select" /\ transcripts[l] # <<>> /\ Head(transcripts[l]).kind = "partial"
  /\ transcripts' = [transcripts EXCEPT ![l] = Tail(@)]
  /\ UNCHANGED <<ingressVars, asr, accepted, spoken, finals, healthVars, pc, drainPc,
                 workVars, pending, ttsVars, outVars, lifeVars, wg, outcome>>

\* The utterance's audio fs is to be passed through, for reason v.
StartPassthrough(l, fs, v) ==
  /\ pending' = [pending EXCEPT ![l] = PassthroughChunks(fs)]
  /\ verdict' = [verdict EXCEPT ![l] = v]
  /\ pc' = [pc EXCEPT ![l] = "forward"]

\* Mutant: the permanently degraded leg is not consulted.
AttemptIfConfident(l, tr) == tr.kind = "ok"

MayAttempt(l, tr) == ~degraded[l] /\ tr.kind = "ok"

TakeFinal(l) ==
  LET tr == Head(transcripts[l]) IN
  /\ pc[l] = "select" /\ transcripts[l] # <<>> /\ tr.kind # "partial"
  /\ transcripts' = [transcripts EXCEPT ![l] = Tail(@)]
  /\ utterance' = [utterance EXCEPT ![l] = tr]
  /\ frames' = [frames EXCEPT ![l] = audio[l]]
  /\ Drain(l)
  /\ \/ /\ MayAttempt(l, tr)
        /\ pc' = [pc EXCEPT ![l] = "translate"]
        /\ UNCHANGED <<pending, verdict>>
     \/ /\ ~MayAttempt(l, tr)
        /\ StartPassthrough(l, audio[l], IF degraded[l] THEN "degradedLeg" ELSE "lowConfidence")
  /\ UNCHANGED <<pushed, pushing, asr, accepted, spoken, finals, healthVars, drainPc,
                 ttsVars, outVars, lifeVars, wg, outcome>>

\* The channel is closed and empty while Close is under way: a normal exit.
LegAsrShutdown(l) ==
  /\ pc[l] = "select" /\ transcripts[l] = <<>> /\ asr[l] = "closed" /\ closing
  /\ LegExit(l)
  /\ UNCHANGED <<ingressVars, asrVars, healthVars, drainPc, workVars, pending,
                 ttsVars, outVars, lifeVars, outcome>>

\* The channel closed by itself: the leg is degraded and forwards what is buffered.
LegAsrDied(l) ==
  /\ pc[l] = "select" /\ transcripts[l] = <<>> /\ asr[l] = "closed" /\ ~closing
  /\ RecordFailure(l, TRUE)
  /\ pending' = [pending EXCEPT ![l] = PassthroughChunks(audio[l])]
  /\ Drain(l)
  /\ pc' = [pc EXCEPT ![l] = "lastWords"]
  /\ UNCHANGED <<pushed, pushing, asrVars, drainPc, workVars, ttsVars, outVars,
                 lifeVars, wg, outcome>>

-----------------------------------------------------------------------------
(* runLeg: Translate and SynthesizeStream.                                 *)

\* The utterance is finished with outcome o and the leg goes back to its select.
Resolve(l, o) ==
  /\ outcome' = [outcome EXCEPT ![l] = Append(@, o)]
  /\ pc' = [pc EXCEPT ![l] = "select"]
  /\ utterance' = [utterance EXCEPT ![l] = NoUtterance]
  /\ frames' = [frames EXCEPT ![l] = <<>>]
  /\ verdict' = [verdict EXCEPT ![l] = "none"]

ReleaseSynthesis(l) ==
  /\ tts' = [tts EXCEPT ![l] = "none"]
  /\ ttsBuf' = [ttsBuf EXCEPT ![l] = <<>>]
  /\ ttsExpired' = [ttsExpired EXCEPT ![l] = FALSE]

TranslateOk(l) ==
  /\ pc[l] = "translate"
  /\ RecordSuccess(l)
  /\ \/ /\ pc' = [pc EXCEPT ![l] = "synthesize"]
        /\ UNCHANGED <<workVars, outcome>>
     \/ Resolve(l, "emptyText")
  /\ UNCHANGED <<ingressVars, asrVars, drainPc, pending, ttsVars, outVars, lifeVars, wg>>

\* An error, a timeout, or a cancelled context.
TranslateFails(l) ==
  /\ pc[l] = "translate"
  /\ \E fatal \in BOOLEAN : RecordFailure(l, fatal)
  /\ StartPassthrough(l, frames[l], "mtFailed")
  /\ UNCHANGED <<ingressVars, asrVars, drainPc, utterance, frames, ttsVars, outVars,
                 lifeVars, wg, outcome>>

SynthesizeOk(l) ==
  /\ pc[l] = "synthesize"
  /\ tts' = [tts EXCEPT ![l] = "open"]
  /\ pc' = [pc EXCEPT ![l] = "await"]
  /\ UNCHANGED <<ingressVars, asrVars, healthVars, drainPc, workVars, pending, ttsBuf,
                 ttsExpired, outVars, lifeVars, wg, outcome>>

SynthesizeFails(l) ==
  /\ pc[l] = "synthesize"
  /\ \E fatal \in BOOLEAN : RecordFailure(l, fatal)
  /\ ReleaseSynthesis(l)
  /\ StartPassthrough(l, frames[l], "ttsFailed")
  /\ UNCHANGED <<ingressVars, asrVars, drainPc, utterance, frames, outVars,
                 lifeVars, wg, outcome>>

-----------------------------------------------------------------------------
(* The synthesis: the goroutine behind SynthesizeStream's channel.  It     *)
(* watches ttsCtx, which carries the SynthesizeTimeout deadline.           *)

\* Mutant: the synthesis is given the session's context, with no deadline.
NoSynthesisDeadline(l) == FALSE

TtsDeadline(l) ==
  /\ pc[l] \in {"synthesize", "await", "sendFirst", "stream"} /\ ~ttsExpired[l]
  /\ ttsExpired' = [ttsExpired EXCEPT ![l] = TRUE]
  /\ UNCHANGED <<ingressVars, asrVars, healthVars, pc, drainPc, workVars, pending, tts,
                 ttsBuf, outVars, lifeVars, wg, outcome>>

\* One more chunk; after the last one the channel is closed ("done").
TtsProduces(l) ==
  /\ tts[l] = "open" /\ ttsBuf[l] = <<>>
  /\ \E last \in BOOLEAN :
       /\ ttsBuf' = [ttsBuf EXCEPT ![l] = <<TtsChunk(last)>>]
       /\ tts' = [tts EXCEPT ![l] = IF last THEN "done" ELSE @]
  /\ UNCHANGED <<ingressVars, asrVars, healthVars, pc, drainPc, workVars, pending,
                 ttsExpired, outVars, lifeVars, wg, outcome>>

\* The vendor's connection ends before the final chunk.
TtsVendorDrops(l) ==
  /\ tts[l] = "open"
  /\ tts' = [tts EXCEPT ![l] = "failed"]
  /\ UNCHANGED <<ingressVars, asrVars, healthVars, pc, drainPc, workVars, pending,
                 ttsBuf, ttsExpired, outVars, lifeVars, wg, outcome>>

\* ttsCtx is done (deadline or session): the channel is closed as it stands.
TtsCutOff(l) ==
  /\ tts[l] = "open" /\ (ttsExpired[l] \/ CtxDone)
  /\ tts' = [tts EXCEPT ![l] = "cut"]
  /\ UNCHANGED <<ingressVars, asrVars, healthVars, pc, drainPc, workVars, pending,
                 ttsBuf, ttsExpired, outVars, lifeVars, wg, outcome>>

-----------------------------------------------------------------------------
(* forwardTTSWithStallGuard and forwardAudio.                              *)

\* A send on the outbound channel; it blocks while the channel is full.
Emit(l, c) ==
  /\ Len(out[l]) < OutboundBuffer
  /\ out' = [out EXCEPT ![l] = Append(@, c)]
  /\ lastRaw' = [lastRaw EXCEPT ![l] = IF c.kind = "raw" THEN c.frame ELSE @]

FirstChunk(l) ==
  /\ pc[l] = "await" /\ ttsBuf[l] # <<>>
  /\ pc' = [pc EXCEPT ![l] = "sendFirst"]
  /\ UNCHANGED <<ingressVars, asrVars, healthVars, drainPc, workVars, pending, ttsVars,
                 outVars, lifeVars, wg, outcome>>

\* A first chunk that is also the last completes the utterance at once.
SendFirstChunk(l) ==
  LET c == Head(ttsBuf[l]) IN
  /\ pc[l] = "sendFirst" /\ ttsBuf[l] # <<>>
  /\ Emit(l, c)
  /\ \/ /\ c.final
        /\ RecordSuccess(l)
        /\ ReleaseSynthesis(l)
        /\ Resolve(l, "translated")
     \/ /\ ~c.final
        /\ ttsBuf' = [ttsBuf EXCEPT ![l] = Tail(@)]
        /\ pc' = [pc EXCEPT ![l] = "stream"]
        /\ UNCHANGED <<healthVars, workVars, tts, ttsExpired, outcome>>
  /\ UNCHANGED <<ingressVars, asrVars, drainPc, pending, lifeVars, wg>>

StreamChunk(l) ==
  /\ pc[l] = "stream" /\ ttsBuf[l] # <<>>
  /\ Emit(l, Head(ttsBuf[l]))
  /\ ttsBuf' = [ttsBuf EXCEPT ![l] = Tail(@)]
  /\ UNCHANGED <<ingressVars, asrVars, healthVars, pc, drainPc, workVars, pending, tts,
                 ttsExpired, lifeVars, wg, outcome>>

\* The synthesis channel closed: completed, whatever it delivered.
SynthesisCompleted(l) ==
  /\ pc[l] \in {"await", "stream"} /\ tts[l] \in {"done", "failed", "cut"} /\ ttsBuf[l] = <<>>
  /\ RecordSuccess(l)
  /\ ReleaseSynthesis(l)
  /\ Resolve(l, IF pc[l] = "await" THEN "silent"
                ELSE IF tts[l] = "done" THEN "translated" ELSE "truncated")
  /\ UNCHANGED <<ingressVars, asrVars, drainPc, pending, outVars, lifeVars, wg>>

\* No first chunk before the deadline.
SynthesisStalls(l) ==
  /\ pc[l] = "await" /\ ttsExpired[l] /\ ~CtxDone
  /\ RecordFailure(l, FALSE)
  /\ ReleaseSynthesis(l)
  /\ StartPassthrough(l, frames[l], "ttsFailed")
  /\ UNCHANGED <<ingressVars, asrVars, drainPc, utterance, frames, outVars, lifeVars,
                 wg, outcome>>

\* emitPassthrough: one chunk of the precomputed passthrough audio.
ForwardPending(l) ==
  /\ pending[l] # <<>>
  /\ Emit(l, Head(pending[l]))
  /\ pending' = [pending EXCEPT ![l] = Tail(@)]

ForwardChunk(l) ==
  /\ pc[l] \in {"forward", "lastWords"}
  /\ ForwardPending(l)
  /\ UNCHANGED <<ingressVars, asrVars, healthVars, pc, drainPc, workVars, ttsVars,
                 lifeVars, wg, outcome>>

PassthroughDone(l) ==
  /\ pc[l] = "forward" /\ pending[l] = <<>>
  /\ Resolve(l, verdict[l])
  /\ UNCHANGED <<ingressVars, asrVars, healthVars, drainPc, pending, ttsVars, outVars,
                 lifeVars, wg>>

\* A dead leg's last words are abandoned when the context is done, but the
\* drain goroutine is started in either case.
LastWordsDone(l) ==
  /\ pc[l] = "lastWords" /\ (pending[l] = <<>> \/ CtxDone)
  /\ pending' = [pending EXCEPT ![l] = <<>>]
  /\ pc' = [pc EXCEPT ![l] = "spawn"]
  /\ UNCHANGED <<ingressVars, asrVars, healthVars, drainPc, workVars, ttsVars, outVars,
                 lifeVars, wg, outcome>>

\* Mutant: drainDeadLeg is started without the wg.Add that tracks it.
SpawnUntracked(l) ==
  /\ pc[l] = "spawn"
  /\ drainPc' = [drainPc EXCEPT ![l] = "poll"]
  /\ pc' = [pc EXCEPT ![l] = "return"]
  /\ UNCHANGED <<ingressVars, asrVars, healthVars, workVars, pending, ttsVars, outVars,
                 lifeVars, wg, outcome>>

SpawnDrain(l) ==
  /\ pc[l] = "spawn"
  /\ wg' = wg + 1
  /\ drainPc' = [drainPc EXCEPT ![l] = "poll"]
  /\ pc' = [pc EXCEPT ![l] = "return"]
  /\ UNCHANGED <<ingressVars, asrVars, healthVars, workVars, pending, ttsVars, outVars,
                 lifeVars, outcome>>

LegReturn(l) ==
  /\ pc[l] = "return"
  /\ LegExit(l)
  /\ UNCHANGED <<ingressVars, asrVars, healthVars, drainPc, workVars, pending, ttsVars,
                 outVars, lifeVars, outcome>>

-----------------------------------------------------------------------------
(* drainDeadLeg.                                                           *)

DrainExit(l) ==
  /\ drainPc' = [drainPc EXCEPT ![l] = "exited"]
  /\ wg' = wg - 1

\* flushDeadLegAudio: nothing buffered is a no-op.
Flush(l, busy, idle) ==
  /\ pending' = [pending EXCEPT ![l] =
                   IF audio[l] = <<>> THEN <<>> ELSE PassthroughChunks(audio[l])]
  /\ drainPc' = [drainPc EXCEPT ![l] = IF audio[l] = <<>> THEN idle ELSE busy]
  /\ Drain(l)

DrainTick(l) ==
  /\ drainPc[l] = "poll"
  /\ Flush(l, "flush", "check")
  /\ UNCHANGED <<pushed, pushing, asrVars, healthVars, pc, workVars, ttsVars, outVars,
                 lifeVars, wg, outcome>>

\* The context is done: one last flush, then exit.
DrainCtxDone(l) ==
  /\ drainPc[l] = "poll" /\ CtxDone
  /\ Flush(l, "lastFlush", "exited")
  /\ wg' = IF audio[l] = <<>> THEN wg - 1 ELSE wg
  /\ UNCHANGED <<pushed, pushing, asrVars, healthVars, pc, workVars, ttsVars, outVars,
                 lifeVars, outcome>>

DrainForward(l) ==
  /\ drainPc[l] \in {"flush", "lastFlush"}
  /\ ForwardPending(l)
  /\ UNCHANGED <<ingressVars, asrVars, healthVars, pc, drainPc, workVars, ttsVars,
                 lifeVars, wg, outcome>>

DrainFlushed(l) ==
  /\ drainPc[l] = "flush" /\ pending[l] = <<>>
  /\ drainPc' = [drainPc EXCEPT ![l] = "check"]
  /\ UNCHANGED <<ingressVars, asrVars, healthVars, pc, workVars, pending, ttsVars,
                 outVars, lifeVars, wg, outcome>>

\* forwardAudio gives up when the context is done; the last flush exits anyway.
DrainReturns(l) ==
  /\ \/ drainPc[l] \in {"flush", "lastFlush"} /\ CtxDone
     \/ drainPc[l] = "lastFlush" /\ pending[l] = <<>>
  /\ DrainExit(l)
  /\ UNCHANGED <<ingressVars, asrVars, healthVars, pc, workVars, pending, ttsVars,
                 outVars, lifeVars, outcome>>

\* Mutant: the drain goroutine never looks at closing.
DrainCheckIgnoresClosing(l) ==
  /\ drainPc[l] = "check"
  /\ drainPc' = [drainPc EXCEPT ![l] = "poll"]
  /\ UNCHANGED <<ingressVars, asrVars, healthVars, pc, workVars, pending, ttsVars,
                 outVars, lifeVars, wg, outcome>>

\* Mutant: the buffer is looked at once, not polled.
DrainPollsOnce(l) ==
  /\ drainPc[l] = "check"
  /\ DrainExit(l)
  /\ UNCHANGED <<ingressVars, asrVars, healthVars, pc, workVars, pending, ttsVars,
                 outVars, lifeVars, outcome>>

DrainCheck(l) ==
  /\ drainPc[l] = "check"
  /\ \/ closing /\ DrainExit(l)
     \/ ~closing /\ drainPc' = [drainPc EXCEPT ![l] = "poll"] /\ UNCHANGED wg
  /\ UNCHANGED <<ingressVars, asrVars, healthVars, pc, workVars, pending, ttsVars,
                 outVars, lifeVars, outcome>>

-----------------------------------------------------------------------------
(* Close, run once (closeOnce), and the session's surroundings.            *)

\* Mutant: the context is cancelled before the streams are closed.
CloseCancelsFirst ==
  /\ closePc = "idle"
  /\ closing' = TRUE
  /\ ctx' = IF CtxDone THEN ctx ELSE "released"
  /\ closePc' = "closeCaller"
  /\ UNCHANGED <<ingressVars, asrVars, healthVars, pc, drainPc, workVars, pending,
                 ttsVars, outVars, outClosed, wg, outcome>>

CloseBegin ==
  /\ closePc = "idle"
  /\ closing' = TRUE
  /\ closePc' = "closeCaller"
  /\ UNCHANGED <<ingressVars, asrVars, healthVars, pc, drainPc, workVars, pending,
                 ttsVars, outVars, outClosed, ctx, wg, outcome>>

\* The stream's own Close is called, from the goroutine of Session.Close and before
\* there is a backstop.  It may wait for the backend as long as it likes (for its
\* reader, AsrStream; for room in its channel, MockCall), with the leg still running.
CloseStream(l, from, to) ==
  /\ closePc = from
  /\ asr' = [asr EXCEPT ![l] = IF @ = "open" THEN "closing" ELSE @]
  /\ closePc' = to
  /\ UNCHANGED <<ingressVars, accepted, spoken, transcripts, finals, healthVars, pc,
                 drainPc, workVars, pending, ttsVars, outVars, outClosed, closing, ctx,
                 wg, outcome>>

\* The agent's stream has returned from its Close; the backstop starts here.
StreamsClosed ==
  /\ closePc = "inAgent"
  /\ closePc' = "wait"
  /\ UNCHANGED <<ingressVars, asrVars, healthVars, pc, drainPc, workVars, pending,
                 ttsVars, outVars, outClosed, closing, ctx, wg, outcome>>

\* wg.Wait returned; or the 3s backstop fired, which cancels and waits again.
CloseWaited ==
  /\ closePc \in {"wait", "waitForced"} /\ wg = 0
  /\ closePc' = "cancel"
  /\ UNCHANGED <<ingressVars, asrVars, healthVars, pc, drainPc, workVars, pending,
                 ttsVars, outVars, outClosed, closing, ctx, wg, outcome>>

\* Mutant: the backstop goes on without waiting for the goroutines.
CloseBackstopNoWait ==
  /\ closePc = "wait"
  /\ ctx' = IF CtxDone THEN ctx ELSE "backstop"
  /\ closePc' = "cancel"
  /\ UNCHANGED <<ingressVars, asrVars, healthVars, pc, drainPc, workVars, pending,
                 ttsVars, outVars, outClosed, closing, wg, outcome>>

\* Mutant: the backstop waits again without cancelling.
CloseBackstopNoCancel ==
  /\ closePc = "wait"
  /\ closePc' = "waitForced"
  /\ UNCHANGED <<ingressVars, asrVars, healthVars, pc, drainPc, workVars, pending,
                 ttsVars, outVars, outClosed, closing, ctx, wg, outcome>>

CloseBackstop ==
  /\ closePc = "wait"
  /\ ctx' = IF CtxDone THEN ctx ELSE "backstop"
  /\ closePc' = "waitForced"
  /\ UNCHANGED <<ingressVars, asrVars, healthVars, pc, drainPc, workVars, pending,
                 ttsVars, outVars, outClosed, closing, wg, outcome>>

CloseCancel ==
  /\ closePc = "cancel"
  /\ ctx' = IF CtxDone THEN ctx ELSE "released"
  /\ closePc' = "closeOuts"
  /\ UNCHANGED <<ingressVars, asrVars, healthVars, pc, drainPc, workVars, pending,
                 ttsVars, outVars, outClosed, closing, wg, outcome>>

CloseOuts ==
  /\ closePc = "closeOuts"
  /\ outClosed' = TRUE
  /\ closePc' = "done"
  /\ UNCHANGED <<ingressVars, asrVars, healthVars, pc, drainPc, workVars, pending,
                 ttsVars, outVars, closing, ctx, wg, outcome>>

\* The context NewSession was given is cancelled.
ParentCancels ==
  /\ ~CtxDone
  /\ ctx' = "parent"
  /\ UNCHANGED <<ingressVars, asrVars, healthVars, pc, drainPc, workVars, pending,
                 ttsVars, outVars, outClosed, closing, closePc, wg, outcome>>

\* The listening party takes a chunk.
Listen(l) ==
  /\ out[l] # <<>>
  /\ out' = [out EXCEPT ![l] = Tail(@)]
  /\ UNCHANGED <<ingressVars, asrVars, healthVars, pc, drainPc, workVars, pending,
                 ttsVars, lastRaw, lifeVars, wg, outcome>>

-----------------------------------------------------------------------------
RunLeg(l) ==
  \/ TakePartial(l) \/ TakeFinal(l) \/ LegAsrShutdown(l) \/ LegAsrDied(l)
  \/ TranslateOk(l) \/ TranslateFails(l) \/ SynthesizeOk(l) \/ SynthesizeFails(l)
  \/ FirstChunk(l) \/ SendFirstChunk(l) \/ StreamChunk(l) \/ SynthesisCompleted(l)
  \/ SynthesisStalls(l) \/ ForwardChunk(l) \/ PassthroughDone(l)
  \/ LastWordsDone(l) \/ SpawnDrain(l) \/ LegReturn(l) \/ LegAbort(l)

DrainDeadLeg(l) ==
  \/ DrainTick(l) \/ DrainCtxDone(l) \/ DrainForward(l) \/ DrainFlushed(l)
  \/ DrainReturns(l) \/ DrainCheck(l)

\* What a backend has to return from first: the caller's, before the agent's is
\* called, and then the agent's.
StreamReturns == CloseStream("agent", "inCaller", "inAgent") \/ StreamsClosed

\* What Close does of its own accord.
CloseProceeds ==
  \/ CloseStream("caller", "closeCaller", "inCaller")
  \/ CloseWaited \/ CloseBackstop \/ CloseCancel \/ CloseOuts

Close == StreamReturns \/ CloseProceeds

Synthesis(l) == TtsProduces(l) \/ TtsVendorDrops(l) \/ TtsCutOff(l)

Next ==
  \/ \E l \in Leg :
       \/ PushBuffer(l) \/ PushASR(l)
       \/ AsrPartial(l) \/ AsrFinal(l) \/ AsrChannelCloses(l)
       \/ RunLeg(l) \/ DrainDeadLeg(l)
       \/ TtsDeadline(l) \/ Synthesis(l)
       \/ Listen(l)
  \/ CloseBegin \/ Close \/ ParentCancels

Spec == Init /\ [][Next]_vars

\* The goroutines run, the timers fire, Translate and SynthesizeStream return
\* within their timeouts and a synthesis notices that its context is done.  Go's
\* select is fair, so a goroutine that can see its context done sees it.  The
\* pushers, the ASR backend, the vendors and the listener owe nothing.
GoroutinesRun ==
  \A l \in Leg :
    /\ WF_vars(RunLeg(l)) /\ WF_vars(LegAbort(l))
    /\ WF_vars(DrainDeadLeg(l)) /\ WF_vars(DrainReturns(l))
    /\ WF_vars(TtsDeadline(l)) /\ WF_vars(TtsCutOff(l))

\* Nothing obliges Close, a stream's Close, an ASR backend or a listener: what a
\* property needs of them is its antecedent.
RunningSpec == Spec /\ GoroutinesRun

\* The listening parties keep taking what they are sent.
Listening == \A l \in Leg : WF_vars(Listen(l))

\* An ASR stream that was closed ends its channel.
ChannelsEnd == \A l \in Leg : WF_vars(closing /\ AsrChannelCloses(l))

=============================================================================
