# LangStream: verification development

LangStream translates telephone calls while they are spoken: audio of each
party goes through speech recognition (ASR), machine translation (MT) and speech
synthesis (TTS), and the other party hears the result. This directory holds TLA+
models of the parts of it that run concurrently and fail, the TLC runs that check
them on small instances, and theorems that the TLA+ proof system checks for every
value of the constants.

`PROJECT.json` lists the components, runs, hazards and theorems, and maps every
definition to the source lines it stands for.

## 1. The system

| component | source | state | operations |
|---|---|---|---|
| session | `pkg/langstream/session.go`, `fallback.go` | per leg: raw-audio ring buffer, failure counter, degraded flag, outbound channel; per session: context, `closing`, wait group | `NewSession`, `Push{Caller,Agent}Audio`, `runLeg`, `drainDeadLeg`, `Close` |
| circuit breaker | `pkg/{asr,translate,tts}/circuitbreaker.go` | `open`, `openUntil`, `consecutiveFails`, `probeInFlight` | `allow`, `recordSuccess`, `recordFailure`, `abort` |
| MT and TTS clients | `pkg/translate/{gpt4o,gemini}.go`, `pkg/tts/{cartesia,elevenlabs}.go` | a breaker per client; per call: attempt, backoff | `Translate`, `SynthesizeStream` |
| ASR streams | `pkg/asr/{deepgram,sarvam}.go` | connection and generation, `closed`, attempts, two wait groups, the Transcripts channel | `StartStream`, `PushAudio`, reader, keepalive, `failAndClose`, `Close` |
| jitter buffer, duplex bridge | `pkg/rtp` | base sequence and arrival, next sequence, buffered packets; started and stopped flags, six goroutines | `Push`, `Pull`; `Start`, `Stop`, bridges, TTS pacer |
| WebRTC gateway | `pkg/webrtcgw` | rooms by id; per room two seats, an idle timer, `closed` | `Join`, `leave`, `expireIncomplete`, signalling |
| WebRTC peer | `pkg/webrtcgw/{peer,inbound_buffer,alaw}.go` | inbound buffer, remote description, pending candidates | inbound and outbound bridge, offer, trickle |
| Cartesia's WebSocket | `pkg/tts/cartesia_ws.go` | connection, message under assembly | `dialWS`, `readWSMessage`, `writeWSFrame` |
| observability | `pkg/observability` | samples, errors, reasons under one lock | the records of the legs; `WriteText`, `BuildDashboardData` |
| selection | `pkg/langstream/{backends,personas}.go`, `pkg/tts/*_voices.go` | the registry, the persona of each language | `Register*`, `New*Backend`, `Set`, `Get`, `voiceFor` |
| command line | `cmd/langstream` | session, servers, result channels | `demo`, `serve`, `duplex`, `webrtc` |
| mocks, benchmark | `pkg/*/mock.go`, `tools/latency_benchmark` | buffered bytes, `closed`, sends in flight | `PushAudio`, `Close`; one iteration |
| measures | `pkg/qa`, `vad.go`, `backoff.go`, `alaw.go` | none, or the silence so far | word error rate, BLEU, percentile, VAD, delays, A-law |

How they meet. A gateway (`webrtcgw` or `rtp`) pushes frames into a session and
plays what its two outbound channels deliver. `NewSession` opens two ASR streams,
one per leg, and starts one `runLeg` goroutine each. A final transcript makes
`runLeg` call `Translate`, then `SynthesizeStream`, then forward the chunks. When
a step fails the utterance's raw audio is forwarded instead (passthrough). Every
MT, TTS and ASR client shares one circuit breaker among all calls and sessions
that use it. When an ASR stream ends by itself its leg is degraded and
`drainDeadLeg` keeps forwarding raw audio until the session is closed.

What is hard, and therefore modelled step by step:

* `Close` against everything: streams flushing, goroutines blocked on full
  channels, a second goroutine that starts while `Close` already waits, a backstop
  timer, a caller that cancels the context meanwhile.
* Raw audio is handed from one goroutine to another and must be neither lost nor
  repeated.
* One failure counter is reset and incremented from many branches.
* A breaker sees reports in any order: of calls admitted before and after a trip,
  of probes, of calls that were cancelled.
* A room is torn down by three parties: a peer's handler and its connection's state
  callback both call `leave`, and the idle timer fires when it likes. Each works in
  several locked sections.
* The pacer's feeder pushes and counts in two steps under a ticker that compares the
  count, and carries remainders from chunk to chunk.
* An ASR stream dials without its lock, closes a channel that other goroutines
  send on, and may meet a fatal error in one of the goroutines the tear-down must
  wait for.
* The goroutine that reads a synthesis has a watcher, a full channel and a deadline
  that somebody else set; what breaks off must not look finished.
* A page of the dashboard is read table by table while the legs record.
* A command ends with three goroutines handing errors over in channels that nobody
  may be reading any more.

What makes each component correct:

* session: nobody sends on a closed channel; `Close` is held up by nothing but a
  stream's own `Close`, loses no trailing transcript, leaves no goroutine; raw audio
  stays in order; a leg degrades when its budget is spent and stays degraded; no vendor
  keeps a leg from its next utterance.
* breaker: the probe slot never leaks; count and switch agree; it recovers when
  the vendor does.
* ASR stream: the channel is closed exactly once, after the last send; a closed
  stream always ends its channel; `Close` returns; a broken connection is replaced.
* rooms: a live room is the one its id leads to; a session is closed once; abandoned
  and deserted rooms are reclaimed; `Join` returns.
* vendor replies: only a whole reply is marked final; an answer is made in one attempt
  and billed once; no reader is left behind.
* peer: what a microphone sends reaches the session once and in order, its last part
  too; a seat's first sitter hears everything, good candidates are applied.
* WebSocket client: messages come out as they went in, whatever frames they came in.
* dashboard: a page shows no more calls of a stage than the stage before it let through.
* commands: after the signal everything is closed unless the session's own `Close` stays,
  and a server that never listened is reported.
* selection: each party is understood, and spoken to in a voice that somebody chose for
  its language.
* duplex bridge and jitter buffer: synthesized speech reaches the leg complete and in
  order, padded only where an utterance ends; the pacer gives nothing up that a full
  buffer did not turn away; `Stop` leaves no goroutine, whatever it races.

## 2. Modules

| module | models | uses |
|---|---|---|
| `Session` | the session, both legs | |
| `LegContract` | abstract: what a leg promises for each utterance | |
| `SessionProperties` | what a session must guarantee; the refinement to `LegContract` | `Session`, `LegContract` |
| `SessionProofs` | theorems of `Session` | `SessionProperties` |
| `CircuitBreaker` | the breaker's four methods and its clock | |
| `VendorCall` | concurrent MT/TTS calls through one breaker | `CircuitBreaker` |
| `VendorReply` | what the four vendors answer, and who reads it | `VendorCall` |
| `VendorCallProofs` | theorems of both; the second implements the first | `VendorReply` |
| `AsrConnect`, `AsrConnectProofs` | sessions whose two streams share a recognizer's breaker | `CircuitBreaker` |
| `AsrStream` | one streaming recognition | |
| `AsrVendors` | Deepgram's and Sarvam's, with what the breaker is told | `AsrStream` |
| `AsrStreamProofs` | theorems of both; the second implements the first | `AsrVendors` |
| `Rooms`, `RoomsProofs` | the room manager with its clients | |
| `JitterBuffer` | the fixed-delay buffer's `Push` and `Pull`, as operators | |
| `Duplex`, `DuplexProofs` | the RTP bridge: `Start`, `Stop`, bridges, feeders, tickers | `JitterBuffer` |
| `Recorder` | the counters of a call and the pages read from them | |
| `Media` | one WebRTC seat: bridges, inbound buffer, offer and candidates | |
| `Frames` | Cartesia's WebSocket framing | |
| `Shutdown` | `serve`, `duplex` and `webrtc` from start to return | |
| `MockCall` | a leg on the mocks, driven by demo, benchmark and call | |
| `Selection` | backends, languages, personas and voices of a call | |
| `Signals` | A-law, the voice detector's silence, the delays of retries | |
| `Quality` | the measures of text and latency, over inputs that grow | `Signals` |
| `PartsProofs` | theorems of the parts around a session | `Recorder`, `Media`, `Frames`, `MockCall`, `Selection` |
| `MeasuresProofs` | theorems of the measures | `Quality`, `Signals` |
| `MCSession`, `MCAsrConnect`, `MCRooms`, `MCDuplex` | values for TLC | |
| `MCVendors` | the calls of a client or a stream of a recognizer, one per behaviour | `VendorReply`, `AsrVendors` |
| `MCParts` | the seven parts above in one run, one per behaviour | |

**Session.** `pc[l]` is where `runLeg` is: `select` is its outer select; the
`translate`, `synthesize`, `await`, `sendFirst` and `stream` points are the calls and
channel operations of a translation, `forward` is a passthrough, and `lastWords`,
`spawn`, `return` are the death of the leg. `drainPc[l]` is where `drainDeadLeg`
is, `closePc` where `Close` is. `Close` calls the two streams' own `Close`
synchronously, one after the other and before it arms its backstop
(`session.go:388-393`), so `inCaller` and `inAgent` are places where it may stay for
good. Each channel operation, each locked section and each
call that may block is a step of its own. A frame is its number in the order of the
pushes; a transcript is `partial`, `low` or `ok` (the comparison with the confidence
threshold) with the range of frames it covers; texts and samples are left out. The
ASR stream and the synthesis are external and may do whatever their interfaces
allow: end early, stay silent, fail. `outcome` and `lastRaw` are history variables:
what became of each final transcript, and the last raw frame written.

**LegContract** is the promise a reader of `fallback.go`'s package comment takes
away: a leg settles each final transcript with one outcome, in order; once degraded it
settles by passthrough only and never comes back; and it settles nothing after it has
stopped. The refinement maps a leg to its mode (translating, degraded, stopped) and
its log of outcomes.

**CircuitBreaker** replaces `now < openUntil` by a boolean. `VendorCall` wraps it in
the loop all clients share: ask, attempt, back off, retry, report or abort.
`AsrConnect` wraps it in `NewSession`: the caller's stream, then the agent's, with
the connection (and its report) left to the first push.

**VendorReply** refines the moment `VendorCall` calls success. A translator's stream is
read inside the attempt, piece by piece into a builder; it may break off, and the next
attempt starts with an empty one. A synthesizer returns a channel; `stream[c]` is the
goroutine that fills it (`readLoop`), its connection (`line`), the pieces on the way and
those the leg `got`. `CancelShuts` is the watcher, `LateWatcher` that of `dialWS`, which
may find the dial's context cancelled after the dial has succeeded. A caller's next call
begins when its last reader is gone, since the two share nothing. As a bound, the
readers of `Followed` callers are followed.

**AsrStream.** Connections are numbered by generation, as in the code. A worker
goroutine is its place (`read`, `send`, `gone`); the wait groups are what the workers
still at work amount to. One goroutine pushes, as `StreamSession` demands. `Close`,
`failAndClose` from any goroutine, cancellation of the parent context and the
vendor's hang-up interleave with it freely. `failAndClose` is one step, because
after its locked section nothing it does is observable out of order. `AsrVendors` adds
`settleBreaker` and the success that `ensureConnected` reports after it has let go of the
lock, and leaves out the keepalives when the vendor is Sarvam.

**Rooms.** A client is a WebSocket that asks for an id and a role, joins once and
hangs up once. A room is named by the client whose `Join` created it. Each section
under `Manager.mu` or `Room.mu` is a step: `roomFor`'s lookup (or creation), its check
of `closed`, the creator's arming of the timer, the seating; and in `leave` and
`expireIncomplete` the taking of seats, the removal from the directory and the closing
of the session. `step[k]` is where one of the two calls to `leave` for a client is. The
timeout and the room cap are taken as enabled. As a bound, a connection's
failure is reported by one callback (pion may report several states).

**Duplex.** `Start` holds its lock throughout and is one step. `stopPc` is where
`Stop`'s body is: the caller's leg, the agent's, cancel, wait. Per leg, `bridge`, `feed`
and `run` are where its three goroutines are. PCM is numbered in the order of its
synthesis, in units of which `Frame` make a `ttsFrameBytes`; a payload is the range it
carries, so that what was lost, repeated or joined can be seen. The feeder cuts a chunk
into payloads (`todo`), then pushes and counts each in two steps. `JitterBuffer` keeps
wrapping sequence numbers at a small width; its deadline is abstracted to whether an
empty slot is overdue, which `Pull` is told and may be told at any time. ClearStream and
the session are external: they deliver frames and chunks, or close, when they like.

**Recorder.** `place[l]` is where a leg is between two records of an utterance; each
record is a step under the recorder's lock. A scrape reads one table per step, in the
order of `WriteText` or of `BuildDashboardData`. Durations are counted.

**Media.** Browsers take a seat one after another. Each brings the goroutine of
`startInboundBridge`, the one of `startOutboundBridge` and the exchange of offer and
candidates; both goroutines live as long as the room, so those of a browser that left
may still run beside its successor's. A microphone's goroutine is `ended` after a failed
read, which flushes, and `cancelled` when it found the room's context done, which does
not.

**Frames.** The server cuts messages into frames and puts control frames between them,
as RFC 6455 allows; the client is `readWSFrame` and `readWSMessage`. A payload is its
length and which frame it is.

**Shutdown.** `main`, `dash` and `server` are where the command, `serveDashboard` and
the goroutine of `ListenAndServe` are; the result channels have one place each. A call of
`Session.Close` and its return are two steps, and nothing makes the second one happen.
The sessions of webrtc's rooms come and go with the browsers (`RoomsChange`), also after
`http.Server.Shutdown`, until the process exits.

**MockCall.** The mock stream's lock, its wait group of sends and its channel, under
the goroutines of a transport that pushes or under the one frame of `runDemo` and
`runIteration`; and the leg that hears it, translates and speaks on mocks.

**Selection.** A name of a voice is a pair of role and language. A call is started from
a flag, environment variables, keys that are set or not and registrations that replace a
vendor; personas are set beforehand and in the call, also between a leg's look-up and
its request. `asked` is a history variable: the personas set, each with the language it
was set for.

**Quality, Signals.** Inputs grow a word, a latency, a sample, a frame or a retry at a time, and
the operators are compared with definitions of another kind: the edit distance with the
cheapest alignment, clipped n-gram counts with the largest matching, and so on.

Operators named `Mutant: ...` are variations of the definition that follows them, the
way a plausible bug would change it; no specification uses them. Each shows that the
property listed for it in `PROJECT.json` would notice.

## 3. Runs

| run | checks | expected |
|---|---|---|
| `session` | `TypeOK`, `RawAudioInOrder`, `WaitGroupCounts`, `NoGoroutineAfterClose`, `HangupFlushes`, `DegradedNeverTranslates`, `LegsKeepContract` | pass |
| `session_liveness` | `CloseReturns`, `HangupNeedsNoBackstop`, `DeadLegStillHeard`, `LegNeverStuck` | pass |
| `session_failure_budget` | `ConsecutiveFailuresDegrade` | violation |
| `session_synthesis_cut` | `StartedSynthesisIsNotCut` | violation |
| `vendors` | of the calls `ProbeSlotIsHeld`, `OpenIffBudgetSpent`, `FinalMarksCompletion`, `AnswerIsOneAttempt`, `RecoversWithVendor`, `ReadersEnd`; of the stream `TypeOK`, `NoSendOnClosedOut`, `OneReader`, `ToldOnce`, `ClosedStreamEnds` | pass |
| `asr_breaker_recovers` | `RecoversWithVendor` | violation |
| `asr_stream_close` | `CloseReturns` | violation |
| `rooms` | `SessionClosedOnce`, `LiveRoomListed`, `AbandonedRoomReclaimed`, `DesertedRoomReclaimed`, `JoinReturns` | pass |
| `rooms_join_closed` | `JoinedRoomIsLive` | violation |
| `duplex` | `TypeOK`, `EverySampleOnce`, `PaddedOnlyAtEnd`, `StopLeavesNothing`, `PushedIsResolved`, `GoroutinesEnd` | pass |
| `parts` | `PageAddsUp`, `MediaWhole`, `MessagesWhole`, `Measures`, `MockHeard`, `CallFits`, `RunEnds` | pass |
| `parts_mic_flush` | `TornDownMicIsFlushed` | violation |

Bounds, and why they are enough.

* `session`. The legs share only the context, the wait group, `closing` and `Close`,
  so one leg carries the conversation and the other opens, may be pushed to, and closes.
  The call (`LongOrLoud`) is either three final transcripts against a budget of two, so
  the leg can fail, recover, fail twice, degrade and be given one more; or two frames
  through a ring of one, so eviction happens, with one transcript, whose passthrough,
  drain or translation can take either. The leg's ASR stream is free to die in both.
  Channels hold one element, which makes every send block at some time.
* `session_liveness` uses one frame and one transcript (`ShortCall`): its difficulty is
  which goroutine waits for which. The two violations need one and two transcripts.
* `vendors`. A behaviour is about the callers of one client or about one stream, which
  share nothing. Two callers of each of the four clients, two attempts, threshold two, at
  most four failures: a call admitted before a trip can report during another's probe.
  Replies of up to three pieces through a channel of one, so that a reader blocks with
  one piece delivered, one queued and one in hand. One caller's reader is followed;
  readers share nothing. The stream, of each of the two ASR vendors, has three pushes, each
  with up to two dials, so six generations, and two transcripts into a channel of one.
* `asr_breaker_recovers`: one session suffices.
* `asr_stream_close`: one push with up to two dials.
* `rooms`: two clients and one id, the second in either role: a full room, a refused
  role, a successor created while its predecessor is still being torn down, a full
  gateway, two late `leave` calls each and a timer that races them all.
* `duplex`: three chunks of nothing or one and a half frames, each final or not, so up
  to six payloads, carried remainders and the empty final chunk; sequence numbers
  modulo four, so they wrap; a buffer of one, so it overflows. The backlog stays within
  half a turn of the sequence numbers (in the code 2^15 payloads, eleven minutes of unheard
  speech). One leg listens to synthesis and the other's party speaks one frame.
* `parts`: two legs with one utterance each and a page that may begin between any two
  records; two browsers in a seat, with three packets for a buffer of two, two chunks of
  two frames or two candidates; four WebSocket frames of lengths around both limits of
  the encoding and above the largest frame; sentences of three words over two; five latencies; every
  17th sample, which is odd and meets every segment of A-law; frames whose duration is not
  a whole number of milliseconds; retries past the twentieth doubling; four pushes from
  two goroutines into a mock that flushes at two; four environments, four personas (on the
  roster, not on it, the zero value, of an unknown language), one registration or persona
  set at any time.

All runs are exhaustive within these bounds. Systems that may stop (a closed session,
a stream after its last push, a command that has returned) are checked without TLC's
deadlock check; `asr_breaker_recovers` keeps it.

### Fairness

`RunningSpec` of `Session` assumes what the Go runtime and the timers give: a goroutine
that can go on goes on, a timer fires, a call made with a timeout returns, a select
that keeps seeing its context done takes that branch. The ASR backend, the vendors,
the pushers and the listeners owe nothing. What a property needs beyond that is its
antecedent: `Listening`, the parties take what they are sent; `ChannelsEnd`, a stream
whose `Close` was called ends its channel; and in `CloseReturns`, that `Close` itself
goes on. That a stream's own `Close` returns is assumed nowhere, because it need not
(`asr_stream_close`; the mock's waits for room in its channel): `CloseReturns` says that
`Close` returns or is in such a call, and `HangupNeedsNoBackstop` that the goroutines
end even while it is. `DeadLegStillHeard` releases its promise when the session closes.

`FairSpec` of `AsrConnect` and `ReplyFairness` of `VendorReply`: calls keep coming and
end, time passes, an attempt on a healthy vendor that is made again and again succeeds in
the end (strong fairness: calls may also be cancelled while probing), readers and watchers
run and a deadline passes; a vendor owes no piece of its reply and a leg need not take what
is there. `VendorsFairness` of `AsrVendors`: dials end, readers see their socket end, a
blocked send sees the context, and the vendor drops a connection of a closed stream,
as Deepgram does when neither audio nor keepalives arrive. `MCFairSpec` is both, for the
one a behaviour is about. `FairSpec` of `Rooms`: calls of `Join` and `leave` go on and an
armed timer fires; no client must come, hang up or lose its connection. `FairSpec` of
`Duplex`: goroutines and a `Stop` under way go on, the ticker ticks, `Push*Audio` returns;
nobody has to call `Stop` or speak. `PartsSpec`: the three goroutines of a command go on;
nobody has to send the signal, and `Session.Close` need not return: `RunEnds` says that the
command then waits for it and for nothing else.

### What the violations show

* `session_failure_budget`. `fallback.go` says that MT and TTS failures are counted
  together, but a successful translation resets the counter before the synthesis is
  tried. A leg whose TTS fails on every utterance is never degraded.
* `session_synthesis_cut`. `session.go:872-876` and `fallback.go:156-160` say that a
  synthesis which has started is not cut off however long it takes; the context it is read
  under carries `SynthesizeTimeout` for the whole of it (`session.go:667`). `LegNeverStuck`
  is the other side: because of this cut, no vendor that stops in mid-synthesis holds a leg.
* `asr_breaker_recovers`. `NewSession` needs two admissions and a half-open breaker
  gives one. The second `StartStream` is rejected, the first stream is closed before
  it ever connected, its probe is aborted, and the next call repeats that: after a
  trip no session can be opened on that recognizer until the process restarts.
* `asr_stream_close`. A `Close` during a dial finds no connection to shut; the dial
  then completes, and `Close` waits for a reader that only the vendor can end.
  `Session.Close` calls it ahead of its own backstop.
* `rooms_join_closed`. `Join` locks the room anew after `roomFor` checked it and does
  not look at `closed`: a peer may be seated in a room whose session is gone.
* `parts_mic_flush`. `inbound_buffer.go:27-29` promises a flush when the room is torn down;
  the microphone's goroutine returns without one when it sees the context done between two
  reads (`peer.go:158-159`), and the session may still be open then, since `leave` and
  `expireIncomplete` cancel first and close it afterwards.

Met while modelling and not kept as runs: `fallback.go:6-8` says that nothing is
silently dropped, but a synthesis channel that closes without a chunk counts as a
success (`session.go:905-909`) and the utterance is heard neither translated nor raw (an
outcome of its own, `silent`, in the log that `LegsKeepContract` is about); a late drain
takes the next utterance's audio; a dead leg's last flush may deliver nothing; two
breaker probes may run at once when a call admitted before the trip reports; a failed
dial closes the stream whatever `WithMaxReconnectAttempts` says; cancelling the context
does not close Transcripts; a write that fails before the reader has noticed is retried
on the broken connection; a peer's second `leave`, if late, acts on the room that has
meanwhile taken its id, and closes it when it finds nobody seated; `Close` of a Deepgram
stream asks for the trailing results and drops them, because `closed` is already set
(`HangupFlushes` holds of the session, which waits for what its stream still sends); a
synthesis that breaks off leaves its remainder to the head of the next utterance; frames
left in a CleanAudio channel race the cancellation that follows the legs' stop; the
pacer's `PullLost` never means a stalled synthesis, as its comment says, but always an
overflow.

In the replies: `dialWS`'s watcher may shut a connection it has just handed over, because
the dial's context is cancelled on return; a translation that ends without `[DONE]` counts
as whole, Cartesia's `done` never marks a chunk final.

Around the session: `main.go:54-57` says that `--backend` runs a call "entirely on real
vendors", and `16-17` that a registered name is all it takes, but it is one name for
three registries and no vendor is in more than one, so only `mock` starts a call.
`main.go:423-424` says that the session "finished closing (or timed out)" before `serve`
goes on, but no timeout covers the streams' own `Close`: a Deepgram stream in that state
keeps `serve` and `duplex` from returning. `runWebRTC` closes no room, so the sessions
of its rooms are left to the end of the process. `personas.go:49-53` says that setting
the zero persona reverts to the default of its language; it is kept, and Cartesia and
ElevenLabs speak it with the English voice, the mock not at all (`VoicesAskedFor` takes
it for a persona that was set, as the code does). `session.go:66-71` says that code
switching has no effect on backends that ignore the hint; Deepgram takes no hint as
English, so a Hindi caller is recognised as one who speaks English (`SidesUnderstood`
says exactly who is understood). `metrics.go:220` calls reasons a strict subset of
errors; on a page that is read while the legs record they may be more. The bridge of a
browser that has left takes audio of its successor. The benchmark's report
(`main.go:262-268`) explains its silence by a bug of `Session.Close`; it listens before
it hangs up, with too little audio for a transcript, and `MockHeard` has it that nothing
can be heard then. `PROJECT.json` lists most of these as hazards.

## 4. Proofs

From the named assumptions on the constants alone (capacities and thresholds are
positive, bounds are naturals; each module names its own, such as `BacklogAssumption`,
which keeps the backlog of a pacer within half a turn of the sequence numbers), for any
number of frames, transcripts, callers, attempts, pushes and generations.

| theorem | states |
|---|---|
| `SessionTyped` | `Spec => []TypeOK`, the bound of the ring buffer included |
| `WaitGroupIsExact` | `Spec => []WaitGroupCounts` |
| `NoSendOnClosedChannel` | `Spec => []NoGoroutineAfterClose` |
| `DegradedStaysOut` | `Spec => []DegradedNeverTranslates` |
| `RawAudioOnceInOrder` | `Spec => []RawAudioInOrder` |
| `HangupLosesNothing` | `Spec => []HangupFlushes` |
| `LegsImplementContract` | `Spec => LegsKeepContract` (refinement) |
| `CallTyped`, `BudgetGovernsBreaker`, `ProbeSlotNeverLeaks` | the safety properties of `VendorCall` |
| `RepliesImplementCalls` | `ReplySpec => CallSpec` (refinement): they hold with replies too |
| `AnswersAreWhole` | `ReplySpec => []AnswerIsOneAttempt` |
| `FinalMeansWhole` | `ReplySpec => []FinalMarksCompletion` |
| `ConnectTyped`, `ConnectProbeNeverLeaks` | the safety properties of `AsrConnect` |
| `StreamTyped`, `NoSendAfterClose`, `ReadersNeverOverlap` | the safety properties of `AsrStream` |
| `VendorsImplementStream` | `VendorsSpec => Spec` (refinement): they hold of both vendors |
| `BreakerToldOnce` | `VendorsSpec => []ToldOnce` |
| `StopIsFinal` | `Spec => []StopLeavesNothing` of `Duplex` |
| `SamplesOnce`, `PaddedAtEnd`, `Typed` | `Spec => []` of `EverySampleOnce`, `PaddedOnlyAtEnd`, `TypeOK` of `Duplex` |
| `PushIgnoresWrapping`, `PullIgnoresWrapping` | `Push` and `Pull` answer, and leave the buffer, as one whose sequence numbers are integers |
| `RoomsTyped`, `OneTearDown`, `LiveRoomReachable` | the safety properties of `Rooms` |
| `PagesAddUp` | `RecorderSpec => []PageAddsUp`, for any finite set of legs |
| `SeatIsWired` | `MediaSpec => []MediaWhole` |
| `MessagesComeWhole` | `FramesSpec => []MessagesWhole` |
| `MockCallIsHeard` | `MockSpec => []MockHeard` |
| `CallsFit` | `SelectionSpec => []CallFits` |
| `SoundAndTimeMeasured` | `SignalsSpec => []SignalsMeasured`, the part of `Measures` about sound and time |
| `MeasuresAreExact` | `QualitySpec => []Measures`, for sentences and latencies of any length |

The arguments.

* *Types* come first and are proved group by group (ingress, ASR, health, work,
  synthesis, output, life); an action is shown to keep a group either because it
  leaves it alone or by a lemma about its helper.
* *Shutdown.* `NoGoroutineAfterClose` is not inductive: nothing in it connects the
  closing of the channels with the goroutines. The invariant behind it is
  `WaitGroupCounts` with the fact that `Close` is beyond its wait only if every
  goroutine has exited. `WaitGroupCounts` has to survive the hand-over in which one
  goroutine starts another, which is why `spawn` and `return` are separate points.
* *Degradation.* The invariant adds that a leg at a translation point was not
  degraded when it got there and that only `runLeg` of that leg changes its health,
  so no other goroutine can degrade it in between.
* *Refinement.* Every step of `Session` changes the leg's mode and log in one of the
  three ways `LegContract` allows, or not at all. It needs that the log grows only at
  points a running leg can be at, and that a stopped leg stays stopped.
* *Probe slot.* A taken slot has a holder: `allow` makes one, and each report that
  ends a call frees the slot with it. What the breaker's own methods keep is a lemma about them, whoever
  calls them (`MethodsTyped`, `MethodsKeepBudget`). In `AsrConnect` the invariant adds that a session opens and closes its two
  streams in order.
* *Answers.* The pieces in the builder are of the current attempt, and there are none
  before an attempt has read one; what is billed is what was answered.
* *Stream.* `OneCloser` says that whoever set `closed` is alone in ending the channel,
  and that once the sends are gone none begins, because a send is registered under
  the lock only while the stream is open. Both theorems follow. `ReaderIsCurrent` says
  that a reader that can still deliver is the one of `conn`, or there is no `conn`; a dial
  starts only without one.
* *Pages.* A stage's calls are those of the stage after it plus the legs that are between
  the two records. The invariant counts these legs by their places, at every moment and at
  the moment each table was read, and a page adds up because a number of legs is never
  negative.
* *Rooms.* `RoomsInvariant` says besides the types that a client names a room only
  after that room was created; that a created room that is open is listed under its
  id; and that a room has at most one closer: the `leave` or the expiry that set
  `closed` is the only one between its locked section and the end of the session.
* *Duplex.* A goroutine that is gone stays gone once `Stop` has set its flag, because
  only `Start` makes goroutines; `Stop` returns without an error from a state in which
  all are gone.
* *Raw audio.* A frame's number grows from the last frame sent over those the leg has in
  hand to those in the ring buffer, none of which is above the number pushed. A push that
  evicts, a drain and a passthrough each keep that order; that `ttsBuf` holds no raw audio
  is part of the invariant, because a leg that falls back sends both.
* *Hangup.* The final transcripts a stream gave are counted: those settled, those still in
  the channel and the one a leg has in hand. A leg is past its select only when the
  channel is closed and empty, and `Close` releases the context only when both goroutines
  are gone, so nothing is left to count anywhere but among the settled.
* *Told once.* `OneOutcome`: from the moment it is settled, the outcome is either told or
  owed by the push that has just dialled. A failure is told only by a push that closes the
  stream before any connection was up, and after that nobody dials. It rests on the
  invariant of the stream.
* *The final chunk.* `Faithful` says of a leg's reply what channel and leg have carried, by
  where the reader is: the pieces read but the one in its hand, in order and unmarked
  until the end of a whole reply. `FinalMarksCompletion` speaks of what has arrived and
  does not see the reader, so it is not inductive alone.
* *Speech.* `InStep` keeps the feeder's sequence number ahead of the ticker's by the number
  of payloads between them, which stays within half a turn, so signed distances order the
  buffer as the payloads were cut although the numbers wrap. `InOrder`, `DroppedApart` and
  `Covered` then place every unit cut in exactly one of four places: heard, buffered, in
  the feeder's hand, or dropped. `AllWellCut` carries where an utterance ends.
* *Wrapping.* `Wraps` relates a jitter buffer to one whose packets are numbered by the
  integers: the same packets, less than half a turn ahead of `nextSeq`, under their numbers
  modulo a turn. Empty buffers are related, and every `Push` of a packet within half a turn
  of `nextSeq`, the condition `seqDelta` states (`jitter.go:271`), and every `Pull` keeps
  them so with the same answers. Whether a packet is overdue is the same input to both: the
  deadline is not among what is proved.
* *The parts.* `SeatIsWired` has one invariant for each way through a seat: what was pushed
  and what is buffered are the frames read; the ears, the bridge's hand and the channel are
  one row of frames while the first browser's bridge runs; the candidates of a browser
  before its first bad one (`GoodFront`) wait before the offer and are applied after it,
  whatever comes behind. `MessagesComeWhole` ties the reader to the server: the client is in
  the middle of a message exactly when the server was after the frames seen so far, what
  is delivered and what is assembled hold every data frame once, and each ping has a pong
  of its own; that a length survives its header is a lemma over both of its limits.
  `MockCallIsHeard` follows the one final transcript: queued, in the leg's hand, or voiced.
  `CallsFit` needs that every persona kept, also the one a side looked up before another
  was set, was asked for under the language it is kept for.
* *Sound and time.* Magnitudes are divided into steps: one lemma says that each magnitude
  of 15 bits lies in a step together with its clipped value, another that all of a step
  have one code, and what is decoded is the middle of its step. The milliseconds counted
  as silence are those of the samples less at most one for each frame (`Silent`). Delays
  double unless at their cap. `DelaysAssumption` had to say that the cap is reached within
  the twenty doublings the code allows: beyond it the jitter of an earlier retry may exceed
  the next delay, which no run with the vendors' constants (at their cap after five) shows.
* *Sentences.* The edit distance is defined by recursion over the table and the clipped
  matches by recursion over sets of grams, so both theorems are inductions. No theorem of
  the library about induction can be used, because they take an operator as a parameter;
  `AllNumbers` says the same of a set of numbers and follows from the well-foundedness of
  `<`. A recursive function is a choice among those that satisfy the recursion, so the
  first induction shows that there is one (`TableExists`, `SumExists`). The next shows
  what it is. An entry of the table is the cost of a cheapest alignment of the words above
  and left of it (`Cheapest`): an alignment either leaves one of the last two words out or
  pairs them with each other. When the words are equal, pairing them must be shown to be
  no worse than leaving one out, since the code does not even look at the alternatives;
  `WordOff` says that an entry and its neighbour differ by at most one. The sum over a set
  of grams is the size of a largest matching of their occurrences (`Matched`), because
  equal grams match as far as the shorter side goes and pairs of different grams share no
  place. A score of one for at most four words makes the candidate its own longest gram,
  found in a reference that is no longer.
* *Latencies.* `sort.Float64s` is the k-th value with k - 1 before it; that every rank is
  taken (`RanksAreTaken`) is a pigeonhole, since no two values have as many before them.
  A percentile lies between the values of its two ranks, so the lower rank's predecessors
  lie below it and the upper rank's successors above.

Model-checked only: everything that says *eventually* (`CloseReturns`,
`HangupNeedsNoBackstop`, `DeadLegStillHeard`, `LegNeverStuck`,
`RecoversWithVendor`, `ReadersEnd`, `ClosedStreamEnds`, `AbandonedRoomReclaimed`,
`DesertedRoomReclaimed`, `JoinReturns`, `PushedIsResolved`, `GoroutinesEnd`, `RunEnds`),
since liveness under fairness and ENABLED are out of the prover's reach. Every other
property of a passing run is stated by a theorem.

Recursion is written as recursive functions and folds throughout, never with RECURSIVE
operators, which the prover cannot use.

## 5. Not modelled

* `pkg/qa/corpus.go` and `translation_corpus.go`: 5051 lines of sentences, more than a
  quarter of the implementation, without behaviour.
* Request and response formats, prompts, URLs, prices; texts and samples. A conversion is
  modelled where a property depends on it: A-law, frame lengths, the cutting of chunks.
* Flags, help texts, the validation of addresses, HTML and number formats; the log.
* Costs: only a vendor's client records them, and nothing under `cmd` gives one a recorder.
* Time stamps of transcripts (`StartMS`, `EndMS`), which nothing outside `pkg/asr` reads.
* The examples, the fake vendors of the benchmark and its report.
* ClearStream, pion, gorilla/websocket, `net/http`: external, modelled by what the code
  relies on. ClearStream is not in the repository.

## 6. Plan

Done, in the order in which they depend on each other: `Session` with its contract; the
breaker and the vendors' calls; `AsrConnect`; `AsrStream`; `Rooms`; `Duplex` with its
`JitterBuffer`; replies and the second ASR vendor as refinements; the parts around a
session; a theorem for every safety property of a passing run.

Open:

1. The deadlines of `JitterBuffer`: its order is proved not to see the wrap, but a deadline is
   counted from a base that is never moved, and is known to jump at half the range.
2. `Session` with `Recorder` as its clock: the times of the stages rather than their counts.
3. What the bound on a browser's number in `MediaWhole` leaves unsaid: which audio a second
   browser hears from the bridge of the first.
