------------------------------ MODULE MockCall ------------------------------
(***************************************************************************)
(* One leg of a session on the mock backends (pkg/asr/mock.go,              *)
(* pkg/translate/mock.go, pkg/tts/mock.go), driven the three ways the       *)
(* repository drives it: by runDemo (cmd/langstream/main.go), which hangs   *)
(* up and then listens; by an iteration of the latency benchmark            *)
(* (tools/latency_benchmark/main.go), which listens and then hangs up; and  *)
(* by a call, whose transport pushes audio from goroutines of its own until *)
(* the session refuses it.  Both of a call's legs are alike; this is the    *)
(* one that is spoken to.                                                  *)
(*                                                                         *)
(* A frame of audio is counted; a transcript is partial or final; of the    *)
(* session (Session) only what the backends meet is kept.                  *)
(***************************************************************************)
EXTENDS Naturals, Sequences

CONSTANTS
  Feeders,       \* the goroutines of a transport that push audio
  MaxPushes,     \* bound: frames pushed
  FlushFrames,   \* frames that make mockFlushBytes
  OutCapacity,   \* capacity of the mock stream's channel
  HearsCapacity, \* capacity of the session's outbound channel
  NumChunks      \* chunks of a synthesis

ASSUME MockAssumption ==
  /\ MaxPushes \in Nat /\ {OutCapacity, HearsCapacity, NumChunks} \subseteq Nat \ {0}
  /\ FlushFrames \in Nat \ (0 .. 1)   \* one frame alone is never flushed

VARIABLES
  use,        \* "demo", "benchmark" or "call"
  user,       \* where the goroutine that uses the session is
  outcome,     \* what came of it: "none" so far, "heard", "silent" or "failed"
  pushes,     \* frames pushed so far
  feeder,     \* where each transport goroutine is
  unflushed,  \* mockStreamSession.buffered
  closed,     \* mockStreamSession.closed
  out,        \* its channel
  outOpen,    \* the channel is not closed
  emitted,       \* transcripts ever put on it
  cancelled,  \* the session's context is done
  hurried,    \* a deadline has passed: the backstop, the demo's or ttsCtx's
  leg,        \* where runLeg is
  late,       \* ttsCtx is past its deadline
  next,       \* chunks the mock synthesizer has made, of this synthesis
  voice,      \* its goroutine: "none", "speaking", "ended"
  speech,     \* the channel between them
  voiced,     \* finals that were synthesized and forwarded whole
  hears       \* the session's outbound channel

feedVars == <<pushes, feeder, unflushed, closed, out, outOpen, emitted>>
legVars == <<leg, late, next, voice, speech, voiced, hears>>
userVars == <<use, user, outcome, cancelled, hurried>>
mockVars == <<feedVars, legVars, userVars>>

MockInit ==
  /\ use \in {"demo", "benchmark", "call"}
  /\ user = "push" /\ outcome = "none"
  /\ pushes = 0 /\ feeder = [f \in Feeders |-> "ready"]
  /\ unflushed = 0 /\ closed = FALSE /\ out = <<>> /\ outOpen = TRUE /\ emitted = <<>>
  /\ cancelled = FALSE /\ hurried = FALSE
  /\ leg = "listen" /\ late = FALSE /\ next = 0 /\ voice = "none" /\ speech = <<>> /\ voiced = 0
  /\ hears = <<>>

-----------------------------------------------------------------------------
(* mockStreamSession.                                                      *)

\* send: the select takes either branch when both are ready.
Emits(kind) ==
  \/ Len(out) < OutCapacity /\ out' = Append(out, kind) /\ emitted' = Append(emitted, kind)
  \/ cancelled /\ UNCHANGED <<out, emitted>>

\* Under the lock: the frame is counted, and a transcript made of a full buffer.
Buffers ==
  /\ ~cancelled /\ ~closed /\ pushes < MaxPushes
  /\ pushes' = pushes + 1
  /\ unflushed' = (unflushed + 1) % FlushFrames
  /\ UNCHANGED <<closed, out, outOpen, emitted>>

PushAudio(f) ==
  /\ use = "call" /\ feeder[f] = "ready" /\ Buffers
  /\ feeder' = [feeder EXCEPT ![f] = IF unflushed' = 0 THEN "sending" ELSE "ready"]
  /\ UNCHANGED <<legVars, userVars>>

\* After the lock; sendWG counts the feeder until it is done.
PushSends(f) ==
  /\ feeder[f] = "sending" /\ Emits("partial")
  /\ feeder' = [feeder EXCEPT ![f] = "ready"]
  /\ UNCHANGED <<pushes, unflushed, closed, outOpen, legVars, userVars>>

PushRefused(f) ==
  /\ use = "call" /\ feeder[f] = "ready" /\ (cancelled \/ closed)
  /\ feeder' = [feeder EXCEPT ![f] = "gone"]
  /\ UNCHANGED <<pushes, unflushed, closed, out, outOpen, emitted, legVars, userVars>>

NoneSending == \A f \in Feeders : feeder[f] # "sending"

\* Mutant: Close does not wait for the sends in flight.
CloseUnwaited ==
  /\ closed /\ outOpen /\ user = "closing"
  /\ Emits("final") /\ outOpen' = FALSE
  /\ UNCHANGED <<pushes, feeder, unflushed, closed>>

\* Close, first half: no new sends from here on.
MarksClosed ==
  /\ ~closed /\ closed' = TRUE /\ unflushed' = 0
  /\ UNCHANGED <<pushes, feeder, out, outOpen, emitted>>

\* Second half, once sendWG is zero: the final transcript, and the end.
FlushesFinal ==
  /\ closed /\ outOpen /\ user = "closing" /\ NoneSending
  /\ Emits("final") /\ outOpen' = FALSE
  /\ UNCHANGED <<pushes, feeder, unflushed, closed>>

-----------------------------------------------------------------------------
(* runLeg, on the mock translator and synthesizer.                         *)

Delivers(chunk) == Len(hears) < HearsCapacity /\ hears' = Append(hears, chunk)

\* A partial transcript is passed over; at the end of the channel, or of the
\* context, the leg returns.
LegListens ==
  /\ leg = "listen"
  /\ \/ /\ out # <<>> /\ out' = Tail(out)
        /\ leg' = IF Head(out) = "final" THEN "translate" ELSE "listen"
     \/ out = <<>> /\ ~outOpen /\ leg' = "gone" /\ UNCHANGED out
     \/ cancelled /\ leg' = "gone" /\ UNCHANGED out
  /\ UNCHANGED <<pushes, feeder, unflushed, closed, outOpen, emitted,
                 late, next, voice, speech, voiced, hears, userVars>>

\* The mock answers at once, and SynthesizeStream returns with its goroutine
\* started; a context that is done fails it instead.  The goroutine of an earlier,
\* abandoned synthesis has its own channel, with room for all it can say.
Translate ==
  /\ leg = "translate"
  /\ IF cancelled THEN leg' = "pass" /\ UNCHANGED <<late, next, voice, speech>>
     ELSE leg' = "await" /\ late' = FALSE /\ next' = 0 /\ voice' = "speaking" /\ speech' = <<>>
  /\ UNCHANGED <<voiced, hears, feedVars, userVars>>

\* The goroutine of SynthesizeStream: a chunk, and a pause before the next.
VoiceSpeaks ==
  /\ voice = "speaking"
  /\ \/ /\ Len(speech) < NumChunks
        /\ speech' = Append(speech, IF next + 1 = NumChunks THEN "last" ELSE "chunk")
        /\ next' = next + 1
        /\ voice' = IF next' = NumChunks THEN "ended" ELSE "speaking"
     \/ (late \/ cancelled \/ leg \notin {"await", "forward"}) /\ voice' = "ended"
        /\ UNCHANGED <<next, speech>>
  /\ UNCHANGED <<leg, late, voiced, hears, feedVars, userVars>>

\* ttsCtx's deadline.
SynthesisLate ==
  /\ leg \in {"await", "forward"} /\ ~late
  /\ late' = TRUE /\ hurried' = TRUE
  /\ UNCHANGED <<leg, next, voice, speech, voiced, hears, feedVars,
                 use, user, outcome, cancelled>>

\* forwardTTSWithStallGuard, forwardAudio.
Forwards ==
  /\ leg \in {"await", "forward"}
  /\ \/ /\ speech # <<>> /\ speech' = Tail(speech) /\ Delivers(Head(speech))
        /\ leg' = IF leg = "await" /\ Head(speech) = "last" THEN "listen" ELSE "forward"
        /\ voiced' = IF leg' = "listen" THEN voiced + 1 ELSE voiced
     \/ /\ speech = <<>> /\ voice = "ended" /\ leg' = "listen"
        /\ voiced' = IF next = NumChunks THEN voiced + 1 ELSE voiced
        /\ UNCHANGED <<speech, hears>>
     \/ cancelled /\ leg' = "gone" /\ UNCHANGED <<speech, voiced, hears>>
     \/ leg = "await" /\ late /\ leg' = "pass" /\ UNCHANGED <<speech, voiced, hears>>
  /\ UNCHANGED <<late, next, voice, feedVars, userVars>>

\* The raw audio instead.
PassesThrough ==
  /\ leg = "pass"
  /\ \/ Delivers("raw") /\ leg' = "listen"
     \/ cancelled /\ leg' = "gone" /\ UNCHANGED hears
  /\ UNCHANGED <<late, next, voice, speech, voiced, feedVars, userVars>>

-----------------------------------------------------------------------------
(* Those who use the session.                                              *)

UserGoes(from, to) == user = from /\ user' = to /\ UNCHANGED use

\* The one frame of runDemo and of runIteration.
PushesFrame ==
  /\ use # "call" /\ UserGoes("push", IF use = "demo" THEN "close" ELSE "listen")
  /\ Buffers /\ UNCHANGED <<feeder, outcome, cancelled, hurried, legVars>>

\* The demo's context is done already: the error of the push, after Close.
PushFails ==
  /\ use = "demo" /\ cancelled /\ UserGoes("push", "close") /\ outcome' = "failed"
  /\ UNCHANGED <<cancelled, hurried, feedVars, legVars>>

\* The transport of a call begins, and at some time it ends.
CallEnds ==
  /\ use = "call" /\ UserGoes("push", "close")
  /\ UNCHANGED <<outcome, cancelled, hurried, feedVars, legVars>>

\* Session.Close: the stream, in two halves.
ClosesStream ==
  /\ UserGoes("close", "closing") /\ MarksClosed
  /\ UNCHANGED <<outcome, cancelled, hurried, legVars>>
StreamCloses ==
  /\ FlushesFinal /\ user' = "waiting"
  /\ UNCHANGED <<use, outcome, cancelled, hurried, legVars>>

\* Then the legs; then the context, and the outbound channel, which keeps what is
\* in it.
LegsDone ==
  /\ leg = "gone"
  /\ UserGoes("waiting", IF use = "demo" /\ outcome = "none" THEN "listen" ELSE "done")
  /\ cancelled' = TRUE
  /\ UNCHANGED <<outcome, hurried, feedVars, legVars>>

\* finalFlushTimeout; the five seconds of the demo's own context.
Backstop ==
  /\ ~cancelled /\ (user = "waiting" \/ use = "demo")
  /\ cancelled' = TRUE /\ hurried' = TRUE
  /\ UNCHANGED <<use, user, outcome, feedVars, legVars>>

\* One chunk, or none: the demo does not wait, the benchmark waits so long.
Hearing ==
  /\ UserGoes("listen", IF use = "demo" THEN "done" ELSE "close")
  /\ \/ hears # <<>> /\ outcome' = "heard" /\ hears' = Tail(hears)
     \/ (hears = <<>> \/ use = "benchmark") /\ outcome' = "silent" /\ UNCHANGED hears
  /\ UNCHANGED <<cancelled, hurried, feedVars, leg, late, next, voice, speech, voiced>>

\* What a call's transport plays.
Plays ==
  /\ use = "call" /\ hears # <<>> /\ hears' = Tail(hears)
  /\ UNCHANGED <<leg, late, next, voice, speech, voiced, feedVars, userVars>>

MockNext ==
  \/ \E f \in Feeders : PushAudio(f) \/ PushSends(f) \/ PushRefused(f)
  \/ LegListens \/ Translate \/ VoiceSpeaks \/ SynthesisLate \/ Forwards \/ PassesThrough
  \/ PushesFrame \/ PushFails \/ CallEnds \/ ClosesStream \/ StreamCloses \/ LegsDone \/ Backstop \/ Hearing \/ Plays

MockSpec == MockInit /\ [][MockNext]_mockVars

-----------------------------------------------------------------------------
(* Properties.                                                             *)

\* The places of the final transcripts among all that were put on the channel.
Finals == {i \in DOMAIN emitted : emitted[i] = "final"}

\* No transcript is put on a closed channel, and Close ends the stream with its
\* one final transcript, whatever is being pushed (asr/mock.go: PushAudio,
\* Close).  Unless a deadline cuts it short, that transcript is heard: a call
\* speaks it whole before Close returns, and the demo, which listens after
\* Close, finds it there (main.go: runDemo).  The benchmark listens before
\* Close and its frame is too short for a transcript: it hears nothing.
MockHeard ==
  /\ ~outOpen => NoneSending
  /\ ~outOpen /\ ~hurried => Finals = {Len(emitted)}
  /\ user = "done" /\ ~hurried => voiced = 1
  /\ use = "demo" /\ outcome = "silent" => hurried
  /\ use = "benchmark" => outcome # "heard"

=============================================================================
