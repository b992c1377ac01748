------------------------- MODULE SessionProperties -------------------------
(* What a session must guarantee, and what its documentation says of it.   *)
EXTENDS Session

-----------------------------------------------------------------------------
(* Types.                                                                  *)

\* The ring buffer is bounded, however long nobody drains it.
IngressTyped ==
  /\ audio \in [Leg -> Seq(Nat)]
  /\ \A l \in Leg : Len(audio[l]) <= AudioBufferFrames
  /\ pushed \in [Leg -> Nat]
  /\ pushing \in [Leg -> BOOLEAN]

AsrTyped ==
  /\ asr \in [Leg -> {"open", "closing", "closed"}]
  /\ accepted \in [Leg -> Nat]
  /\ spoken \in [Leg -> Nat]
  /\ transcripts \in [Leg -> Seq(Transcript)]
  /\ finals \in [Leg -> Nat]

HealthTyped ==
  /\ consecutiveFailures \in [Leg -> Nat]
  /\ degraded \in [Leg -> BOOLEAN]

PcTyped == pc \in [Leg -> LegPc]

DrainPcTyped == drainPc \in [Leg -> DrainPc]

WorkTyped ==
  /\ utterance \in [Leg -> Transcript]
  /\ frames \in [Leg -> Seq(Nat)]
  /\ verdict \in [Leg -> Verdict]

PendingTyped == pending \in [Leg -> Seq(Chunk)]

TtsTyped ==
  /\ tts \in [Leg -> {"none", "open", "done", "failed", "cut"}]
  /\ ttsBuf \in [Leg -> Seq(Chunk)]
  /\ ttsExpired \in [Leg -> BOOLEAN]

OutTyped ==
  /\ out \in [Leg -> Seq(Chunk)]
  /\ lastRaw \in [Leg -> Nat]

LifeTyped ==
  /\ outClosed \in BOOLEAN
  /\ closing \in BOOLEAN
  /\ ctx \in {"live", "parent", "backstop", "released"}
  /\ closePc \in ClosePc

OutcomeTyped == outcome \in [Leg -> Seq(Outcome \cup Verdict)]

\* Every variable has its type and the raw-audio buffers stay within capacity.
TypeOK ==
  /\ IngressTyped /\ AsrTyped /\ HealthTyped /\ PcTyped /\ DrainPcTyped /\ WorkTyped
  /\ PendingTyped /\ TtsTyped /\ OutTyped /\ LifeTyped /\ OutcomeTyped /\ wg \in Int

LegRunning(l)   == pc[l] # "exited"
Translating     == {"translate", "synthesize", "await", "sendFirst", "stream"}
DrainRunning(l) == drainPc[l] \notin {"none", "exited"}

-----------------------------------------------------------------------------
(* Shutdown.                                                               *)

Goroutines(l) ==
  (IF LegRunning(l) THEN 1 ELSE 0) + (IF DrainRunning(l) THEN 1 ELSE 0)

\* The wait group counts exactly the goroutines that still run, through the
\* hand-over in which runLeg starts drainDeadLeg and returns: were it ever
\* short, Close's wg.Wait would return early (runLeg's wg.Add(1) before go).
WaitGroupCounts == wg = Goroutines("caller") + Goroutines("agent")

\* A goroutine of the session never runs once the outbound channels are closed:
\* a send on a closed channel would panic (drainDeadLeg's "shutdown-ordering
\* safety" argument, Close's close(s.agentOut)).
NoGoroutineAfterClose ==
  outClosed => \A l \in Leg : ~LegRunning(l) /\ ~DrainRunning(l)

\* A hangup loses nothing: when Close released the session without its backstop
\* and nobody else cancelled the context, every final transcript the ASR
\* streams sent, the trailing flush included, has been settled.
HangupFlushes ==
  (outClosed /\ ctx = "released") =>
     \A l \in Leg : transcripts[l] = <<>> /\ Len(outcome[l]) = finals[l]

\* Close is held up by nothing but a stream's own Close: wherever else it is, and
\* whatever the ASR channels, the vendors and the listeners do or leave, it comes to
\* call a stream's Close or returns (the backstop, which is meant to keep Close
\* from hanging forever, session.go:408-410).  In a stream's Close it may stay for
\* good: that one does not always return is shown for AsrStream.
InStreamClose == closePc \in {"inCaller", "inAgent"}
CloseReturns ==
  WF_vars(CloseProceeds) => ((closing /\ ~InStreamClose) ~> (closePc = "done" \/ InStreamClose))

\* Close does not need its 3s backstop when the ASR streams end their channels and
\* the parties listen: every goroutine ends by itself, a dead leg's drain goroutine
\* included, and even while Close is still in a stream's own Close (drainDeadLeg's
\* comment on why it looks at closing).
HangupNeedsNoBackstop ==
  Listening /\ ChannelsEnd => ((closing /\ \A l \in Leg : asr[l] # "open") ~> (wg = 0))

-----------------------------------------------------------------------------
(* Degradation.                                                            *)

\* A degraded leg does not try MT or TTS again (CallerLegDegraded's comment):
\* it is in no step of a translation, and a leg that is not degraded has not
\* used up its failure budget.
DegradedNeverTranslates ==
  \A l \in Leg :
    /\ degraded[l] => pc[l] \notin Translating
    /\ ~degraded[l] => consecutiveFailures[l] < MaxConsecutiveFailures

Mode(l) == IF ~LegRunning(l) /\ ~DrainRunning(l) THEN "stopped"
           ELSE IF degraded[l] THEN "degraded" ELSE "translating"
CallerContract == INSTANCE LegContract WITH mode <- Mode("caller"), log <- outcome["caller"]
AgentContract == INSTANCE LegContract WITH mode <- Mode("agent"), log <- outcome["agent"]

\* Each leg implements the abstract contract of LegContract, whatever the other one
\* goes through (runLeg, recordFailure, recordSuccess).
LegsKeepContract == CallerContract!Spec /\ AgentContract!Spec

-----------------------------------------------------------------------------
(* Raw audio.                                                              *)

\* The frames that chunks carry, at the places the raw chunks have among them.
RawOf(cs) == [i \in {j \in DOMAIN cs : cs[j].kind = "raw"} |-> cs[i].frame]
Held(l) == IF pc[l] \in Translating THEN frames[l] ELSE RawOf(pending[l])

Increasing(f) == \A i, j \in DOMAIN f : i < j => f[i] < f[j]
Before(f, g)  == \A i \in DOMAIN f, j \in DOMAIN g : f[i] < g[j]

\* Raw audio is forwarded at most once and in order, through every hand-over
\* between the ring buffer, an utterance, the passthrough being forwarded, and
\* the goroutine that takes over a dead leg.
RawAudioInOrder ==
  \A l \in Leg :
    /\ Increasing(Held(l)) /\ Increasing(audio[l]) /\ Before(Held(l), audio[l])
    /\ Before(<<lastRaw[l]>>, Held(l)) /\ Before(<<lastRaw[l]>>, audio[l])

\* Audio pushed on a leg whose ASR stream died reaches the listening party if
\* the session goes on (CallerLegDegraded's comment: forwarded on a poll
\* cadence until Close).
Buffered(l, f) == \E i \in 1..Len(audio[l]) : audio[l][i] = f
DeadLegStillHeard ==
  Listening => \A l \in Leg : \A b \in Traffic[l] : \A f \in 1..b.frames :
    (drainPc[l] # "none" /\ Buffered(l, f)) ~> (lastRaw[l] >= f \/ closing \/ CtxDone)

\* A leg is never stuck on an utterance, wherever in it a vendor stops answering:
\* while the parties listen it comes back to its select or ends (runLeg's comment
\* that it never blocks forever on a backend).  How the
\* utterance ends is another matter: a synthesis that is under way is cut for it,
\* which StartedSynthesisIsNotCut is about.
LegNeverStuck ==
  Listening => \A l \in Leg :
    (pc[l] \notin {"select", "exited"}) ~> (pc[l] \in {"select", "exited"})

-----------------------------------------------------------------------------
(* What the documentation says and the code does not do.                   *)

Failure == {"mtFailed", "ttsFailed"}

\* FallbackConfig.MaxConsecutiveFailures: that many consecutive MT/TTS failures
\* (translate or synthesize) degrade the leg.
ConsecutiveFailuresDegrade ==
  \A l \in Leg :
    LET n == Len(outcome[l]) IN
    (/\ n >= MaxConsecutiveFailures
     /\ \A i \in (n - MaxConsecutiveFailures + 1)..n : outcome[l][i] \in Failure)
       => degraded[l]

\* forwardTTSWithStallGuard bounds the wait for the first chunk only; once one has
\* arrived the synthesis "is allowed to run to completion" (session.go:872-876): no
\* utterance of a live session ends in the middle because time was up.
StartedSynthesisIsNotCut ==
  \A l \in Leg : tts[l] = "cut" /\ pc[l] = "stream" => CtxDone
=============================================================================
