------------------------------- MODULE Duplex -------------------------------
(* The RTP bridge (pkg/rtp/duplex.go): a DuplexSession joins two ClearStream *)
(* legs to a translation session.  Per leg a goroutine bridges the leg's     *)
(* clean audio to the session (bridgeCleanAudio), one accumulates synthesized *)
(* audio to whole frames and queues it (feedTTSPacer), and one releases it   *)
(* on a ticker (runTTSPacer).  Start and Stop may be called at any time.     *)
(*                                                                           *)
(* ClearStream and the session are external.  The PCM of a leg is numbered   *)
(* in the order of its synthesis; a payload is the range it carries.         *)
EXTENDS JitterBuffer, Sequences

CONSTANTS
    Frame,         \* ttsFrameBytes, in units of PCM
    ChunkSizes,    \* the lengths of PCM a chunk may have
    MaxChunks,     \* bound: chunks synthesized for each leg
    MaxFrames,     \* bound: clean frames each leg delivers
    MaxBacklog     \* bound: payloads queued ahead of the ticker

Leg == {"caller", "agent"}
ASSUME FrameAssumption == Frame \in Nat \ {0}
ASSUME ChunkAssumption == ChunkSizes \subseteq Nat
ASSUME BoundAssumption == MaxChunks \in [Leg -> Nat] /\ MaxFrames \in [Leg -> Nat]
\* A backlog of half the sequence numbers (2^15 payloads, ten minutes of ticks), from
\* where seqDelta takes the next one for a late one, is out of scope.
ASSUME BacklogAssumption == MaxBacklog \in 1..HalfRange

VARIABLES
    started,       \* startedFlag
    stopPc,        \* where Stop's body is
    sawStarted,    \* startedFlag, as Stop read it
    cancelled,     \* ctx is done
    stopErr,       \* Stop timed out
    leg,           \* ClearStream session: built, running, stopped
    clean,         \* frames in its CleanAudio channel
    frames,        \* frames it has delivered so far
    bridge,        \* where bridgeCleanAudio is
    feed,          \* where feedTTSPacer is
    carry,         \* length of its remainder
    todo,          \* payloads it has cut and not pushed
    inClosed,      \* it has seen the session's channel close
    seq,           \* its next sequence number
    buf,           \* ttsPacer.buf
    pushed,        \* ttsPacer.pushed
    run,           \* where runTTSPacer is
    consumed,      \* its count of resolved payloads
    chunks,        \* history: chunks received
    got,           \* history: units received
    ends,          \* history: the units at which an utterance ended
    dropped,       \* history: payloads a full buffer turned away
    lost,          \* history: payloads Pull gave up
    heard          \* history: payloads injected

lifeVars   == <<started, stopPc, sawStarted, cancelled, stopErr>>
bridgeVars == <<leg, clean, frames, bridge>>
feedVars   == <<feed, carry, todo, inClosed, seq, chunks, got, ends>>
runVars    == <<run, consumed, lost, heard>>
vars == <<lifeVars, bridgeVars, feedVars, buf, pushed, dropped, runVars>>

Payload == [first : Nat, last : Nat]
StopPc  == {"none", "callerLeg", "agentLeg", "cancel", "wait", "returned"}
BridgePc == {"off", "select", "push", "gone"}
FeedPc  == {"off", "select", "push", "count", "gone"}
RunPc   == {"off", "select", "gone"}

TypeOK ==
    /\ started \in BOOLEAN /\ sawStarted \in BOOLEAN
    /\ cancelled \in BOOLEAN /\ stopErr \in BOOLEAN
    /\ stopPc \in StopPc
    /\ leg \in [Leg -> {"built", "running", "stopped"}]
    /\ clean \in [Leg -> Nat] /\ frames \in [Leg -> Nat]
    /\ bridge \in [Leg -> BridgePc]
    /\ feed \in [Leg -> FeedPc]
    /\ carry \in [Leg -> 0..(Frame - 1)]
    /\ todo \in [Leg -> Seq(Payload)] /\ inClosed \in [Leg -> BOOLEAN]
    /\ seq \in [Leg -> SeqNum]
    /\ \A l \in Leg : /\ buf[l].initialized \in BOOLEAN /\ buf[l].nextSeq \in SeqNum
                      /\ DOMAIN buf[l].buffered \subseteq SeqNum
                      /\ Range(buf[l].buffered) \subseteq Payload
                      /\ Cardinality(DOMAIN buf[l].buffered) <= Capacity
    /\ pushed \in [Leg -> Nat] /\ consumed \in [Leg -> Nat]
    /\ run \in [Leg -> RunPc]
    /\ chunks \in [Leg -> Nat] /\ got \in [Leg -> Nat] /\ lost \in [Leg -> Nat]
    /\ ends \in [Leg -> SUBSET Nat]
    /\ dropped \in [Leg -> SUBSET Payload]
    /\ heard \in [Leg -> Seq(Payload)]

Init ==
    /\ started = FALSE /\ sawStarted = FALSE /\ cancelled = FALSE /\ stopErr = FALSE
    /\ stopPc = "none"
    /\ leg = [l \in Leg |-> "built"]
    /\ clean = [l \in Leg |-> 0] /\ frames = [l \in Leg |-> 0]
    /\ bridge = [l \in Leg |-> "off"] /\ feed = [l \in Leg |-> "off"]
    /\ run = [l \in Leg |-> "off"]
    /\ carry = [l \in Leg |-> 0] /\ todo = [l \in Leg |-> <<>>]
    /\ inClosed = [l \in Leg |-> FALSE]
    /\ seq = [l \in Leg |-> 0] /\ buf = [l \in Leg |-> EmptyBuffer]
    /\ pushed = [l \in Leg |-> 0] /\ consumed = [l \in Leg |-> 0]
    /\ chunks = [l \in Leg |-> 0] /\ got = [l \in Leg |-> 0]
    /\ ends = [l \in Leg |-> {}] /\ dropped = [l \in Leg |-> {}]
    /\ lost = [l \in Leg |-> 0] /\ heard = [l \in Leg |-> <<>>]

-----------------------------------------------------------------------------
(* Start and Stop.                                                           *)

Launch ==
    /\ started' = TRUE
    /\ leg' = [l \in Leg |-> "running"]
    /\ bridge' = [l \in Leg |-> "select"]
    /\ feed' = [l \in Leg |-> "select"]
    /\ run' = [l \in Leg |-> "select"]
    /\ UNCHANGED <<stopPc, sawStarted, cancelled, stopErr, clean, frames, carry, todo,
                   inClosed, seq, chunks, got, ends, buf, pushed, dropped, consumed, lost, heard>>

\* Mutant: Start checks only that it has not run before.
StartWhenStopped == ~started /\ Launch

\* Start holds lifecycleMu throughout: both legs and the six goroutines at once.
\* stoppedFlag is stopPc # "none".
Start == ~started /\ stopPc = "none" /\ Launch

\* The first Stop sets stoppedFlag under lifecycleMu; the others wait in stopOnce.
StopFlags ==
    /\ stopPc = "none"
    /\ sawStarted' = started
    /\ stopPc' = IF started THEN "callerLeg" ELSE "cancel"
    /\ UNCHANGED <<started, cancelled, stopErr, bridgeVars, feedVars, buf, pushed, dropped, runVars>>

\* A leg's Stop returns with its CleanAudio channel closed; the caller's comes first.
StopLeg(l) ==
    /\ stopPc = IF l = "caller" THEN "callerLeg" ELSE "agentLeg"
    /\ leg' = [leg EXCEPT ![l] = "stopped"]
    /\ stopPc' = IF l = "caller" THEN "agentLeg" ELSE "cancel"
    /\ UNCHANGED <<started, sawStarted, cancelled, stopErr, clean, frames, bridge, feedVars,
                   buf, pushed, dropped, runVars>>

\* Mutant: Stop relies on the legs and the session to end the goroutines.
StopForgetsCancel ==
    /\ stopPc = "cancel"
    /\ stopPc' = "wait"
    /\ UNCHANGED <<started, sawStarted, cancelled, stopErr, bridgeVars, feedVars, buf, pushed,
                   dropped, runVars>>

StopCancels ==
    /\ stopPc = "cancel"
    /\ cancelled' = TRUE
    /\ stopPc' = "wait"
    /\ UNCHANGED <<started, sawStarted, stopErr, bridgeVars, feedVars, buf, pushed, dropped, runVars>>

Alive(l) ==
    \/ bridge[l] \in {"select", "push"}
    \/ feed[l] \in {"select", "push", "count"}
    \/ run[l] = "select"

\* Stop's last select: the wait group is done, or duplexStopTimeout has passed.
StopReturns ==
    /\ stopPc = "wait"
    /\ \/ (\A l \in Leg : ~Alive(l)) /\ UNCHANGED stopErr
       \/ stopErr' = TRUE
    /\ stopPc' = "returned"
    /\ UNCHANGED <<started, sawStarted, cancelled, bridgeVars, feedVars, buf, pushed, dropped, runVars>>

-----------------------------------------------------------------------------
(* bridgeCleanAudio: the leg's clean audio to the session.                   *)

\* External: the leg delivers a frame.
LegDelivers(l) ==
    /\ leg[l] = "running" /\ frames[l] < MaxFrames[l]
    /\ clean' = [clean EXCEPT ![l] = @ + 1]
    /\ frames' = [frames EXCEPT ![l] = @ + 1]
    /\ UNCHANGED <<lifeVars, leg, bridge, feedVars, buf, pushed, dropped, runVars>>

BridgeTakes(l) ==
    /\ bridge[l] = "select" /\ clean[l] > 0
    /\ clean' = [clean EXCEPT ![l] = @ - 1]
    /\ bridge' = [bridge EXCEPT ![l] = "push"]
    /\ UNCHANGED <<lifeVars, leg, frames, feedVars, buf, pushed, dropped, runVars>>

\* PushCallerAudio or PushAgentAudio returns, with or without an error.
BridgePushed(l) ==
    /\ bridge[l] = "push"
    /\ bridge' = [bridge EXCEPT ![l] = "select"]
    /\ UNCHANGED <<lifeVars, leg, clean, frames, feedVars, buf, pushed, dropped, runVars>>

BridgeEnds(l) ==
    /\ bridge[l] = "select"
    /\ cancelled \/ (leg[l] = "stopped" /\ clean[l] = 0)
    /\ bridge' = [bridge EXCEPT ![l] = "gone"]
    /\ UNCHANGED <<lifeVars, leg, clean, frames, feedVars, buf, pushed, dropped, runVars>>

-----------------------------------------------------------------------------
(* feedTTSPacer: synthesized audio to whole frames, queued.                  *)

\* The units from the first to the last, as a payload unless there are none.
Cut(first, last) == IF first > last THEN <<>> ELSE <<[first |-> first, last |-> last]>>

\* Bound: room for the payloads cut and for the one the remainder may become.
HasBacklogRoom(l, cut, rest) ==
    pushed[l] - consumed[l] + Len(cut) + (IF rest = 0 THEN 0 ELSE 1) <= MaxBacklog

\* A chunk of n units is received: the payloads cut go, the rest is carried over.
Received(l, n, final, cut, rest) ==
    /\ feed[l] = "select" /\ ~inClosed[l] /\ chunks[l] < MaxChunks[l]
    /\ n > 0 \/ final
    /\ HasBacklogRoom(l, cut, rest)
    /\ todo' = [todo EXCEPT ![l] = cut]
    /\ carry' = [carry EXCEPT ![l] = rest]
    /\ feed' = [feed EXCEPT ![l] = IF cut = <<>> THEN "select" ELSE "push"]
    /\ chunks' = [chunks EXCEPT ![l] = @ + 1]
    /\ got' = [got EXCEPT ![l] = @ + n]
    /\ ends' = [ends EXCEPT ![l] = IF final THEN @ \cup {got[l] + n} ELSE @]
    /\ UNCHANGED <<lifeVars, bridgeVars, inClosed, seq, buf, pushed, dropped, runVars>>

\* What is held back becomes whole frames and a remainder shorter than one.
Aligned(l, n) == carry[l] + n - ((carry[l] + n) % Frame)
Whole(l, n) == Cut(got[l] - carry[l] + 1, got[l] - carry[l] + Aligned(l, n))
Remainder(l, n) == Cut(got[l] - carry[l] + Aligned(l, n) + 1, got[l] + n)

\* Mutant: the remainder is held over into the next utterance.
FeedTakesHeldOver(l, n, final) ==
    Received(l, n, final, Whole(l, n), carry[l] + n - Aligned(l, n))

\* The remainder is carried over, or goes too if the utterance ends here.  (An empty
\* chunk that ends nothing is skipped.)
FeedTakes(l, n, final) ==
    IF final THEN Received(l, n, final, Whole(l, n) \o Remainder(l, n), 0)
    ELSE Received(l, n, final, Whole(l, n), carry[l] + n - Aligned(l, n))

\* The session's channel is closed: what is left goes as the last payload.
FeedSeesClose(l) ==
    /\ feed[l] = "select" /\ ~inClosed[l]
    /\ inClosed' = [inClosed EXCEPT ![l] = TRUE]
    /\ todo' = [todo EXCEPT ![l] = Cut(got[l] - carry[l] + 1, got[l])]
    /\ carry' = [carry EXCEPT ![l] = 0]
    /\ feed' = [feed EXCEPT ![l] = IF todo'[l] = <<>> THEN "gone" ELSE "push"]
    /\ UNCHANGED <<lifeVars, bridgeVars, seq, chunks, got, ends, buf, pushed, dropped, runVars>>

\* push's call of JitterBuffer.Push; whatever becomes of the payload, it counts, and
\* the full buffer's choice to turn it away is recorded (a late or doubled one is not).
FeedPushes(l) ==
    /\ feed[l] = "push"
    /\ buf' = [buf EXCEPT ![l] = Push(@, seq[l], Head(todo[l]))]
    /\ dropped' = [dropped EXCEPT ![l] =
           IF PushStatus(buf[l], seq[l]) = "evicted" THEN @ \cup {Head(todo[l])} ELSE @]
    /\ todo' = [todo EXCEPT ![l] = Tail(@)]
    /\ seq' = [seq EXCEPT ![l] = SeqAfter(@)]
    /\ feed' = [feed EXCEPT ![l] = "count"]
    /\ UNCHANGED <<lifeVars, bridgeVars, carry, inClosed, chunks, got, ends, pushed, runVars>>

FeedCounts(l) ==
    /\ feed[l] = "count"
    /\ pushed' = [pushed EXCEPT ![l] = @ + 1]
    /\ feed' = [feed EXCEPT ![l] = IF todo[l] # <<>> THEN "push"
                                   ELSE IF inClosed[l] THEN "gone" ELSE "select"]
    /\ UNCHANGED <<lifeVars, bridgeVars, carry, todo, inClosed, seq, chunks, got, ends, buf,
                   dropped, runVars>>

FeedEnds(l) ==
    /\ feed[l] = "select" /\ cancelled
    /\ feed' = [feed EXCEPT ![l] = "gone"]
    /\ UNCHANGED <<lifeVars, bridgeVars, carry, todo, inClosed, seq, chunks, got, ends, buf,
                   pushed, dropped, runVars>>

-----------------------------------------------------------------------------
(* runTTSPacer: on a tick, the next payload to the leg.                      *)

\* One payload is injected or, when its slot stays empty past the deadline, given up.
\* (Nothing changes while Pull says empty or waiting.)
Resolves(l, overdue) ==
    LET status == PullStatus(buf[l], overdue)
    IN  /\ run[l] = "select"
        /\ status \in {"ok", "lost"}
        /\ heard' = [heard EXCEPT ![l] =
               IF status = "ok" THEN Append(@, buf[l].buffered[buf[l].nextSeq]) ELSE @]
        /\ lost' = [lost EXCEPT ![l] = IF status = "lost" THEN @ + 1 ELSE @]
        /\ consumed' = [consumed EXCEPT ![l] = @ + 1]
        /\ buf' = [buf EXCEPT ![l] = Pull(@, overdue)]
        /\ UNCHANGED <<lifeVars, bridgeVars, feedVars, pushed, dropped, run>>

\* Mutant: the feeder counts a payload before its push.
RunPullsCountedAhead(l, overdue) ==
    /\ consumed[l] < pushed[l] + (IF feed[l] = "push" THEN 1 ELSE 0)
    /\ Resolves(l, overdue)

\* Pull is called only while a pushed payload is unresolved.
RunPulls(l, overdue) == consumed[l] < pushed[l] /\ Resolves(l, overdue)

\* Mutant: the ticker ends with its feeder.
RunEndsWithFeed(l) ==
    /\ run[l] = "select" /\ (cancelled \/ feed[l] = "gone")
    /\ run' = [run EXCEPT ![l] = "gone"]
    /\ UNCHANGED <<lifeVars, bridgeVars, feedVars, buf, pushed, dropped, consumed, lost, heard>>

RunEnds(l) ==
    /\ run[l] = "select" /\ cancelled
    /\ run' = [run EXCEPT ![l] = "gone"]
    /\ UNCHANGED <<lifeVars, bridgeVars, feedVars, buf, pushed, dropped, consumed, lost, heard>>

-----------------------------------------------------------------------------
Stop   == StopFlags \/ (\E l \in Leg : StopLeg(l)) \/ StopCancels \/ StopReturns
Bridge(l) == BridgeTakes(l) \/ BridgePushed(l) \/ BridgeEnds(l)
Feed(l) == FeedPushes(l) \/ FeedCounts(l) \/ FeedEnds(l)
Run(l)  == (\E overdue \in BOOLEAN : RunPulls(l, overdue)) \/ RunEnds(l)

Next ==
    \/ Start \/ Stop
    \/ \E l \in Leg :
          \/ LegDelivers(l) \/ Bridge(l)
          \/ \E n \in ChunkSizes, final \in BOOLEAN : FeedTakes(l, n, final)
          \/ FeedSeesClose(l) \/ Feed(l) \/ Run(l)

Spec == Init /\ [][Next]_vars

\* Goroutines and a Stop under way go on, the ticker ticks and time passes, a call
\* of Push*Audio returns.  Nobody has to call Stop, to speak or to close the session.
FairSpec ==
    /\ Spec
    /\ WF_vars(stopPc # "none" /\ Stop)
    /\ \A l \in Leg : WF_vars(Bridge(l)) /\ WF_vars(Feed(l)) /\ WF_vars(Run(l))

-----------------------------------------------------------------------------
(* Properties.                                                               *)

Resolvable(l) == {heard[l][i] : i \in DOMAIN heard[l]} \cup Range(buf[l].buffered) \cup dropped[l]
Uncut(l) == (got[l] - carry[l] + 1)..got[l]

\* Payloads reach the leg in the order of their synthesis, across the wrap of the
\* sequence number; and between the remainder, the payloads cut, the pacing buffer
\* and the leg no PCM is lost or played twice, except what a full buffer has turned
\* away.  So no payload comes late: the ticker never gives up one that is still to be
\* pushed (duplex.go:631-635).
EverySampleOnce ==
    \A l \in Leg :
        /\ \A i, j \in DOMAIN heard[l] : i < j => heard[l][i].last < heard[l][j].first
        /\ \A u \in 1..got[l] :
               LET has(p) == p.first <= u /\ u <= p.last
                   copies == Cardinality({i \in DOMAIN todo[l] : has(todo[l][i])})
                             + Cardinality({i \in DOMAIN heard[l] : has(heard[l][i])})
                             + Cardinality({s \in DOMAIN buf[l].buffered : has(buf[l].buffered[s])})
                             + Cardinality({p \in dropped[l] : has(p)})
                             + (IF u \in Uncut(l) THEN 1 ELSE 0)
               IN  copies = 1

\* InjectBotAudio pads a partial frame with silence: feedTTSPacer hands it one only
\* at the end of an utterance or of the stream, and never joins two utterances.
PaddedOnlyAtEnd ==
    \A l \in Leg : \A p \in Resolvable(l) :
        /\ (p.last - p.first + 1) % Frame # 0 =>
               p.last \in ends[l] \/ (inClosed[l] /\ p.last = got[l])
        /\ \A e \in ends[l] : ~(p.first <= e /\ e < p.last)

\* Every payload pushed is played or given up, though the session's channel has
\* closed and its feeder is gone, unless Stop comes first: whenever something is
\* pending the ticker catches up in the end.
PushedIsResolved ==
    \A l \in Leg : []<>(consumed[l] = pushed[l] \/ cancelled)

\* A Stop that reports no error leaves no goroutine, and none begins afterwards:
\* a Start that races it has either started all six or starts none.
StopLeavesNothing ==
    stopPc = "returned" /\ ~stopErr => \A l \in Leg : ~Alive(l)

\* Once Stop is called all six goroutines end, although the session stays open.
GoroutinesEnd ==
    []<>(stopPc # "none" => \A l \in Leg : ~Alive(l))
=============================================================================
