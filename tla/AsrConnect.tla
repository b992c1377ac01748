----------------------------- MODULE AsrConnect -----------------------------
(***************************************************************************)
(* How sessions share the circuit breaker of one ASR recognizer.           *)
(* NewSession opens two streams on the recognizer, one after the other.    *)
(* StartStream asks the breaker but does not connect: the connection is    *)
(* dialled by the stream's first PushAudio, and its outcome is reported    *)
(* then - or, if the stream is closed first, by settleBreaker's abort.     *)
(***************************************************************************)
EXTENDS CircuitBreaker

CONSTANTS
  Sessions,  \* the calls in progress at once; each is followed by another
  MaxFails   \* bound: the failure count at which dials stop failing

Leg == {"caller", "agent"}

VARIABLES
  stage,     \* "idle", "opening" (between the two StartStreams), "live" or "closing"
  stream,    \* a stream: "none", "unsettled" or "settled" (breakerSettled)
  probe,     \* history: StartStream let this stream through as a probe
  vendorUp   \* whether a dial succeeds

vars == <<breakerVars, stage, stream, probe, vendorUp>>

\* Every variable has its type, a live session has both streams and a session
\* that is gone, or was never made, has none.
TypeOK ==
  /\ BreakerTyped
  /\ stage \in [Sessions -> {"idle", "opening", "live", "closing"}]
  /\ stream \in [Sessions -> [Leg -> {"none", "unsettled", "settled"}]]
  /\ probe \in [Sessions -> [Leg -> BOOLEAN]]
  /\ vendorUp \in BOOLEAN
  /\ \A s \in Sessions, l \in Leg :
       /\ stage[s] = "live" => stream[s][l] # "none"
       /\ stage[s] = "idle" => stream[s][l] = "none"

Init ==
  /\ BreakerInit
  /\ stage = [s \in Sessions |-> "idle"]
  /\ stream = [s \in Sessions |-> [l \in Leg |-> "none"]]
  /\ probe = [s \in Sessions |-> [l \in Leg |-> FALSE]]
  /\ vendorUp = TRUE

\* A stream is created, its connection not yet attempted.
StartStream(s, l) ==
  /\ Allow
  /\ stream' = [stream EXCEPT ![s][l] = "unsettled"]
  /\ probe' = [probe EXCEPT ![s][l] = open]

OpenCaller(s) ==
  /\ stage[s] = "idle"
  /\ StartStream(s, "caller")
  /\ stage' = [stage EXCEPT ![s] = "opening"]
  /\ UNCHANGED vendorUp

OpenAgent(s) ==
  /\ stage[s] = "opening"
  /\ StartStream(s, "agent")
  /\ stage' = [stage EXCEPT ![s] = "live"]
  /\ UNCHANGED vendorUp

\* A stream is closed; one that never connected aborts with the breaker.
CloseStream(s, l) ==
  /\ stream' = [stream EXCEPT ![s][l] = "none"]
  /\ probe' = [probe EXCEPT ![s][l] = FALSE]
  /\ IF stream[s][l] = "unsettled" THEN Abort ELSE UNCHANGED breakerVars

\* The second StartStream is rejected: NewSession closes the first and fails.
AgentRejected(s) ==
  /\ stage[s] = "opening" /\ ~Allowed
  /\ CloseStream(s, "caller")
  /\ stage' = [stage EXCEPT ![s] = "idle"]
  /\ UNCHANGED vendorUp

\* The stream's first PushAudio dials and settles, whichever way.
Settled(s, l) ==
  /\ stage[s] = "live" /\ stream[s][l] = "unsettled"
  /\ stream' = [stream EXCEPT ![s][l] = "settled"]
  /\ probe' = [probe EXCEPT ![s][l] = FALSE]
  /\ UNCHANGED <<stage, vendorUp>>

Connects(s, l) == vendorUp /\ RecordSuccess /\ Settled(s, l)

DialFails(s, l) ==
  /\ ~vendorUp /\ consecutiveFails < MaxFails
  /\ RecordFailure
  /\ Settled(s, l)

\* The session's context was cancelled while dialling.
DialCancelled(s, l) == Abort /\ Settled(s, l)

\* Session.Close: the caller's stream, then the agent's.
HangUp(s) ==
  /\ stage[s] = "live"
  /\ CloseStream(s, "caller")
  /\ stage' = [stage EXCEPT ![s] = "closing"]
  /\ UNCHANGED vendorUp

HungUp(s) ==
  /\ stage[s] = "closing"
  /\ CloseStream(s, "agent")
  /\ stage' = [stage EXCEPT ![s] = "idle"]
  /\ UNCHANGED vendorUp

VendorChanges ==
  /\ vendorUp' = ~vendorUp
  /\ UNCHANGED <<breakerVars, stage, stream, probe>>

Clock == CooldownElapses /\ UNCHANGED <<stage, stream, probe, vendorUp>>

Next ==
  \/ \E s \in Sessions :
       \/ OpenCaller(s) \/ OpenAgent(s) \/ AgentRejected(s) \/ HangUp(s) \/ HungUp(s)
       \/ \E l \in Leg : Connects(s, l) \/ DialFails(s, l) \/ DialCancelled(s, l)
  \/ VendorChanges \/ Clock

Spec == Init /\ [][Next]_vars

\* Calls keep coming and end, NewSession and Close proceed, time passes, and
\* streams that keep being live on a healthy vendor connect at some time.
FairSpec ==
  /\ Spec
  /\ WF_vars(Clock)
  /\ \A s \in Sessions :
       /\ SF_vars(OpenCaller(s)) /\ SF_vars(OpenAgent(s)) /\ WF_vars(AgentRejected(s))
       /\ WF_vars(HangUp(s)) /\ WF_vars(HungUp(s))
       /\ \A l \in Leg : SF_vars(Connects(s, l))

-----------------------------------------------------------------------------
Probing(s, l) == stream[s][l] = "unsettled" /\ probe[s][l]

\* The probe slot is held by a stream that has yet to report (allow's comment):
\* one that every path - first push, failed NewSession, hangup - gives back.
ProbeSlotIsHeld == probeInFlight => \E s \in Sessions, l \in Leg : Probing(s, l)

\* circuitbreaker.go: once the cooldown has elapsed a probe is let through and
\* a successful one closes the breaker; with the vendor up, it closes.
RecoversWithVendor == <>[]vendorUp => <>[]~open
=============================================================================
