-------------------------- MODULE AsrConnectProofs --------------------------
(* Theorems of AsrConnect, for any number of concurrent sessions and any   *)
(* threshold.                                                              *)
EXTENDS AsrConnect, TLAPS

\* The breaker's methods keep its fields' types.
LEMMA MethodsTyped ==
  ASSUME BreakerTyped,
         \/ Allow \/ RecordSuccess \/ RecordFailure \/ Abort \/ CooldownElapses
         \/ UNCHANGED breakerVars
  PROVE  BreakerTyped'
<1>1. consecutiveFails' \in Nat
  BY DEF BreakerTyped, Allow, RecordSuccess, RecordFailure, Abort, CooldownElapses, breakerVars
<1>2. open' \in BOOLEAN
  BY Zenon DEF BreakerTyped, Allow, RecordSuccess, RecordFailure, Abort, CooldownElapses,
     breakerVars
<1>3. cooling' \in BOOLEAN
  BY Zenon DEF BreakerTyped, Allow, RecordSuccess, RecordFailure, Abort, CooldownElapses,
     breakerVars
<1>4. probeInFlight' \in BOOLEAN
  BY Zenon DEF BreakerTyped, Allow, RecordSuccess, RecordFailure, Abort, CooldownElapses,
     breakerVars
<1> QED BY <1>1, <1>2, <1>3, <1>4 DEF BreakerTyped

\* NewSession opens the caller's stream before the agent's, and Close closes
\* them in the same order.
OneByOne ==
  \A s \in Sessions :
    /\ stage[s] = "opening" => stream[s]["caller"] # "none" /\ stream[s]["agent"] = "none"
    /\ stage[s] = "closing" => stream[s]["caller"] = "none"

ConnectInvariant == TypeOK /\ OneByOne /\ ProbeSlotIsHeld

LEMMA ConnectInit == Init => ConnectInvariant
<1> SUFFICES ASSUME Init PROVE ConnectInvariant
  OBVIOUS
<1>1. TypeOK
  BY DEF Init, TypeOK, BreakerInit, BreakerTyped, Leg
<1>2. OneByOne
  BY DEF Init, OneByOne
<1>3. ProbeSlotIsHeld
  BY DEF Init, BreakerInit, ProbeSlotIsHeld
<1> QED BY <1>1, <1>2, <1>3 DEF ConnectInvariant

\* A step of one session's streams: t is the session's new stage, l the leg whose
\* stream becomes v.
Moves(s, l, t, v, p) ==
  /\ stage' = [stage EXCEPT ![s] = t]
  /\ stream' = [stream EXCEPT ![s][l] = v]
  /\ probe' = [probe EXCEPT ![s][l] = p]
  /\ vendorUp' = vendorUp

LEMMA MovesTyped ==
  ASSUME ConnectInvariant, BreakerTyped', NEW s \in Sessions, NEW l \in Leg,
         NEW t \in {"idle", "opening", "live", "closing"},
         NEW v \in {"none", "unsettled", "settled"}, NEW p \in BOOLEAN,
         Moves(s, l, t, v, p),
         t = "live" => \A k \in Leg \ {l} : stream[s][k] # "none",
         t = "live" => v # "none",
         t = "idle" => \A k \in Leg \ {l} : stream[s][k] = "none",
         t = "idle" => v = "none",
         t = "opening" => l = "caller" /\ v # "none" /\ stream[s]["agent"] = "none",
         t = "closing" => l = "caller" /\ v = "none"
  PROVE  TypeOK' /\ OneByOne'
<1>1. /\ stage \in [Sessions -> {"idle", "opening", "live", "closing"}]
      /\ stream \in [Sessions -> [Leg -> {"none", "unsettled", "settled"}]]
      /\ probe \in [Sessions -> [Leg -> BOOLEAN]] /\ vendorUp \in BOOLEAN
  BY DEF ConnectInvariant, TypeOK
<1>2. /\ stage' \in [Sessions -> {"idle", "opening", "live", "closing"}]
      /\ stream' \in [Sessions -> [Leg -> {"none", "unsettled", "settled"}]]
      /\ vendorUp' \in BOOLEAN
  BY <1>1 DEF Moves
<1>3. probe' \in [Sessions -> [Leg -> BOOLEAN]]
  <2>1. [probe[s] EXCEPT ![l] = p] \in [Leg -> BOOLEAN]
    BY <1>1, Zenon
  <2>2. probe' = [probe EXCEPT ![s] = [probe[s] EXCEPT ![l] = p]]
    BY Zenon DEF Moves
  <2> QED BY <1>1, <2>1, <2>2, Zenon
<1>4. \A r \in Sessions, k \in Leg :
        /\ stage'[r] = "live" => stream'[r][k] # "none"
        /\ stage'[r] = "idle" => stream'[r][k] = "none"
  BY <1>1 DEF Moves, ConnectInvariant, TypeOK
<1>5. OneByOne'
  BY <1>1 DEF Moves, ConnectInvariant, OneByOne, Leg
<1> QED BY <1>2, <1>3, <1>4, <1>5 DEF TypeOK

\* The slot stays held while the streams that probe are left alone.
LEMMA SlotStays ==
  ASSUME ConnectInvariant, probeInFlight' => probeInFlight,
         \A s \in Sessions, l \in Leg : Probing(s, l) => Probing(s, l)'
  PROVE  ProbeSlotIsHeld'
BY DEF ConnectInvariant, ProbeSlotIsHeld

LEMMA ConnectStep ==
  ASSUME ConnectInvariant, [Next]_vars PROVE ConnectInvariant'
<1>0. /\ stage \in [Sessions -> {"idle", "opening", "live", "closing"}]
      /\ stream \in [Sessions -> [Leg -> {"none", "unsettled", "settled"}]]
      /\ probe \in [Sessions -> [Leg -> BOOLEAN]]
      /\ open \in BOOLEAN /\ BreakerTyped
  BY DEF ConnectInvariant, TypeOK, BreakerTyped
<1>1. BreakerTyped'
  <2>1. \/ Allow \/ RecordSuccess \/ RecordFailure \/ Abort \/ CooldownElapses
        \/ UNCHANGED breakerVars
    BY Zenon DEF Next, OpenCaller, OpenAgent, AgentRejected, HangUp, HungUp, Connects, DialFails,
       DialCancelled, StartStream, CloseStream, VendorChanges, Clock, vars
  <2> QED BY <1>0, <2>1, MethodsTyped
<1>2. ASSUME NEW s \in Sessions, NEW l \in Leg, NEW t, StartStream(s, l), stream[s][l] = "none",
             Moves(s, l, t, "unsettled", open)
      PROVE  ProbeSlotIsHeld'
  <2>1. stream'[s][l] = "unsettled" /\ probe'[s][l] = open
    BY <1>0, <1>2, Zenon DEF Moves
  <2>2. \A r \in Sessions, k \in Leg :
          r # s \/ k # l => stream'[r][k] = stream[r][k] /\ probe'[r][k] = probe[r][k]
    BY <1>0, <1>2, Zenon DEF Moves
  <2>3. CASE open
    BY <2>1, <2>3 DEF ProbeSlotIsHeld, Probing
  <2>4. CASE ~open
    <3>1. probeInFlight' => probeInFlight
      BY <1>2, <2>4 DEF StartStream, Allow
    <3>2. \A r \in Sessions, k \in Leg : Probing(r, k) => Probing(r, k)'
      BY <1>2, <2>2 DEF Probing
    <3> QED BY <3>1, <3>2, SlotStays
  <2> QED BY <2>3, <2>4
<1>3. ASSUME NEW s \in Sessions, NEW l \in Leg, NEW t, NEW v, Moves(s, l, t, v, FALSE),
             \/ ~probeInFlight'
             \/ stream[s][l] # "unsettled" /\ UNCHANGED breakerVars
      PROVE  ProbeSlotIsHeld'
  <2>1. CASE ~probeInFlight'
    BY <2>1 DEF ProbeSlotIsHeld
  <2>2. CASE stream[s][l] # "unsettled" /\ UNCHANGED breakerVars
    <3>1. \A r \in Sessions, k \in Leg :
            r # s \/ k # l => stream'[r][k] = stream[r][k] /\ probe'[r][k] = probe[r][k]
      BY <1>0, <1>3, Zenon DEF Moves
    <3>2. \A r \in Sessions, k \in Leg : Probing(r, k) => Probing(r, k)'
      BY <2>2, <3>1 DEF Probing
    <3> QED BY <2>2, <3>2, SlotStays DEF breakerVars
  <2> QED BY <1>3, <2>1, <2>2
<1>4. ASSUME NEW s \in Sessions, OpenCaller(s) PROVE ConnectInvariant'
  <2>1. Moves(s, "caller", "opening", "unsettled", open) /\ StartStream(s, "caller")
    BY <1>4 DEF OpenCaller, StartStream, Moves
  <2>2. \A k \in Leg : stream[s][k] = "none"
    BY <1>4 DEF OpenCaller, ConnectInvariant, TypeOK
  <2>3. TypeOK' /\ OneByOne'
    BY <1>0, <1>1, <2>1, <2>2, MovesTyped DEF Leg
  <2> QED BY <1>2, <2>1, <2>2, <2>3 DEF ConnectInvariant, Leg
<1>5. ASSUME NEW s \in Sessions, OpenAgent(s) PROVE ConnectInvariant'
  <2>1. Moves(s, "agent", "live", "unsettled", open) /\ StartStream(s, "agent")
    BY <1>5 DEF OpenAgent, StartStream, Moves
  <2>2. stream[s]["agent"] = "none"
    BY <1>5 DEF OpenAgent, ConnectInvariant, OneByOne
  <2>3. stream[s]["caller"] # "none"
    BY <1>5 DEF OpenAgent, ConnectInvariant, OneByOne
  <2>4. TypeOK' /\ OneByOne'
    BY <1>0, <1>1, <2>1, <2>3, MovesTyped DEF Leg
  <2> QED BY <1>2, <2>1, <2>2, <2>4 DEF ConnectInvariant, Leg
<1>6. ASSUME NEW s \in Sessions, NEW l \in Leg, NEW t, CloseStream(s, l),
             stage' = [stage EXCEPT ![s] = t], vendorUp' = vendorUp
      PROVE  ProbeSlotIsHeld' /\ Moves(s, l, t, "none", FALSE)
  <2>1. Moves(s, l, t, "none", FALSE)
    BY <1>6 DEF CloseStream, Moves
  <2>2. ~probeInFlight' \/ (stream[s][l] # "unsettled" /\ UNCHANGED breakerVars)
    BY <1>6 DEF CloseStream, Abort
  <2> QED BY <1>3, <2>1, <2>2
<1>7. ASSUME NEW s \in Sessions, AgentRejected(s) PROVE ConnectInvariant'
  <2>1. ProbeSlotIsHeld' /\ Moves(s, "caller", "idle", "none", FALSE)
    BY <1>6, <1>7 DEF AgentRejected, Leg
  <2>2. stream[s]["agent"] = "none"
    BY <1>7 DEF AgentRejected, ConnectInvariant, OneByOne
  <2>3. TypeOK' /\ OneByOne'
    BY <1>1, <2>1, <2>2, MovesTyped DEF Leg
  <2> QED BY <2>1, <2>3 DEF ConnectInvariant
<1>8. ASSUME NEW s \in Sessions, HangUp(s) PROVE ConnectInvariant'
  <2>1. ProbeSlotIsHeld' /\ Moves(s, "caller", "closing", "none", FALSE)
    BY <1>6, <1>8 DEF HangUp, Leg
  <2>2. TypeOK' /\ OneByOne'
    BY <1>1, <2>1, MovesTyped DEF Leg
  <2> QED BY <2>1, <2>2 DEF ConnectInvariant
<1>9. ASSUME NEW s \in Sessions, HungUp(s) PROVE ConnectInvariant'
  <2>1. ProbeSlotIsHeld' /\ Moves(s, "agent", "idle", "none", FALSE)
    BY <1>6, <1>9 DEF HungUp, Leg
  <2>2. stream[s]["caller"] = "none"
    BY <1>9 DEF HungUp, ConnectInvariant, OneByOne
  <2>3. TypeOK' /\ OneByOne'
    BY <1>1, <2>1, <2>2, MovesTyped DEF Leg
  <2> QED BY <2>1, <2>3 DEF ConnectInvariant
<1>10. ASSUME NEW s \in Sessions, NEW l \in Leg,
              Connects(s, l) \/ DialFails(s, l) \/ DialCancelled(s, l)
       PROVE  ConnectInvariant'
  <2>1. Settled(s, l) /\ ~probeInFlight'
    BY <1>10 DEF Connects, DialFails, DialCancelled, RecordSuccess, RecordFailure, Abort
  <2>2. stage[s] = "live" /\ Moves(s, l, "live", "settled", FALSE)
    BY <1>0, <2>1 DEF Settled, Moves
  <2>3. \A k \in Leg : stream[s][k] # "none"
    BY <2>2 DEF ConnectInvariant, TypeOK
  <2>4. ProbeSlotIsHeld'
    BY <2>1 DEF ProbeSlotIsHeld
  <2>5. TypeOK' /\ OneByOne'
    BY <1>1, <2>2, <2>3, MovesTyped
  <2> QED BY <2>4, <2>5 DEF ConnectInvariant
<1>11. CASE VendorChanges \/ Clock \/ UNCHANGED vars
  <2>1. UNCHANGED <<stage, stream, probe>> /\ probeInFlight' = probeInFlight
    BY <1>11 DEF VendorChanges, Clock, CooldownElapses, vars, breakerVars
  <2>2. vendorUp' \in BOOLEAN
    BY <1>11, Zenon DEF VendorChanges, Clock, vars, ConnectInvariant, TypeOK
  <2>3. TypeOK' /\ OneByOne'
    BY <1>1, <2>1, <2>2 DEF ConnectInvariant, TypeOK, OneByOne
  <2>4. ProbeSlotIsHeld'
    BY <2>1, SlotStays DEF Probing
  <2> QED BY <2>3, <2>4 DEF ConnectInvariant
<1> QED BY <1>4, <1>5, <1>7, <1>8, <1>9, <1>10, <1>11 DEF Next

\* The types, and that a live session has both its streams and an idle one none,
\* through rejections, dials and hangups of any number of sessions.
THEOREM ConnectTyped == Spec => []TypeOK
<1>1. ConnectInvariant => TypeOK
  BY DEF ConnectInvariant
<1> QED BY <1>1, ConnectInit, ConnectStep, PTL DEF Spec

\* The probe slot of a recognizer is held by a stream that has yet to report: no
\* rejected session and no hangup before the first push keeps it.
THEOREM ConnectProbeNeverLeaks == Spec => []ProbeSlotIsHeld
<1>1. ConnectInvariant => ProbeSlotIsHeld
  BY DEF ConnectInvariant
<1> QED BY <1>1, ConnectInit, ConnectStep, PTL DEF Spec
=============================================================================
