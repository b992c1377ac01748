----------------------------- MODULE VendorCall -----------------------------
(***************************************************************************)
(* The calls of one MT or TTS client (GPT4oTranslator.Translate and the    *)
(* SynthesizeStream of Cartesia and ElevenLabs): each passes the breaker,  *)
(* tries the vendor up to MaxAttempts times with a backoff between two     *)
(* transient failures, and settles with the breaker once - by a deferred   *)
(* abort when neither success nor exhaustion was reported.  The two legs   *)
(* of a session, and all sessions of a gateway, share the client.          *)
(*                                                                         *)
(* allow() returning false leaves every variable alone: a rejected call is *)
(* a stuttering step.                                                      *)
(***************************************************************************)
EXTENDS CircuitBreaker

CONSTANTS
  Callers,      \* the goroutines that call the client
  MaxAttempts,  \* gpt4oMaxAttempts, cartesiaMaxAttempts, elevenlabsMaxAttempts
  MaxFails      \* bound: the failure count at which the vendor stops failing

ASSUME CallAssumption == MaxAttempts \in Nat \ {0} /\ MaxFails \in Nat

VARIABLES
  pc,        \* where a caller is: "idle", "attempt" or "backoff"
  attempt,   \* the retry loop's counter
  probe,     \* history: the call was let through as a probe
  vendorUp   \* whether the vendor answers

callVars == <<breakerVars, pc, attempt, probe, vendorUp>>

\* Every variable has its type, and no call makes more than MaxAttempts attempts.
CallsTyped ==
  /\ BreakerTyped
  /\ pc \in [Callers -> {"idle", "attempt", "backoff"}]
  /\ attempt \in [Callers -> 0..(MaxAttempts - 1)]
  /\ \A c \in Callers : pc[c] = "backoff" => attempt[c] < MaxAttempts - 1
  /\ probe \in [Callers -> BOOLEAN]
  /\ vendorUp \in BOOLEAN

CallInit ==
  /\ BreakerInit
  /\ pc = [c \in Callers |-> "idle"]
  /\ attempt = [c \in Callers |-> 0]
  /\ probe = [c \in Callers |-> FALSE]
  /\ vendorUp = TRUE

\* The breaker lets the call through.
Enter(c) ==
  /\ pc[c] = "idle"
  /\ Allow
  /\ pc' = [pc EXCEPT ![c] = "attempt"]
  /\ attempt' = [attempt EXCEPT ![c] = 0]
  /\ probe' = [probe EXCEPT ![c] = open]
  /\ UNCHANGED vendorUp

\* The call returns to its caller.
Return(c) ==
  /\ pc' = [pc EXCEPT ![c] = "idle"]
  /\ probe' = [probe EXCEPT ![c] = FALSE]
  /\ UNCHANGED <<attempt, vendorUp>>

Succeeds(c) ==
  /\ pc[c] = "attempt" /\ vendorUp
  /\ RecordSuccess
  /\ Return(c)

\* A transient failure with attempts left.
FailsForNow(c) ==
  /\ pc[c] = "attempt" /\ ~vendorUp /\ attempt[c] < MaxAttempts - 1
  /\ pc' = [pc EXCEPT ![c] = "backoff"]
  /\ UNCHANGED <<breakerVars, attempt, probe, vendorUp>>

Retry(c) ==
  /\ pc[c] = "backoff"
  /\ pc' = [pc EXCEPT ![c] = "attempt"]
  /\ attempt' = [attempt EXCEPT ![c] = @ + 1]
  /\ UNCHANGED <<breakerVars, probe, vendorUp>>

\* The last attempt failed transiently too.
GivesUp(c) ==
  /\ pc[c] = "attempt" /\ ~vendorUp /\ attempt[c] = MaxAttempts - 1
  /\ consecutiveFails < MaxFails
  /\ RecordFailure
  /\ Return(c)

\* Mutant: the deferred abort is missing.
AbortsWithoutReport(c) ==
  /\ pc[c] # "idle"
  /\ Return(c)
  /\ UNCHANGED breakerVars

\* A permanent failure, or the caller's context is done during an attempt or
\* a backoff: the deferred abort.
Aborts(c) ==
  /\ pc[c] # "idle"
  /\ Abort
  /\ Return(c)

VendorChanges ==
  /\ vendorUp' = ~vendorUp
  /\ UNCHANGED <<breakerVars, pc, attempt, probe>>

Clock == CooldownElapses /\ UNCHANGED <<pc, attempt, probe, vendorUp>>

CallNext ==
  \/ \E c \in Callers :
       \/ Enter(c) \/ Succeeds(c) \/ FailsForNow(c) \/ Retry(c) \/ GivesUp(c) \/ Aborts(c)
  \/ VendorChanges \/ Clock

CallSpec == CallInit /\ [][CallNext]_callVars

-----------------------------------------------------------------------------
Probing(c) == pc[c] # "idle" /\ probe[c]

\* The probe slot is held by a call that is still going to report (allow's
\* comment: every true result is paired with a report): a slot nobody holds
\* would keep the breaker open for good.
ProbeSlotIsHeld == probeInFlight => \E c \in Callers : Probing(c)

\* A breaker recovers with its vendor: once the vendor stays up, the breaker
\* closes and stays closed, however the calls interleave.
RecoversWithVendor == <>[]vendorUp => <>[]~open
=============================================================================
