--------------------------- MODULE CircuitBreaker ---------------------------
(***************************************************************************)
(* The circuit breaker of pkg/asr, pkg/translate and pkg/tts (one shape,   *)
(* three copies of circuitbreaker.go).  A client holds one breaker; every  *)
(* call asks allow() and, if let through, later reports recordSuccess,     *)
(* recordFailure or abort.  Each method runs under the breaker's mutex.    *)
(*                                                                         *)
(* The clock is abstracted to what allow() compares: cooling is            *)
(* now < openUntil.                                                        *)
(***************************************************************************)
EXTENDS Naturals

CONSTANT Threshold   \* consecutive failures that trip the breaker

ASSUME ThresholdAssumption == Threshold \in Nat \ {0}

VARIABLES open, consecutiveFails, cooling, probeInFlight
breakerVars == <<open, consecutiveFails, cooling, probeInFlight>>

BreakerTyped ==
  /\ open \in BOOLEAN
  /\ consecutiveFails \in Nat
  /\ cooling \in BOOLEAN
  /\ probeInFlight \in BOOLEAN

BreakerInit ==
  /\ open = FALSE
  /\ consecutiveFails = 0
  /\ cooling = FALSE
  /\ probeInFlight = FALSE

\* allow() returns true: the breaker is closed, or its cooldown has elapsed
\* and the probe slot is free.
Allowed == ~open \/ (~cooling /\ ~probeInFlight)

Allow ==
  /\ Allowed
  /\ probeInFlight' = (open \/ probeInFlight)
  /\ UNCHANGED <<open, consecutiveFails, cooling>>

\* Mutant: the failure count survives a success.
RecordSuccessKeepsCount ==
  /\ open' = FALSE
  /\ probeInFlight' = FALSE
  /\ UNCHANGED <<consecutiveFails, cooling>>

RecordSuccess ==
  /\ open' = FALSE
  /\ consecutiveFails' = 0
  /\ probeInFlight' = FALSE
  /\ UNCHANGED cooling

\* Mutant: a failed probe keeps the probe slot.
RecordFailureKeepsSlot ==
  LET trips == open \/ consecutiveFails + 1 >= Threshold IN
  /\ consecutiveFails' = consecutiveFails + 1
  /\ open' = trips
  /\ cooling' = (trips \/ cooling)
  /\ UNCHANGED probeInFlight

RecordFailure ==
  LET trips == open \/ consecutiveFails + 1 >= Threshold IN
  /\ probeInFlight' = FALSE
  /\ consecutiveFails' = consecutiveFails + 1
  /\ open' = trips
  /\ cooling' = (trips \/ cooling)

Abort ==
  /\ probeInFlight' = FALSE
  /\ UNCHANGED <<open, consecutiveFails, cooling>>

\* The clock passes openUntil.
CooldownElapses ==
  /\ cooling
  /\ cooling' = FALSE
  /\ UNCHANGED <<open, consecutiveFails, probeInFlight>>

\* The failure count and the switch agree: a closed breaker has some of its
\* budget left, an open one was tripped by Threshold consecutive failures.
OpenIffBudgetSpent == open <=> consecutiveFails >= Threshold
=============================================================================
