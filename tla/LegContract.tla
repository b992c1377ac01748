---------------------------- MODULE LegContract ----------------------------
(***************************************************************************)
(* What one leg of a session promises, whatever its goroutines do: every   *)
(* final transcript it takes is settled once and in order; a degraded leg  *)
(* settles transcripts by passthrough only and is never healed; nothing is *)
(* settled after the leg has stopped (fallback.go's package comment, and   *)
(* recordSuccess's).                                                       *)
(***************************************************************************)
EXTENDS Sequences

CONSTANTS Outcome, Passthrough
VARIABLES mode, log

Init == mode = "translating" /\ log = <<>>

Settle ==
  /\ mode # "stopped"
  /\ \E o \in (IF mode = "degraded" THEN Passthrough ELSE Outcome) : log' = Append(log, o)
  /\ UNCHANGED mode

Degrade == mode = "translating" /\ mode' = "degraded" /\ UNCHANGED log

Stop == mode # "stopped" /\ mode' = "stopped" /\ UNCHANGED log

Next == Settle \/ Degrade \/ Stop

Spec == Init /\ [][Next]_<<mode, log>>
=============================================================================
