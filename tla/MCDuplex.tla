------------------------------ MODULE MCDuplex ------------------------------
(* One leg speaks and the other only opens and closes.                      *)
EXTENDS Duplex
AgentHears3 == [l \in Leg |-> IF l = "agent" THEN 3 ELSE 0]
CallerSpeaks1 == [l \in Leg |-> IF l = "caller" THEN 1 ELSE 0]
=============================================================================
