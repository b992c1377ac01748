----------------------------- MODULE MCSession -----------------------------
(* The bounds of the runs of Session.                                      *)
EXTENDS SessionProperties

Load(f, n) == [frames |-> f, finals |-> n]

\* One leg carries the conversation, the other only opens and closes.
OneLeg(loads) == [l \in Leg |-> IF l = "caller" THEN loads ELSE {Load(0, 0)}]

\* A long call without audio to pass through, or a short one with it.
LongOrLoud == OneLeg({Load(0, 3), Load(2, 1)})
ShortCall  == OneLeg({Load(1, 1)})
OneFinal   == OneLeg({Load(0, 1)})
TwoFinals  == OneLeg({Load(0, 2)})
OnlyCaller == {"caller"}
=============================================================================
