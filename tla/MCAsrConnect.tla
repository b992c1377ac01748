---------------------------- MODULE MCAsrConnect ----------------------------
(* Calls that share one recognizer.                                        *)
EXTENDS AsrConnect
CONSTANTS s1, s2
OneSession == {s1}
TwoSessions == {s1, s2}
=============================================================================
