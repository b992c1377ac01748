------------------------------ MODULE MCRooms ------------------------------
(* Clients that meet in one room id.                                       *)
EXTENDS Rooms
CONSTANTS w1, w2, room1
\* One comes as the caller, the other in either role: the same, or the other.
OneCallerOneAny == [w \in {w1, w2} |->
    {[id |-> room1, role |-> o] : o \in IF w = w1 THEN {"caller"} ELSE Role}]
TwoClients == {w1, w2}
=============================================================================
