------------------------------- MODULE Rooms -------------------------------
(* The WebRTC gateway's room manager (pkg/webrtcgw/room.go) as the          *)
(* signalling handlers (signaling.go) use it.                              *)
(*                                                                         *)
(* A client is one WebSocket: it joins once and hangs up once.  A room is   *)
(* named by the client whose Join created it, since a Join creates at most  *)
(* one.  Each section under Manager.mu or Room.mu is one step; what runs    *)
(* between the locks interleaves: the creator's arming of the idle timer,   *)
(* the timer's expiry, and the two calls of leave that each peer gets, one  *)
(* from its handler, one from its connection's state callback.             *)
EXTENDS Integers, FiniteSets

CONSTANTS
    Client,        \* WebSocket connections
    Id,            \* room ids
    None,          \* nil
    Asks,          \* the joins each client may ask for: sets of Wish
    MaxRooms       \* Manager.maxRooms, of WithMaxRooms

ASSUME MaxRoomsAssumption == MaxRooms \in Nat \ {0}

Role == {"caller", "agent"}
Wish == [id : Id, role : Role]
ASSUME NoneAssumption == None \notin Client \cup Wish
ASSUME AsksAssumption == Asks \in [Client -> SUBSET Wish]
Room == Client

\* The two sources of calls to leave for a peer.
Source == {"handler", "callback"}
Leaver == Client \X Source

VARIABLES
    pc,            \* where a client's Join, then its handler, is
    wish,          \* the id and role it asked for
    room,          \* the room roomFor gave it
    link,          \* its PeerConnection: none, open, lost, shut
    directory,     \* Manager.rooms
    seat,          \* Room.caller and Room.agent
    closed,        \* Room.closed
    timer,         \* Room.idleTimer and expireIncomplete's progress
    victims,       \* the peers expireIncomplete took out of the room
    step,          \* where a call of leave is
    found,         \* the room it looked up
    sawTimer,      \* whether it read a non-nil idleTimer
    ended,         \* history: how often the room's session was closed
    filled         \* history: both seats were taken at some time

joinVars  == <<pc, wish, room, link>>
roomVars  == <<directory, seat, closed, timer, victims>>
leaveVars == <<step, found, sawTimer>>
history   == <<ended, filled>>
vars == <<joinVars, roomVars, leaveVars, history>>

Pc    == {"new", "lookup", "check", "arm", "sit", "joined", "rejected", "gone"}
Link  == {"none", "open", "lost", "shut"}
Timer == {"unset", "armed", "stopped", "fired", "unlist", "end", "done"}
Step  == {"idle", "find", "vacate", "unlist", "end", "done"}

TypeOK ==
    /\ pc \in [Client -> Pc]
    /\ wish \in [Client -> Wish \cup {None}]
    /\ \A c \in Client : pc[c] # "new" => wish[c] # None
    /\ room \in [Client -> Room \cup {None}]
    /\ \A c \in Client : pc[c] \in {"check", "arm", "sit", "joined", "gone"}
                            => room[c] # None
    /\ link \in [Client -> Link]
    /\ directory \in [Id -> Room \cup {None}]
    /\ seat \in [Room -> [Role -> Client \cup {None}]]
    /\ closed \in [Room -> BOOLEAN]
    /\ timer \in [Room -> Timer]
    /\ victims \in [Room -> SUBSET Client]
    /\ step \in [Leaver -> Step]
    /\ found \in [Leaver -> Room \cup {None}]
    /\ \A k \in Leaver : step[k] \in {"vacate", "unlist", "end"} => found[k] # None
    /\ sawTimer \in [Leaver -> BOOLEAN]
    /\ ended \in [Room -> Nat]
    /\ filled \in [Room -> BOOLEAN]

Init ==
    /\ pc = [c \in Client |-> "new"]
    /\ wish = [c \in Client |-> None]
    /\ room = [c \in Client |-> None]
    /\ link = [c \in Client |-> "none"]
    /\ directory = [i \in Id |-> None]
    /\ seat = [r \in Room |-> [o \in Role |-> None]]
    /\ closed = [r \in Room |-> FALSE]
    /\ timer = [r \in Room |-> "unset"]
    /\ victims = [r \in Room |-> {}]
    /\ step = [k \in Leaver |-> "idle"]
    /\ found = [k \in Leaver |-> None]
    /\ sawTimer = [k \in Leaver |-> FALSE]
    /\ ended = [r \in Room |-> 0]
    /\ filled = [r \in Room |-> FALSE]

Occupants(r) == {seat[r][o] : o \in Role} \ {None}
IsFull(r)  == \A o \in Role : seat[r][o] # None
IsEmpty(r) == \A o \in Role : seat[r][o] = None
Listed == {i \in Id : directory[i] # None}

-----------------------------------------------------------------------------
(* Manager.Join, called by the signalling handler.                          *)

\* The handler has read a well-formed join message.
Arrive(c) ==
    /\ pc[c] = "new"
    /\ \E w \in Asks[c] : wish' = [wish EXCEPT ![c] = w]
    /\ pc' = [pc EXCEPT ![c] = "lookup"]
    /\ UNCHANGED <<room, link, roomVars, leaveVars, history>>

\* roomFor under Manager.mu, an entry for the id exists.
FindRoom(c) ==
    /\ pc[c] = "lookup"
    /\ directory[wish[c].id] # None
    /\ room' = [room EXCEPT ![c] = directory[wish[c].id]]
    /\ pc' = [pc EXCEPT ![c] = "check"]
    /\ UNCHANGED <<wish, link, roomVars, leaveVars, history>>

\* roomFor under Manager.mu, no entry, the cap not reached.
CreateRoom(c) ==
    /\ pc[c] = "lookup"
    /\ directory[wish[c].id] = None
    /\ Cardinality(Listed) < MaxRooms
    /\ directory' = [directory EXCEPT ![wish[c].id] = c]
    /\ room' = [room EXCEPT ![c] = c]
    /\ pc' = [pc EXCEPT ![c] = "arm"]
    /\ UNCHANGED <<wish, link, seat, closed, timer, victims, leaveVars, history>>

\* The cap is reached, or the factory cannot build a session.
RejectRoom(c) ==
    /\ pc[c] = "lookup"
    /\ directory[wish[c].id] = None
    /\ pc' = [pc EXCEPT ![c] = "rejected"]
    /\ UNCHANGED <<wish, room, link, roomVars, leaveVars, history>>

\* roomFor under Room.mu: a closed room sends it back to the lookup.
CheckRoom(c) ==
    /\ pc[c] = "check"
    /\ pc' = [pc EXCEPT ![c] = IF closed[room[c]] THEN "lookup" ELSE "sit"]
    /\ UNCHANGED <<wish, room, link, roomVars, leaveVars, history>>

\* The creator installs the idle timer, after the room is published.
ArmTimer(c) ==
    /\ pc[c] = "arm"
    /\ timer' = [timer EXCEPT ![room[c]] = "armed"]
    /\ pc' = [pc EXCEPT ![c] = "sit"]
    /\ UNCHANGED <<wish, room, link, directory, seat, closed, victims, leaveVars, history>>

\* Stop of a timer that has not fired yet; of any other it is a no-op.
StopTimer(r) == timer' = [timer EXCEPT ![r] = IF @ = "armed" THEN "stopped" ELSE @]

\* Join under Room.mu, the role is free: the peer is made and connected.
TakeSeat(c) ==
    LET r == room[c]  o == wish[c].role
    IN  /\ pc[c] = "sit"
        /\ seat[r][o] = None
        /\ seat' = [seat EXCEPT ![r][o] = c]
        /\ link' = [link EXCEPT ![c] = "open"]
        /\ pc' = [pc EXCEPT ![c] = "joined"]
        /\ IF \A q \in Role \ {o} : seat[r][q] # None
           THEN /\ StopTimer(r)
                /\ filled' = [filled EXCEPT ![r] = TRUE]
           ELSE UNCHANGED <<timer, filled>>
        /\ UNCHANGED <<wish, room, directory, closed, victims, leaveVars, ended>>

\* ErrRoleTaken, or newPeer fails; the room stays as it is.
RejectPeer(c) ==
    /\ pc[c] = "sit"
    /\ pc' = [pc EXCEPT ![c] = "rejected"]
    /\ UNCHANGED <<wish, room, link, roomVars, leaveVars, history>>

-----------------------------------------------------------------------------
(* The end of a peer.                                                       *)

\* The socket ends: the handler's deferred p.close(), then its leave begins.
HangUp(c) ==
    /\ pc[c] = "joined"
    /\ pc' = [pc EXCEPT ![c] = "gone"]
    /\ link' = [link EXCEPT ![c] = "shut"]
    /\ step' = [step EXCEPT ![<<c, "handler">>] = "find"]
    /\ UNCHANGED <<wish, room, roomVars, found, sawTimer, history>>

\* The connection fails while the socket is still up: the callback runs leave.
LoseMedia(c) ==
    /\ pc[c] = "joined"
    /\ link[c] = "open"
    /\ step[<<c, "callback">>] = "idle"
    /\ link' = [link EXCEPT ![c] = "lost"]
    /\ step' = [step EXCEPT ![<<c, "callback">>] = "find"]
    /\ UNCHANGED <<pc, wish, room, roomVars, found, sawTimer, history>>

\* A connection that was closed says so; the callback runs leave.  A peer's
\* callback is followed once, the first time it reports.
ReportClosed(c) ==
    /\ link[c] = "shut"
    /\ step[<<c, "callback">>] = "idle"
    /\ step' = [step EXCEPT ![<<c, "callback">>] = "find"]
    /\ UNCHANGED <<joinVars, roomVars, found, sawTimer, history>>

\* leave returns; its locals are forgotten.
LeaveReturns(k) ==
    /\ step' = [step EXCEPT ![k] = "done"]
    /\ found' = [found EXCEPT ![k] = None]
    /\ sawTimer' = [sawTimer EXCEPT ![k] = FALSE]

\* leave under Manager.mu.
LeaveFind(k) ==
    LET r == directory[wish[k[1]].id]
    IN  /\ step[k] = "find"
        /\ IF r = None
           THEN LeaveReturns(k)
           ELSE /\ found' = [found EXCEPT ![k] = r]
                /\ step' = [step EXCEPT ![k] = "vacate"]
                /\ UNCHANGED sawTimer
        /\ UNCHANGED <<joinVars, roomVars, history>>

\* leave under Room.mu finds the room already torn down.
LeaveClosed(k) ==
    /\ step[k] = "vacate"
    /\ closed[found[k]]
    /\ LeaveReturns(k)
    /\ UNCHANGED <<joinVars, roomVars, history>>

\* The seat of k's role in the room it found is emptied, whoever sits there; the
\* call that finds the room empty then closes it and goes on.
Vacate(k, empty) ==
    LET r == found[k]
    IN  /\ seat' = [seat EXCEPT ![r][wish[k[1]].role] = None]
        /\ closed' = [closed EXCEPT ![r] = empty]
        /\ IF empty
           THEN /\ step' = [step EXCEPT ![k] = "unlist"]
                /\ sawTimer' = [sawTimer EXCEPT ![k] = timer[r] # "unset"]
                /\ UNCHANGED found
           ELSE LeaveReturns(k)
        /\ UNCHANGED <<joinVars, directory, timer, victims, history>>

\* Nobody is left once k's role is out.
LastOut(k) == \A o \in Role \ {wish[k[1]].role} : seat[found[k]][o] = None

\* Mutant: leave does not look at closed once it has the room.
LeaveVacateUnchecked(k) == step[k] = "vacate" /\ Vacate(k, LastOut(k))

\* Mutant: leave looks whether the room is empty before it empties the seat.
LeaveVacateLate(k) ==
    step[k] = "vacate" /\ ~closed[found[k]] /\ Vacate(k, IsEmpty(found[k]))

\* leave under Room.mu.
LeaveVacate(k) ==
    /\ step[k] = "vacate"
    /\ ~closed[found[k]]
    /\ Vacate(k, LastOut(k))

\* Mutant: the entry is never deleted.
UnlistNever(r) == UNCHANGED directory

\* delete(m.rooms, roomID), of this very room only.
Unlist(r) == directory' = [i \in Id |-> IF directory[i] = r THEN None ELSE directory[i]]

\* leave stops the timer it saw and, under Manager.mu, removes the entry.
LeaveUnlist(k) ==
    /\ step[k] = "unlist"
    /\ IF sawTimer[k] THEN StopTimer(found[k]) ELSE UNCHANGED timer
    /\ Unlist(found[k])
    /\ step' = [step EXCEPT ![k] = "end"]
    /\ UNCHANGED <<joinVars, seat, closed, victims, found, sawTimer, history>>

\* leave cancels the room's context and closes its session.
LeaveEnd(k) ==
    /\ step[k] = "end"
    /\ ended' = [ended EXCEPT ![found[k]] = @ + 1]
    /\ LeaveReturns(k)
    /\ UNCHANGED <<joinVars, roomVars, filled>>

-----------------------------------------------------------------------------
(* expireIncomplete, run by the idle timer of room r.                       *)

TimerFires(r) ==
    /\ timer[r] = "armed"
    /\ timer' = [timer EXCEPT ![r] = "fired"]
    /\ UNCHANGED <<joinVars, directory, seat, closed, victims, leaveVars, history>>

\* Mutant: a room with one peer in it is spared too.
ExpireSparesAny(r) ==
    /\ timer[r] = "fired"
    /\ closed[r] \/ Occupants(r) # {}
    /\ timer' = [timer EXCEPT ![r] = "done"]
    /\ UNCHANGED <<joinVars, directory, seat, closed, victims, leaveVars, history>>

\* Under Room.mu: closed or full, nothing to do.
ExpireSpares(r) ==
    /\ timer[r] = "fired"
    /\ closed[r] \/ IsFull(r)
    /\ timer' = [timer EXCEPT ![r] = "done"]
    /\ UNCHANGED <<joinVars, directory, seat, closed, victims, leaveVars, history>>

\* Mutant: the room is not marked closed.
ExpireForgets(r) ==
    /\ timer[r] = "fired"
    /\ ~closed[r]
    /\ ~IsFull(r)
    /\ victims' = [victims EXCEPT ![r] = Occupants(r)]
    /\ seat' = [seat EXCEPT ![r] = [o \in Role |-> None]]
    /\ timer' = [timer EXCEPT ![r] = "unlist"]
    /\ UNCHANGED <<joinVars, directory, closed, leaveVars, history>>

\* Under Room.mu: closes the room and takes out whoever waited in it.
ExpireCloses(r) ==
    /\ timer[r] = "fired"
    /\ ~closed[r]
    /\ ~IsFull(r)
    /\ closed' = [closed EXCEPT ![r] = TRUE]
    /\ victims' = [victims EXCEPT ![r] = Occupants(r)]
    /\ seat' = [seat EXCEPT ![r] = [o \in Role |-> None]]
    /\ timer' = [timer EXCEPT ![r] = "unlist"]
    /\ UNCHANGED <<joinVars, directory, leaveVars, history>>

\* Under Manager.mu.
ExpireUnlists(r) ==
    /\ timer[r] = "unlist"
    /\ Unlist(r)
    /\ timer' = [timer EXCEPT ![r] = "end"]
    /\ UNCHANGED <<joinVars, seat, closed, victims, leaveVars, history>>

\* Cancels the context, closes the waiting peer's connection and the session.
ExpireEnds(r) ==
    /\ timer[r] = "end"
    /\ link' = [c \in Client |-> IF c \in victims[r] THEN "shut" ELSE link[c]]
    /\ ended' = [ended EXCEPT ![r] = @ + 1]
    /\ timer' = [timer EXCEPT ![r] = "done"]
    /\ victims' = [victims EXCEPT ![r] = {}]
    /\ UNCHANGED <<pc, wish, room, directory, seat, closed, leaveVars, filled>>

-----------------------------------------------------------------------------
JoinStep(c) ==
    \/ FindRoom(c) \/ CreateRoom(c) \/ RejectRoom(c) \/ CheckRoom(c)
    \/ ArmTimer(c) \/ TakeSeat(c) \/ RejectPeer(c)
LeaveStep(k) ==
    \/ LeaveFind(k) \/ LeaveClosed(k) \/ LeaveVacate(k) \/ LeaveUnlist(k) \/ LeaveEnd(k)
ExpireStep(r) ==
    \/ TimerFires(r) \/ ExpireSpares(r) \/ ExpireCloses(r) \/ ExpireUnlists(r)
    \/ ExpireEnds(r)

Next ==
    \/ \E c \in Client : \/ Arrive(c) \/ JoinStep(c)
                         \/ HangUp(c) \/ LoseMedia(c) \/ ReportClosed(c)
    \/ \E k \in Leaver : LeaveStep(k)
    \/ \E r \in Room : ExpireStep(r)

Spec == Init /\ [][Next]_vars

\* Calls of Join and leave go on, an armed timer fires; nobody has to come, to
\* hang up, or to be reported.
FairSpec ==
    /\ Spec
    /\ \A c \in Client : WF_vars(JoinStep(c))
    /\ \A k \in Leaver : WF_vars(LeaveStep(k))
    /\ \A r \in Room : WF_vars(ExpireStep(r))

-----------------------------------------------------------------------------
(* Properties.                                                              *)

Created(r) == room[r] = r

\* leave (twice per peer) and expireIncomplete race for the same room, and their
\* work after the locks is not idempotent: Room.closed lets one of them through,
\* so a session is closed at most once, and only after its room is unlisted.
SessionClosedOnce ==
    \A r \in Room : /\ ended[r] <= 1
                    /\ ended[r] = 1 => closed[r] /\ \A i \in Id : directory[i] # r

\* A room that is not closed is the one its id leads to: no leave or expiry of
\* an older room of that id, however late, takes it out of the directory, so its
\* peers' own leave calls reach it and a second participant finds it.
LiveRoomListed ==
    \A r \in Room : Created(r) /\ ~closed[r] => directory[wish[r].id] = r

\* A room that never has two peers (its creator gave up, could not get a peer,
\* or waits in vain) is closed and its session ended, whatever races the timer.
AbandonedRoomReclaimed ==
    \A r \in Room : Created(r) ~> (filled[r] \/ ended[r] = 1)

\* A room all of whose clients are gone ends its session, full once or not,
\* unless another client comes: no leave misses its own room.
DesertedRoomReclaimed ==
    \A r \in Room :
        LET inUse == \E c \in Client : /\ room[c] = r
                                       /\ pc[c] \in {"check", "arm", "sit", "joined"}
        IN  (Created(r) /\ ~inUse) ~> (ended[r] = 1 \/ inUse)

\* roomFor's retry loop ends: a closed room it spins on is taken out of the
\* directory by whoever closed it.
JoinReturns ==
    \A c \in Client : (pc[c] = "lookup") ~> (pc[c] \in {"joined", "rejected", "gone"})

\* room.go says that roomFor retries "rather than adding a peer to a room whose
\* Session has already been torn down".  Join locks the room anew without looking.
JoinedRoomIsLive ==
    [][\A c \in Client : pc[c] = "sit" /\ pc'[c] = "joined" => ~closed[room[c]]]_vars
=============================================================================
