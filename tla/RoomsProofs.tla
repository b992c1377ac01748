---------------------------- MODULE RoomsProofs ----------------------------
(* Theorems of Rooms, for any clients, ids, cap and wishes.                 *)
EXTENDS Rooms, TLAPS

-----------------------------------------------------------------------------
(* The invariant behind the theorems.                                       *)

Seated == {"joined", "gone"}
Closes == {"unlist", "end"}

\* Rooms that occur anywhere have been created, by a client that will not do
\* so again.
RoomsExist ==
    /\ \A c \in Client : pc[c] \in {"new", "lookup", "check"} => room[c] # c
    /\ \A c \in Client : pc[c] = "arm" => Created(c)
    /\ \A i \in Id : directory[i] # None => Created(directory[i])
    /\ \A k \in Leaver : found[k] # None => Created(found[k])
    /\ \A r \in Room : timer[r] # "unset" \/ closed[r] => Created(r)

\* Whoever leaves, sits or is thrown out has joined.
PeersJoined ==
    /\ \A c \in Client : link[c] # "none" => pc[c] \in Seated
    /\ \A r \in Room, o \in Role : seat[r][o] # None => pc[seat[r][o]] \in Seated
    /\ \A r \in Room : \A c \in victims[r] : pc[c] \in Seated
    /\ \A k \in Leaver : step[k] # "idle" => pc[k[1]] \in Seated

Unlisted(r) == \A i \in Id : directory[i] # r

\* A closed room is being torn down by one leave call or by its timer, or it has
\* been torn down already.
OneCloser ==
    /\ \A k \in Leaver : step[k] \in Closes =>
          /\ closed[found[k]] /\ ended[found[k]] = 0
          /\ timer[found[k]] \notin Closes
          /\ step[k] = "end" => Unlisted(found[k])
    /\ \A j, k \in Leaver :
          step[j] \in Closes /\ step[k] \in Closes /\ found[j] = found[k] => j = k
    /\ \A r \in Room : timer[r] \in Closes =>
          /\ closed[r] /\ ended[r] = 0
          /\ timer[r] = "end" => Unlisted(r)
    /\ \A r \in Room : ended[r] # 0 => ended[r] = 1 /\ closed[r] /\ Unlisted(r)

RoomsInvariant == TypeOK /\ RoomsExist /\ PeersJoined /\ OneCloser /\ LiveRoomListed

-----------------------------------------------------------------------------
(* Each part is kept by every step.                                         *)

\* A client past its first step has asked for something.
LEMMA WishKnown ==
  ASSUME TypeOK, NEW c \in Client, pc[c] # "new"
  PROVE  /\ wish[c] # None /\ wish[c].id \in Id /\ wish[c].role \in Role
         /\ directory[wish[c].id] \in Room \cup {None}
<1>1. wish[c] # None /\ wish[c] \in Wish
  BY DEF TypeOK
<1> QED BY <1>1 DEF TypeOK, Wish

\* So has a peer for which leave was called, and leave has a room where it uses one.
LEMMA LeaverKnown ==
  ASSUME TypeOK, PeersJoined, NEW k \in Leaver, step[k] # "idle"
  PROVE  /\ k[1] \in Client /\ pc[k[1]] # "new"
         /\ directory[wish[k[1]].id] \in Room \cup {None}
         /\ step[k] \in {"vacate", "unlist", "end"} => found[k] \in Room
<1>1. k[1] \in Client /\ pc[k[1]] # "new"
  BY DEF Leaver, PeersJoined, Seated
<1>2. step[k] \in {"vacate", "unlist", "end"} => found[k] \in Room
  BY DEF TypeOK
<1> QED BY <1>1, <1>2, WishKnown

\* Stopping a timer keeps its type, creates nothing and closes nothing.
LEMMA StopHarmless ==
  ASSUME TypeOK, NEW r \in Room, StopTimer(r)
  PROVE  /\ timer' \in [Room -> Timer]
         /\ \A s \in Room : timer'[s] # timer[s] => timer[s] = "armed" /\ timer'[s] = "stopped"
BY DEF TypeOK, StopTimer, Timer

\* What leave's locked section does to each variable.
LEMMA VacateEffect ==
  ASSUME TypeOK, PeersJoined, NEW k \in Leaver, LeaveVacate(k)
  PROVE  /\ found[k] \in Room /\ ~closed[found[k]] /\ step[k] = "vacate"
         /\ seat' \in [Room -> [Role -> Client \cup {None}]]
         /\ closed' \in [Room -> BOOLEAN] /\ sawTimer' \in [Leaver -> BOOLEAN]
         /\ step' \in [Leaver -> Step] /\ found' \in [Leaver -> Room \cup {None}]
         /\ \A r \in Room : r # found[k] => closed'[r] = closed[r]
         /\ \A j \in Leaver : j # k => step'[j] = step[j] /\ found'[j] = found[j]
         /\ \/ step'[k] = "unlist" /\ found'[k] = found[k] /\ closed'[found[k]]
            \/ step'[k] = "done" /\ found'[k] = None
         /\ UNCHANGED <<joinVars, directory, timer, victims, history>>
<1> DEFINE r == found[k]  out == LastOut(k)
<1>1. r \in Room
  BY LeaverKnown DEF LeaveVacate
<1>2. /\ step[k] = "vacate" /\ ~closed[r]
      /\ UNCHANGED <<joinVars, directory, timer, victims, history>>
  BY DEF LeaveVacate, Vacate
<1>3. seat' \in [Room -> [Role -> Client \cup {None}]]
  <2>1. seat' = [seat EXCEPT ![r][wish[k[1]].role] = None]
    BY DEF LeaveVacate, Vacate
  <2> QED BY <2>1 DEF TypeOK
<1>4. closed' = [closed EXCEPT ![r] = out] /\ out \in BOOLEAN
  BY DEF LeaveVacate, Vacate, LastOut
<1>5. closed' \in [Room -> BOOLEAN] /\ \A q \in Room : q # r => closed'[q] = closed[q]
  BY <1>4, Zenon DEF TypeOK
<1>6. CASE out
  <2>1. /\ step' = [step EXCEPT ![k] = "unlist"] /\ found' = found
        /\ sawTimer' = [sawTimer EXCEPT ![k] = timer[r] # "unset"]
    BY <1>6, Zenon DEF LeaveVacate, Vacate
  <2>2. sawTimer' \in [Leaver -> BOOLEAN]
    <3>1. (timer[r] # "unset") \in BOOLEAN
      OBVIOUS
    <3> QED BY <2>1, <3>1, Zenon DEF TypeOK
  <2>3. closed'[r]
    BY <1>1, <1>4, <1>6, Zenon DEF TypeOK
  <2>4. step' \in [Leaver -> Step] /\ found' \in [Leaver -> Room \cup {None}]
    BY <2>1 DEF TypeOK, Step
  <2>5. /\ step'[k] = "unlist" /\ found'[k] = r
        /\ \A j \in Leaver : j # k => step'[j] = step[j] /\ found'[j] = found[j]
    BY <2>1 DEF TypeOK
  <2> QED BY <1>1, <1>2, <1>3, <1>5, <2>2, <2>3, <2>4, <2>5, Zenon
<1>7. CASE ~out
  <2>1. /\ step' = [step EXCEPT ![k] = "done"] /\ found' = [found EXCEPT ![k] = None]
        /\ sawTimer' = [sawTimer EXCEPT ![k] = FALSE]
    BY <1>7, Zenon DEF LeaveVacate, Vacate, LeaveReturns
  <2>2. sawTimer' \in [Leaver -> BOOLEAN]
    BY <2>1, Zenon DEF TypeOK
  <2>3. step' \in [Leaver -> Step] /\ found' \in [Leaver -> Room \cup {None}]
    BY <2>1 DEF TypeOK, Step
  <2>4. /\ step'[k] = "done" /\ found'[k] = None
        /\ \A j \in Leaver : j # k => step'[j] = step[j] /\ found'[j] = found[j]
    BY <2>1 DEF TypeOK
  <2> QED BY <1>1, <1>2, <1>3, <1>5, <2>2, <2>3, <2>4, Zenon
<1> QED BY <1>6, <1>7

\* No step makes a room exist that nobody created, or creates one twice.
LEMMA RoomsExistKept ==
  ASSUME TypeOK, PeersJoined, RoomsExist, [Next]_vars
  PROVE  RoomsExist'
<1> USE NoneAssumption, AsksAssumption DEF TypeOK, RoomsExist, Created, Room, Leaver
<1>1. ASSUME NEW c \in Client, Arrive(c) PROVE RoomsExist'
  BY <1>1 DEF Arrive, joinVars, roomVars, leaveVars, history
<1>2. ASSUME NEW c \in Client, FindRoom(c) PROVE RoomsExist'
  <2>1. directory[wish[c].id] \in Room /\ Created(directory[wish[c].id])
    BY <1>2, WishKnown DEF FindRoom
  <2>2. \A d \in Client : Created(d) => room'[d] = d
    BY <1>2 DEF FindRoom
  <2> QED BY <1>2, <2>1, <2>2 DEF FindRoom, joinVars, roomVars, leaveVars, history
<1>3. ASSUME NEW c \in Client, CreateRoom(c) PROVE RoomsExist'
  BY <1>3 DEF CreateRoom, joinVars, roomVars, leaveVars, history
<1>4. ASSUME NEW c \in Client, RejectRoom(c) PROVE RoomsExist'
  BY <1>4 DEF RejectRoom, joinVars, roomVars, leaveVars, history
<1>5. ASSUME NEW c \in Client, CheckRoom(c) PROVE RoomsExist'
  BY <1>5 DEF CheckRoom, joinVars, roomVars, leaveVars, history
<1>6. ASSUME NEW c \in Client, ArmTimer(c) PROVE RoomsExist'
  BY <1>6 DEF ArmTimer, joinVars, roomVars, leaveVars, history
<1>7. ASSUME NEW c \in Client, TakeSeat(c) PROVE RoomsExist'
  BY <1>7 DEF TakeSeat, StopTimer, joinVars, roomVars, leaveVars, history
<1>8. ASSUME NEW c \in Client, RejectPeer(c) PROVE RoomsExist'
  BY <1>8 DEF RejectPeer, joinVars, roomVars, leaveVars, history
<1>9. ASSUME NEW c \in Client, HangUp(c) PROVE RoomsExist'
  BY <1>9 DEF HangUp, joinVars, roomVars, leaveVars, history
<1>10. ASSUME NEW c \in Client, LoseMedia(c) PROVE RoomsExist'
  BY <1>10 DEF LoseMedia, joinVars, roomVars, leaveVars, history
<1>11. ASSUME NEW c \in Client, ReportClosed(c) PROVE RoomsExist'
  BY <1>11 DEF ReportClosed, joinVars, roomVars, leaveVars, history
<1>12. ASSUME NEW k \in Leaver, LeaveFind(k) PROVE RoomsExist'
  <2>1. directory[wish[k[1]].id] = None \/ Created(directory[wish[k[1]].id])
    BY <1>12, LeaverKnown, WishKnown DEF LeaveFind
  <2>2. UNCHANGED <<joinVars, roomVars>>
    BY <1>12 DEF LeaveFind
  <2>3. PICK r : (r = None \/ Created(r)) /\ found' = [found EXCEPT ![k] = r]
    BY <1>12, <2>1 DEF LeaveFind, LeaveReturns
  <2>4. \A j \in Leaver : found'[j] = IF j = k THEN r ELSE found[j]
    BY <2>3
  <2> QED BY <2>2, <2>3, <2>4 DEF joinVars, roomVars
<1>13. ASSUME NEW k \in Leaver, LeaveClosed(k) PROVE RoomsExist'
  BY <1>13 DEF LeaveClosed, LeaveReturns, joinVars, roomVars, leaveVars, history
<1>14. ASSUME NEW k \in Leaver, LeaveVacate(k) PROVE RoomsExist'
  <2>1. Created(found[k])
    BY <1>14, VacateEffect
  <2>2. \A r \in Room : closed'[r] => closed[r] \/ r = found[k]
    BY <1>14, VacateEffect
  <2>3. \A j \in Leaver : found'[j] # None => found'[j] = found[j]
    <3> SUFFICES ASSUME NEW j \in Leaver, found'[j] # None PROVE found'[j] = found[j]
      OBVIOUS
    <3>1. CASE j = k
      BY <1>14, <3>1, VacateEffect
    <3>2. CASE j # k
      BY <1>14, <3>2, VacateEffect
    <3> QED BY <3>1, <3>2
  <2>4. UNCHANGED <<joinVars, directory, timer>>
    BY <1>14, VacateEffect
  <2> QED BY <2>1, <2>2, <2>3, <2>4 DEF joinVars
<1>15. ASSUME NEW k \in Leaver, LeaveUnlist(k) PROVE RoomsExist'
  BY <1>15 DEF LeaveUnlist, StopTimer, Unlist, joinVars, roomVars, leaveVars, history
<1>16. ASSUME NEW k \in Leaver, LeaveEnd(k) PROVE RoomsExist'
  BY <1>16 DEF LeaveEnd, LeaveReturns, joinVars, roomVars, leaveVars, history
<1>17. ASSUME NEW r \in Room, TimerFires(r) PROVE RoomsExist'
  BY <1>17 DEF TimerFires, joinVars, roomVars, leaveVars, history
<1>18. ASSUME NEW r \in Room, ExpireSpares(r) PROVE RoomsExist'
  BY <1>18 DEF ExpireSpares, joinVars, roomVars, leaveVars, history
<1>19. ASSUME NEW r \in Room, ExpireCloses(r) PROVE RoomsExist'
  BY <1>19 DEF ExpireCloses, Occupants, joinVars, roomVars, leaveVars, history
<1>20. ASSUME NEW r \in Room, ExpireUnlists(r) PROVE RoomsExist'
  BY <1>20 DEF ExpireUnlists, Unlist, joinVars, roomVars, leaveVars, history
<1>21. ASSUME NEW r \in Room, ExpireEnds(r) PROVE RoomsExist'
  BY <1>21 DEF ExpireEnds, joinVars, roomVars, leaveVars, history
<1>22. CASE UNCHANGED vars
  BY <1>22 DEF vars, joinVars, roomVars, leaveVars, history
<1> QED
  BY <1>1, <1>2, <1>3, <1>4, <1>5, <1>6, <1>7, <1>8, <1>9, <1>10, <1>11, <1>12,
     <1>13, <1>14, <1>15, <1>16, <1>17, <1>18, <1>19, <1>20, <1>21, <1>22, Zenon
  DEF Next, JoinStep, LeaveStep, ExpireStep

\* No step leaves, seats or throws out a peer that has not joined.
LEMMA PeersJoinedKept ==
  ASSUME TypeOK, PeersJoined, [Next]_vars
  PROVE  PeersJoined'
<1> USE NoneAssumption, AsksAssumption DEF TypeOK, PeersJoined, Seated, Room, Leaver, Source
<1>1. ASSUME NEW c \in Client, Arrive(c) PROVE PeersJoined'
  BY <1>1 DEF Arrive, joinVars, roomVars, leaveVars, history
<1>2. ASSUME NEW c \in Client, FindRoom(c) PROVE PeersJoined'
  BY <1>2 DEF FindRoom, joinVars, roomVars, leaveVars, history
<1>3. ASSUME NEW c \in Client, CreateRoom(c) PROVE PeersJoined'
  BY <1>3 DEF CreateRoom, joinVars, roomVars, leaveVars, history
<1>4. ASSUME NEW c \in Client, RejectRoom(c) PROVE PeersJoined'
  BY <1>4 DEF RejectRoom, joinVars, roomVars, leaveVars, history
<1>5. ASSUME NEW c \in Client, CheckRoom(c) PROVE PeersJoined'
  BY <1>5 DEF CheckRoom, joinVars, roomVars, leaveVars, history
<1>6. ASSUME NEW c \in Client, ArmTimer(c) PROVE PeersJoined'
  BY <1>6 DEF ArmTimer, joinVars, roomVars, leaveVars, history
<1>7. ASSUME NEW c \in Client, TakeSeat(c) PROVE PeersJoined'
  BY <1>7 DEF TakeSeat, StopTimer, joinVars, roomVars, leaveVars, history
<1>8. ASSUME NEW c \in Client, RejectPeer(c) PROVE PeersJoined'
  BY <1>8 DEF RejectPeer, joinVars, roomVars, leaveVars, history
<1>9. ASSUME NEW c \in Client, HangUp(c) PROVE PeersJoined'
  BY <1>9 DEF HangUp, joinVars, roomVars, leaveVars, history
<1>10. ASSUME NEW c \in Client, LoseMedia(c) PROVE PeersJoined'
  BY <1>10 DEF LoseMedia, joinVars, roomVars, leaveVars, history
<1>11. ASSUME NEW c \in Client, ReportClosed(c) PROVE PeersJoined'
  BY <1>11 DEF ReportClosed, joinVars, roomVars, leaveVars, history
<1>12. ASSUME NEW k \in Leaver, LeaveFind(k) PROVE PeersJoined'
  BY <1>12 DEF LeaveFind, LeaveReturns, joinVars, roomVars, leaveVars, history
<1>13. ASSUME NEW k \in Leaver, LeaveClosed(k) PROVE PeersJoined'
  BY <1>13 DEF LeaveClosed, LeaveReturns, joinVars, roomVars, leaveVars, history
<1>14. ASSUME NEW k \in Leaver, LeaveVacate(k) PROVE PeersJoined'
  BY <1>14 DEF LeaveVacate, Vacate, LeaveReturns, LastOut, joinVars, roomVars, leaveVars, history
<1>15. ASSUME NEW k \in Leaver, LeaveUnlist(k) PROVE PeersJoined'
  BY <1>15 DEF LeaveUnlist, StopTimer, Unlist, joinVars, roomVars, leaveVars, history
<1>16. ASSUME NEW k \in Leaver, LeaveEnd(k) PROVE PeersJoined'
  BY <1>16 DEF LeaveEnd, LeaveReturns, joinVars, roomVars, leaveVars, history
<1>17. ASSUME NEW r \in Room, TimerFires(r) PROVE PeersJoined'
  BY <1>17 DEF TimerFires, joinVars, roomVars, leaveVars, history
<1>18. ASSUME NEW r \in Room, ExpireSpares(r) PROVE PeersJoined'
  BY <1>18 DEF ExpireSpares, joinVars, roomVars, leaveVars, history
<1>19. ASSUME NEW r \in Room, ExpireCloses(r) PROVE PeersJoined'
  BY <1>19 DEF ExpireCloses, Occupants, joinVars, roomVars, leaveVars, history
<1>20. ASSUME NEW r \in Room, ExpireUnlists(r) PROVE PeersJoined'
  BY <1>20 DEF ExpireUnlists, Unlist, joinVars, roomVars, leaveVars, history
<1>21. ASSUME NEW r \in Room, ExpireEnds(r) PROVE PeersJoined'
  BY <1>21 DEF ExpireEnds, joinVars, roomVars, leaveVars, history
<1>22. CASE UNCHANGED vars
  BY <1>22 DEF vars, joinVars, roomVars, leaveVars, history
<1> QED
  BY <1>1, <1>2, <1>3, <1>4, <1>5, <1>6, <1>7, <1>8, <1>9, <1>10, <1>11, <1>12,
     <1>13, <1>14, <1>15, <1>16, <1>17, <1>18, <1>19, <1>20, <1>21, <1>22, Zenon
  DEF Next, JoinStep, LeaveStep, ExpireStep

\* Every step keeps the types; a nil room or wish is never followed.
LEMMA TypesKept ==
  ASSUME TypeOK, PeersJoined, [Next]_vars
  PROVE  TypeOK'
<1> USE NoneAssumption, AsksAssumption DEF TypeOK, PeersJoined, Seated, Pc, Link, Timer, Step, Source, Leaver, Room, Wish, Role
<1>1. ASSUME NEW c \in Client, Arrive(c) PROVE TypeOK'
  <2>1. PICK w \in Asks[c] : wish' = [wish EXCEPT ![c] = w]
    BY <1>1 DEF Arrive
  <2>2. w \in Wish
    BY <2>1
  <2>3. wish' \in [Client -> Wish \cup {None}] /\ \A d \in Client : d # c => wish'[d] = wish[d]
    BY <2>1, <2>2 DEF TypeOK
  <2>4. wish'[c] # None
    <3>1. wish'[c] = w
      BY <2>1 DEF TypeOK
    <3> QED BY <2>2, <3>1, NoneAssumption
  <2>5. /\ pc' \in [Client -> Pc] /\ \A d \in Client : d # c => pc'[d] = pc[d]
        /\ pc'[c] = "lookup"
    BY <1>1 DEF Arrive
  <2> QED BY <1>1, <2>3, <2>4, <2>5 DEF Arrive, roomVars, leaveVars, history
<1>2. ASSUME NEW c \in Client, FindRoom(c) PROVE TypeOK'
  BY <1>2 DEF FindRoom, joinVars, roomVars, leaveVars, history
<1>3. ASSUME NEW c \in Client, CreateRoom(c) PROVE TypeOK'
  BY <1>3 DEF CreateRoom, joinVars, roomVars, leaveVars, history
<1>4. ASSUME NEW c \in Client, RejectRoom(c) PROVE TypeOK'
  BY <1>4 DEF RejectRoom, joinVars, roomVars, leaveVars, history
<1>5. ASSUME NEW c \in Client, CheckRoom(c) PROVE TypeOK'
  BY <1>5 DEF CheckRoom, joinVars, roomVars, leaveVars, history
<1>6. ASSUME NEW c \in Client, ArmTimer(c) PROVE TypeOK'
  BY <1>6 DEF ArmTimer, joinVars, roomVars, leaveVars, history
<1>7. ASSUME NEW c \in Client, TakeSeat(c) PROVE TypeOK'
  <2>1. room[c] \in Room /\ room[c] # None /\ wish[c] # None
    BY <1>7 DEF TakeSeat
  <2>2. timer' \in [Room -> Timer]
    <3>1. StopTimer(room[c]) \/ timer' = timer
      BY <1>7, Zenon DEF TakeSeat
    <3> QED BY <2>1, <3>1, StopHarmless
  <2>3. filled' \in [Room -> BOOLEAN]
    <3>1. filled' = [filled EXCEPT ![room[c]] = TRUE] \/ filled' = filled
      BY <1>7, Zenon DEF TakeSeat
    <3> QED BY <3>1
  <2>4. seat' \in [Room -> [Role -> Client \cup {None}]]
    <3>1. seat' = [seat EXCEPT ![room[c]][wish[c].role] = c]
      BY <1>7 DEF TakeSeat
    <3> QED BY <3>1
  <2>5. link' \in [Client -> Link] /\ pc' = [pc EXCEPT ![c] = "joined"]
    BY <1>7 DEF TakeSeat
  <2> QED BY <1>7, <2>1, <2>2, <2>3, <2>4, <2>5 DEF TakeSeat, leaveVars
<1>8. ASSUME NEW c \in Client, RejectPeer(c) PROVE TypeOK'
  BY <1>8 DEF RejectPeer, joinVars, roomVars, leaveVars, history
<1>9. ASSUME NEW c \in Client, HangUp(c) PROVE TypeOK'
  BY <1>9 DEF HangUp, joinVars, roomVars, leaveVars, history
<1>10. ASSUME NEW c \in Client, LoseMedia(c) PROVE TypeOK'
  BY <1>10 DEF LoseMedia, joinVars, roomVars, leaveVars, history
<1>11. ASSUME NEW c \in Client, ReportClosed(c) PROVE TypeOK'
  BY <1>11 DEF ReportClosed, joinVars, roomVars, leaveVars, history
<1>12. ASSUME NEW k \in Leaver, LeaveFind(k) PROVE TypeOK'
  <2>1. directory[wish[k[1]].id] \in Room \cup {None}
    BY <1>12, LeaverKnown DEF LeaveFind
  <2>2. CASE LeaveReturns(k)
    BY <1>12, <2>2 DEF LeaveFind, LeaveReturns, joinVars, roomVars, history
  <2>3. CASE ~LeaveReturns(k)
    <3>1. /\ directory[wish[k[1]].id] # None /\ UNCHANGED sawTimer
          /\ found' = [found EXCEPT ![k] = directory[wish[k[1]].id]]
          /\ step' = [step EXCEPT ![k] = "vacate"]
      BY <1>12, <2>3, Zenon DEF LeaveFind
    <3> QED BY <1>12, <2>1, <3>1 DEF LeaveFind, joinVars, roomVars, history
  <2> QED BY <2>2, <2>3
<1>13. ASSUME NEW k \in Leaver, LeaveClosed(k) PROVE TypeOK'
  BY <1>13 DEF LeaveClosed, LeaveReturns, joinVars, roomVars, leaveVars, history
<1>14. ASSUME NEW k \in Leaver, LeaveVacate(k) PROVE TypeOK'
  <2>1. \A j \in Leaver : step'[j] \in {"vacate", "unlist", "end"} => found'[j] # None
    BY <1>14, VacateEffect
  <2> QED BY <1>14, <2>1, VacateEffect DEF joinVars, history
<1>15. ASSUME NEW k \in Leaver, LeaveUnlist(k) PROVE TypeOK'
  <2>1. timer' \in [Room -> Timer]
    BY <1>15, LeaverKnown, StopHarmless DEF LeaveUnlist
  <2>2. directory' \in [Id -> Room \cup {None}]
    BY <1>15 DEF LeaveUnlist, Unlist
  <2>3. /\ step' \in [Leaver -> Step]
        /\ \A j \in Leaver : step'[j] \in {"vacate", "unlist", "end"} => found[j] # None
    BY <1>15 DEF LeaveUnlist
  <2> QED BY <1>15, <2>1, <2>2, <2>3 DEF LeaveUnlist, joinVars, history
<1>16. ASSUME NEW k \in Leaver, LeaveEnd(k) PROVE TypeOK'
  BY <1>16 DEF LeaveEnd, LeaveReturns, joinVars, roomVars, leaveVars, history
<1>17. ASSUME NEW r \in Room, TimerFires(r) PROVE TypeOK'
  BY <1>17 DEF TimerFires, joinVars, roomVars, leaveVars, history
<1>18. ASSUME NEW r \in Room, ExpireSpares(r) PROVE TypeOK'
  BY <1>18 DEF ExpireSpares, joinVars, roomVars, leaveVars, history
<1>19. ASSUME NEW r \in Room, ExpireCloses(r) PROVE TypeOK'
  BY <1>19 DEF ExpireCloses, Occupants, joinVars, roomVars, leaveVars, history
<1>20. ASSUME NEW r \in Room, ExpireUnlists(r) PROVE TypeOK'
  BY <1>20 DEF ExpireUnlists, Unlist, joinVars, roomVars, leaveVars, history
<1>21. ASSUME NEW r \in Room, ExpireEnds(r) PROVE TypeOK'
  BY <1>21 DEF ExpireEnds, joinVars, roomVars, leaveVars, history
<1>22. CASE UNCHANGED vars
  BY <1>22 DEF vars, joinVars, roomVars, leaveVars, history
<1> QED
  BY <1>1, <1>2, <1>3, <1>4, <1>5, <1>6, <1>7, <1>8, <1>9, <1>10, <1>11, <1>12,
     <1>13, <1>14, <1>15, <1>16, <1>17, <1>18, <1>19, <1>20, <1>21, <1>22, Zenon
  DEF Next, JoinStep, LeaveStep, ExpireStep

\* Only the step that closes a room adds a closer, and a closer ends the session once.
LEMMA OneCloserKept ==
  ASSUME TypeOK, PeersJoined, RoomsExist, OneCloser, [Next]_vars
  PROVE  OneCloser'
<1> USE NoneAssumption, AsksAssumption DEF TypeOK, RoomsExist, Created, OneCloser, Closes, Unlisted, Room, Leaver
<1>1. ASSUME NEW c \in Client, Arrive(c) PROVE OneCloser'
  BY <1>1 DEF Arrive, joinVars, roomVars, leaveVars, history
<1>2. ASSUME NEW c \in Client, FindRoom(c) PROVE OneCloser'
  BY <1>2 DEF FindRoom, joinVars, roomVars, leaveVars, history
<1>3. ASSUME NEW c \in Client, CreateRoom(c) PROVE OneCloser'
  BY <1>3 DEF CreateRoom, joinVars, roomVars, leaveVars, history
<1>4. ASSUME NEW c \in Client, RejectRoom(c) PROVE OneCloser'
  BY <1>4 DEF RejectRoom, joinVars, roomVars, leaveVars, history
<1>5. ASSUME NEW c \in Client, CheckRoom(c) PROVE OneCloser'
  BY <1>5 DEF CheckRoom, joinVars, roomVars, leaveVars, history
<1>6. ASSUME NEW c \in Client, ArmTimer(c) PROVE OneCloser'
  BY <1>6 DEF ArmTimer, joinVars, roomVars, leaveVars, history
<1>7. ASSUME NEW c \in Client, TakeSeat(c) PROVE OneCloser'
  BY <1>7 DEF TakeSeat, StopTimer, joinVars, roomVars, leaveVars, history
<1>8. ASSUME NEW c \in Client, RejectPeer(c) PROVE OneCloser'
  BY <1>8 DEF RejectPeer, joinVars, roomVars, leaveVars, history
<1>9. ASSUME NEW c \in Client, HangUp(c) PROVE OneCloser'
  BY <1>9 DEF HangUp, joinVars, roomVars, leaveVars, history
<1>10. ASSUME NEW c \in Client, LoseMedia(c) PROVE OneCloser'
  BY <1>10 DEF LoseMedia, joinVars, roomVars, leaveVars, history
<1>11. ASSUME NEW c \in Client, ReportClosed(c) PROVE OneCloser'
  BY <1>11 DEF ReportClosed, joinVars, roomVars, leaveVars, history
<1>12. ASSUME NEW k \in Leaver, LeaveFind(k) PROVE OneCloser'
  <2>1. \A j \in Leaver : step'[j] \in Closes => j # k /\ step'[j] = step[j] /\ found'[j] = found[j]
    BY <1>12 DEF LeaveFind, LeaveReturns
  <2> QED BY <1>12, <2>1 DEF LeaveFind, roomVars, history
<1>13. ASSUME NEW k \in Leaver, LeaveClosed(k) PROVE OneCloser'
  BY <1>13 DEF LeaveClosed, LeaveReturns, joinVars, roomVars, leaveVars, history
<1>14. ASSUME NEW k \in Leaver, LeaveVacate(k) PROVE OneCloser'
  <2>1. /\ \A j \in Leaver : step[j] \in Closes => found[j] # found[k]
        /\ timer[found[k]] \notin Closes /\ ended[found[k]] = 0
    BY <1>14, VacateEffect
  <2>2. \A j \in Leaver : step'[j] \in Closes =>
          /\ found'[j] = found[j]
          /\ j # k => step'[j] = step[j]
          /\ j = k => step'[j] = "unlist" /\ closed'[found[k]]
    BY <1>14, VacateEffect
  <2>3. \A r \in Room : r # found[k] => closed'[r] = closed[r]
    BY <1>14, VacateEffect
  <2>4. UNCHANGED <<directory, timer, ended>>
    BY <1>14, VacateEffect DEF history
  <2>5. found[k] \in Room /\ ~closed[found[k]]
    BY <1>14, VacateEffect
  <2>6. \A j \in Leaver : step'[j] \in Closes =>
          /\ closed'[found'[j]] /\ ended'[found'[j]] = 0
          /\ timer'[found'[j]] \notin Closes
          /\ step'[j] = "end" => \A i \in Id : directory'[i] # found'[j]
    <3> SUFFICES ASSUME NEW j \in Leaver, step'[j] \in Closes
                 PROVE  /\ closed'[found'[j]] /\ ended'[found'[j]] = 0
                        /\ timer'[found'[j]] \notin Closes
                        /\ step'[j] = "end" => \A i \in Id : directory'[i] # found'[j]
      OBVIOUS
    <3>1. CASE j = k
      BY <2>1, <2>2, <2>4, <3>1
    <3>2. CASE j # k
      <4>1. step[j] \in Closes /\ found'[j] = found[j] /\ step'[j] = step[j]
        BY <2>2, <3>2
      <4>2. found[j] \in Room /\ found[j] # found[k]
        BY <2>1, <4>1
      <4> QED BY <2>3, <2>4, <4>1, <4>2
    <3> QED BY <3>1, <3>2
  <2>7. \A i, j \in Leaver :
          step'[i] \in Closes /\ step'[j] \in Closes /\ found'[i] = found'[j] => i = j
    BY <2>1, <2>2
  <2>8. \A r \in Room : timer'[r] \in Closes \/ ended'[r] # 0 =>
          /\ closed'[r]
          /\ timer'[r] \in Closes => ended'[r] = 0
          /\ ended'[r] # 0 => ended'[r] = 1
          /\ timer'[r] = "end" \/ ended'[r] # 0 => Unlisted(r)'
    <3> SUFFICES ASSUME NEW r \in Room, timer'[r] \in Closes \/ ended'[r] # 0
                 PROVE  /\ closed'[r]
                        /\ timer'[r] \in Closes => ended'[r] = 0
                        /\ ended'[r] # 0 => ended'[r] = 1
                        /\ timer'[r] = "end" \/ ended'[r] # 0 => Unlisted(r)'
      OBVIOUS
    <3>1. timer[r] \in Closes \/ ended[r] # 0
      BY <2>4
    <3>2. r # found[k]
      BY <2>1, <3>1
    <3> QED BY <2>3, <2>4, <3>1, <3>2
  <2> QED BY <2>6, <2>7, <2>8, Zenon
<1>15. ASSUME NEW k \in Leaver, LeaveUnlist(k) PROVE OneCloser'
  BY <1>15 DEF LeaveUnlist, StopTimer, Unlist, joinVars, roomVars, leaveVars, history
<1>16. ASSUME NEW k \in Leaver, LeaveEnd(k) PROVE OneCloser'
  BY <1>16 DEF LeaveEnd, LeaveReturns, joinVars, roomVars, leaveVars, history
<1>17. ASSUME NEW r \in Room, TimerFires(r) PROVE OneCloser'
  BY <1>17 DEF TimerFires, joinVars, roomVars, leaveVars, history
<1>18. ASSUME NEW r \in Room, ExpireSpares(r) PROVE OneCloser'
  BY <1>18 DEF ExpireSpares, joinVars, roomVars, leaveVars, history
<1>19. ASSUME NEW r \in Room, ExpireCloses(r) PROVE OneCloser'
  BY <1>19 DEF ExpireCloses, Occupants, joinVars, roomVars, leaveVars, history
<1>20. ASSUME NEW r \in Room, ExpireUnlists(r) PROVE OneCloser'
  BY <1>20 DEF ExpireUnlists, Unlist, joinVars, roomVars, leaveVars, history
<1>21. ASSUME NEW r \in Room, ExpireEnds(r) PROVE OneCloser'
  BY <1>21 DEF ExpireEnds, joinVars, roomVars, leaveVars, history
<1>22. CASE UNCHANGED vars
  BY <1>22 DEF vars, joinVars, roomVars, leaveVars, history
<1> QED
  BY <1>1, <1>2, <1>3, <1>4, <1>5, <1>6, <1>7, <1>8, <1>9, <1>10, <1>11, <1>12,
     <1>13, <1>14, <1>15, <1>16, <1>17, <1>18, <1>19, <1>20, <1>21, <1>22, Zenon
  DEF Next, JoinStep, LeaveStep, ExpireStep

\* A live room is unlisted by no step: every closer's room is closed.
LEMMA LiveRoomListedKept ==
  ASSUME TypeOK, RoomsExist, OneCloser, LiveRoomListed, [Next]_vars
  PROVE  LiveRoomListed'
<1> USE NoneAssumption, AsksAssumption DEF TypeOK, RoomsExist, Created, OneCloser, Closes, LiveRoomListed, Room, Leaver
<1>1. ASSUME NEW c \in Client, Arrive(c) PROVE LiveRoomListed'
  BY <1>1 DEF Arrive, joinVars, roomVars, leaveVars, history
<1>2. ASSUME NEW c \in Client, FindRoom(c) PROVE LiveRoomListed'
  BY <1>2 DEF FindRoom, joinVars, roomVars, leaveVars, history
<1>3. ASSUME NEW c \in Client, CreateRoom(c) PROVE LiveRoomListed'
  <2> SUFFICES ASSUME NEW r \in Room, Created(r)', ~closed'[r]
                PROVE  (directory[wish[r].id] = r)'
    OBVIOUS
  <2>1. wish[c].id \in Id
    BY <1>3, WishKnown DEF CreateRoom
  <2>2. CASE r = c
    BY <1>3, <2>1, <2>2 DEF CreateRoom
  <2>3. CASE r # c
    <3>1. directory[wish[r].id] = r
      BY <1>3, <2>3 DEF CreateRoom
    <3> QED BY <1>3, <2>1, <2>3, <3>1 DEF CreateRoom
  <2> QED BY <2>2, <2>3
<1>4. ASSUME NEW c \in Client, RejectRoom(c) PROVE LiveRoomListed'
  BY <1>4 DEF RejectRoom, joinVars, roomVars, leaveVars, history
<1>5. ASSUME NEW c \in Client, CheckRoom(c) PROVE LiveRoomListed'
  BY <1>5 DEF CheckRoom, joinVars, roomVars, leaveVars, history
<1>6. ASSUME NEW c \in Client, ArmTimer(c) PROVE LiveRoomListed'
  BY <1>6 DEF ArmTimer, joinVars, roomVars, leaveVars, history
<1>7. ASSUME NEW c \in Client, TakeSeat(c) PROVE LiveRoomListed'
  BY <1>7 DEF TakeSeat, StopTimer, joinVars, roomVars, leaveVars, history
<1>8. ASSUME NEW c \in Client, RejectPeer(c) PROVE LiveRoomListed'
  BY <1>8 DEF RejectPeer, joinVars, roomVars, leaveVars, history
<1>9. ASSUME NEW c \in Client, HangUp(c) PROVE LiveRoomListed'
  BY <1>9 DEF HangUp, joinVars, roomVars, leaveVars, history
<1>10. ASSUME NEW c \in Client, LoseMedia(c) PROVE LiveRoomListed'
  BY <1>10 DEF LoseMedia, joinVars, roomVars, leaveVars, history
<1>11. ASSUME NEW c \in Client, ReportClosed(c) PROVE LiveRoomListed'
  BY <1>11 DEF ReportClosed, joinVars, roomVars, leaveVars, history
<1>12. ASSUME NEW k \in Leaver, LeaveFind(k) PROVE LiveRoomListed'
  BY <1>12 DEF LeaveFind, LeaveReturns, joinVars, roomVars, leaveVars, history
<1>13. ASSUME NEW k \in Leaver, LeaveClosed(k) PROVE LiveRoomListed'
  BY <1>13 DEF LeaveClosed, LeaveReturns, joinVars, roomVars, leaveVars, history
<1>14. ASSUME NEW k \in Leaver, LeaveVacate(k) PROVE LiveRoomListed'
  BY <1>14 DEF LeaveVacate, Vacate, LeaveReturns, LastOut, joinVars, roomVars, leaveVars, history
<1>15. ASSUME NEW k \in Leaver, LeaveUnlist(k) PROVE LiveRoomListed'
  <2>1. \A r \in Room : Created(r) /\ ~closed[r] => r # found[k] /\ wish[r].id \in Id
    BY <1>15, WishKnown DEF LeaveUnlist
  <2> QED BY <1>15, <2>1 DEF LeaveUnlist, Unlist, joinVars
<1>16. ASSUME NEW k \in Leaver, LeaveEnd(k) PROVE LiveRoomListed'
  BY <1>16 DEF LeaveEnd, LeaveReturns, joinVars, roomVars, leaveVars, history
<1>17. ASSUME NEW r \in Room, TimerFires(r) PROVE LiveRoomListed'
  BY <1>17 DEF TimerFires, joinVars, roomVars, leaveVars, history
<1>18. ASSUME NEW r \in Room, ExpireSpares(r) PROVE LiveRoomListed'
  BY <1>18 DEF ExpireSpares, joinVars, roomVars, leaveVars, history
<1>19. ASSUME NEW r \in Room, ExpireCloses(r) PROVE LiveRoomListed'
  BY <1>19 DEF ExpireCloses, Occupants, joinVars, roomVars, leaveVars, history
<1>20. ASSUME NEW r \in Room, ExpireUnlists(r) PROVE LiveRoomListed'
  <2>1. \A s \in Room : Created(s) /\ ~closed[s] => s # r /\ wish[s].id \in Id
    BY <1>20, WishKnown DEF ExpireUnlists
  <2> QED BY <1>20, <2>1 DEF ExpireUnlists, Unlist, joinVars
<1>21. ASSUME NEW r \in Room, ExpireEnds(r) PROVE LiveRoomListed'
  BY <1>21 DEF ExpireEnds, joinVars, roomVars, leaveVars, history
<1>22. CASE UNCHANGED vars
  BY <1>22 DEF vars, joinVars, roomVars, leaveVars, history
<1> QED
  BY <1>1, <1>2, <1>3, <1>4, <1>5, <1>6, <1>7, <1>8, <1>9, <1>10, <1>11, <1>12,
     <1>13, <1>14, <1>15, <1>16, <1>17, <1>18, <1>19, <1>20, <1>21, <1>22, Zenon
  DEF Next, JoinStep, LeaveStep, ExpireStep

-----------------------------------------------------------------------------
(* The theorems.                                                            *)

LEMMA RoomsInit == Init => RoomsInvariant
<1> SUFFICES ASSUME Init PROVE RoomsInvariant
  OBVIOUS
<1>1. TypeOK
  BY DEF Init, TypeOK, Pc, Link, Timer, Step, Room
<1>2. RoomsExist
  BY NoneAssumption DEF Init, RoomsExist, Created, Room
<1>3. PeersJoined
  BY DEF Init, PeersJoined, Room
<1>4. OneCloser
  BY DEF Init, OneCloser, Closes, Room
<1>5. LiveRoomListed
  BY NoneAssumption DEF Init, LiveRoomListed, Created, Room
<1> QED BY <1>1, <1>2, <1>3, <1>4, <1>5 DEF RoomsInvariant

LEMMA RoomsInvariantHolds == Spec => []RoomsInvariant
<1>1. RoomsInvariant /\ [Next]_vars => RoomsInvariant'
  BY RoomsExistKept, PeersJoinedKept, TypesKept, OneCloserKept, LiveRoomListedKept, Zenon
  DEF RoomsInvariant
<1> QED BY RoomsInit, <1>1, PTL DEF Spec

\* Every variable keeps its type; roomFor never hands Join a nil room, and leave
\* works on none (room.go, the checks after the directory is read).
THEOREM RoomsTyped == Spec => []TypeOK
<1>1. RoomsInvariant => TypeOK
  BY DEF RoomsInvariant
<1> QED BY RoomsInvariantHolds, <1>1, PTL

\* A room's session is closed at most once and only when nobody finds the room any
\* more, however many leave calls race its idle timer (Room.closed in room.go).
THEOREM OneTearDown == Spec => []SessionClosedOnce
<1>1. RoomsInvariant => SessionClosedOnce
  <2> SUFFICES ASSUME RoomsInvariant, NEW r \in Room
               PROVE  /\ ended[r] <= 1
                      /\ ended[r] = 1 => closed[r] /\ \A i \in Id : directory[i] # r
    BY DEF SessionClosedOnce
  <2>1. ended[r] = 0 \/ (ended[r] = 1 /\ closed[r] /\ Unlisted(r))
    BY DEF RoomsInvariant, OneCloser
  <2> QED BY <2>1 DEF Unlisted
<1> QED BY RoomsInvariantHolds, <1>1, PTL

\* A live room is the one its id leads to, so its peers' leave calls and a second
\* participant reach it (Manager.rooms in room.go).
THEOREM LiveRoomReachable == Spec => []LiveRoomListed
<1>1. RoomsInvariant => LiveRoomListed
  BY DEF RoomsInvariant
<1> QED BY RoomsInvariantHolds, <1>1, PTL
=============================================================================
