SPECIFICATION FairSpec
CONSTANTS
  w1 = w1
  w2 = w2
  room1 = room1
  Client <- TwoClients
  Id = {room1}
  Asks <- OneCallerOneAny
  None = None
  MaxRooms = 1
INVARIANTS SessionClosedOnce LiveRoomListed
CHECK_DEADLOCK FALSE
PROPERTIES AbandonedRoomReclaimed DesertedRoomReclaimed JoinReturns
