SPECIFICATION MCFairSpec
CONSTANTS
  c1 = c1
  c2 = c2
  Callers <- TwoCallers
  Threshold = 2
  MaxAttempts = 2
  MaxFails = 4
  Vendors = {"gpt4o", "gemini", "cartesia", "elevenlabs"}
  Followed <- FollowOne
  MaxPieces = 3
  ChunkCapacity = 1
  OutCapacity = 1
  MaxReconnectAttempts = 2
  MaxPushes = 3
  MaxFinals = 2
INVARIANTS ProbeSlotIsHeld OpenIffBudgetSpent FinalMarksCompletion AnswerIsOneAttempt
           TypeOK NoSendOnClosedOut OneReader ToldOnce
PROPERTIES RecoversWithVendor ReadersEnd ClosedStreamEnds
CHECK_DEADLOCK FALSE
