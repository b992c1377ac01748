SPECIFICATION FairSpec
CONSTANTS
  HalfRange = 2
  Capacity = 1
  Frame = 2
  ChunkSizes = {0, 3}
  MaxChunks <- AgentHears3
  MaxFrames <- CallerSpeaks1
  MaxBacklog = 2
INVARIANTS TypeOK EverySampleOnce PaddedOnlyAtEnd StopLeavesNothing
PROPERTIES PushedIsResolved GoroutinesEnd
CHECK_DEADLOCK FALSE
