SPECIFICATION RunningSpec
CONSTANTS
  AudioBufferFrames = 1
  OutboundBuffer = 1
  TranscriptBuffer = 1
  MaxConsecutiveFailures = 2
  DegradeToneEnabled = FALSE
  Traffic <- ShortCall
  AsrMayFail <- OnlyCaller
PROPERTIES CloseReturns HangupNeedsNoBackstop DeadLegStillHeard LegNeverStuck
CHECK_DEADLOCK FALSE
