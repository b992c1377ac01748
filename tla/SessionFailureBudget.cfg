SPECIFICATION Spec
CONSTANTS
  AudioBufferFrames = 1
  OutboundBuffer = 1
  TranscriptBuffer = 1
  MaxConsecutiveFailures = 2
  DegradeToneEnabled = FALSE
  Traffic <- TwoFinals
  AsrMayFail <- OnlyCaller
INVARIANT ConsecutiveFailuresDegrade
CHECK_DEADLOCK FALSE
