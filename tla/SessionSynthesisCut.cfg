SPECIFICATION Spec
CONSTANTS
  AudioBufferFrames = 1
  OutboundBuffer = 1
  TranscriptBuffer = 1
  MaxConsecutiveFailures = 2
  DegradeToneEnabled = FALSE
  Traffic <- OneFinal
  AsrMayFail <- OnlyCaller
INVARIANT StartedSynthesisIsNotCut
CHECK_DEADLOCK FALSE
