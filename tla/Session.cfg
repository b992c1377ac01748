SPECIFICATION Spec
CONSTANTS
  AudioBufferFrames = 1
  OutboundBuffer = 1
  TranscriptBuffer = 1
  MaxConsecutiveFailures = 2
  DegradeToneEnabled = TRUE
  Traffic <- LongOrLoud
  AsrMayFail <- OnlyCaller
INVARIANTS TypeOK RawAudioInOrder WaitGroupCounts NoGoroutineAfterClose HangupFlushes
           DegradedNeverTranslates
PROPERTY LegsKeepContract
CHECK_DEADLOCK FALSE
