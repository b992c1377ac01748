SPECIFICATION PartsSpec
CONSTANTS
  Legs = {caller, agent}
  MaxUtterances = 1
  MaxScrapes = 1
  MaxPeers = 2
  Loads <- SomeLoads
  Target = 2
  FramesPerChunk = 2
  Sizes <- SomeSizes
  MaxPayload = 16777216
  MaxFrames = 4
  Words = {yes, no}
  MaxWords = 3
  Millis = {1, 4, 20}
  MaxSamples = 5
  Stride = 17
  SampleRate = 1500
  Amplitudes = {0, 600}
  Threshold = 500
  SilenceHold = 3
  MaxFrameSize = 3
  MaxHeard = 4
  Delays <- SomeDelays
  MaxRetries = 24
  Feeders = {f1, f2}
  MaxPushes = 4
  FlushFrames = 2
  OutCapacity = 2
  HearsCapacity = 2
  NumChunks = 2
  Wanted <- SomeWanted
  Envs <- SomeEnvs
  Personas <- SomePersonas
  MaxSets = 1
INVARIANTS PageAddsUp MediaWhole MessagesWhole Measures MockHeard CallFits
PROPERTIES RunEnds
CHECK_DEADLOCK FALSE
