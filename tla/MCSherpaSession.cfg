\* Frames of 20 ms in 2 samples; speech after 50 ms, silence after 80 ms. Messages of one
\* and two and a half frames, odd ones included: long enough to complete a frame, too
\* short for a stretch of speech to end and the next to start in one of them.
SPECIFICATION Spec
CONSTANTS
  FrameSamples = 2
  FrameMs = 20
  DecayMs = 10
  BeginMs = 50
  StopMs = 80
  FixedFrames = 3
  MaxFrames = 13
  ChunkBytes = {5, 10}
INVARIANTS TypeOK SilenceIsWorstSurplus OnsetMeasuresSpeech SessionAgreesWithDetector
PROPERTY ImplementsProtocol
\* The client may stop sending (MaxFrames).
CHECK_DEADLOCK FALSE
