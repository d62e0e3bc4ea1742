\* Messages of two windows: does the client still hear of every segment?
SPECIFICATION SessionSpec
CONSTANTS
  Window = 2
  MinSilence = 2
  MinSilenceAtMax = 1
  MinSpeech = 4
  MaxSpeech <- NoLimit
  Tails <- NoTail
  Half = 1024
  MaxSamples = 26
  ChunkBytes = {0, 8}
INVARIANT EverySegmentReported
