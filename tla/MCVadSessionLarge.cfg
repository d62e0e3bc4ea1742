\* Messages of up to six windows: several state changes within one call.
SPECIFICATION SessionSpec
CONSTANTS
  Window = 2
  MinSilence = 2
  MinSilenceAtMax = 1
  MinSpeech = 4
  MaxSpeech <- NoLimit
  Tails <- NoTail
  Half = 1024
  MaxSamples = 26
  ChunkBytes = {0, 2, 10, 24}
INVARIANTS SessionAgreesWithDetector EndCarriesSegment BeginIsPrompt EndsWhenDue
