\* Windows of 2 samples (4 bytes). Messages of up to one window: empty ones, ones of an
\* odd size, ones that complete no window and ones that straddle two. Integers are 4 bits
\* wide: the sample counter and the positions wrap around within the run.
SPECIFICATION SessionSpec
CONSTANTS
  Window = 2
  MinSilence = 4
  MinSilenceAtMax = 3
  MinSpeech = 4
  MaxSpeech <- NoLimit
  Tails <- NoTail
  Half = 8
  MaxSamples = 24
  ChunkBytes = {0, 3, 4}
INVARIANTS SessionTypeOK EverySegmentReported
PROPERTIES ImplementsProtocol SilenceBeforeEnd
