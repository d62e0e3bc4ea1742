\* Messages of up to one window, for README's complete audio.
SPECIFICATION SessionSpec
CONSTANTS
  Window = 2
  MinSilence = 2
  MinSilenceAtMax = 1
  MinSpeech = 4
  MaxSpeech <- NoLimit
  Tails <- NoTail
  Half = 1024
  MaxSamples = 26
  ChunkBytes = {0, 2, 4}
INVARIANT EndIsComplete
