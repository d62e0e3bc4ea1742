\* The service's configuration, for the statement that silence ends speech.
SPECIFICATION Spec
CONSTANTS
  Window = 512
  MinSilence = 1600
  MinSilenceAtMax = 1568
  MinSpeech = 4000
  MaxSpeech = {}
  Tails = {0, 100}
  Half = 536870912
  MaxSamples = 13312
INVARIANT SilenceEndsSpeech
