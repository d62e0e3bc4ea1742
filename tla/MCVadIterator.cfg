\* The service's durations at 16 kHz, 100 ms of silence and 250 ms of speech, with windows
\* of 64 ms: a history of all speech doubles the states with every window. One iterator
\* has no speech limit, as in the service; one has a limit of 0.5 s and cuts over-long
\* segments. 15 windows: a cut takes seven, one after two resumptions eight.
SPECIFICATION EitherSpec
CONSTANTS
  Window = 1024
  MinSilence = 1600
  MinSilenceAtMax = 1568
  MinSpeech = 4000
  MaxSpeech <- NoLimit
  Tails <- SomeTails
  Half = 536870912
  MaxSamples = 15360
INVARIANTS TypeOK SegmentsSound IdleIsClean SpeechCovered
