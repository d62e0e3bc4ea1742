--------------------------- MODULE MCVadIterator ---------------------------
(* Values for VadIterator's set-valued constants, and two iterators in one: *)
(* one without a speech limit, as in the service, and one with a limit.     *)
EXTENDS SpeechHistory

VARIABLE limited

NoLimit == {}
\* max_speech_samples for a limit of 0.5 s: 16000 * 0.5 - 1024 - 2 * 30.
HalfSecond == {6916}
SomeTails == {0, 100}

Limited == INSTANCE SpeechHistory WITH MaxSpeech <- HalfSecond

EitherInit == HistoryInit /\ limited \in BOOLEAN
EitherNext ==
  /\ \/ ~limited /\ HistoryNext
     \/ limited /\ Limited!HistoryNext
  /\ UNCHANGED limited

EitherSpec == EitherInit /\ [][EitherNext]_<<historyVars, limited>>
=============================================================================
