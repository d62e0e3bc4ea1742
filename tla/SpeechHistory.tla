---------------------------- MODULE SpeechHistory ----------------------------
(***************************************************************************)
(* VadIterator with a history of all the speech it has heard: what becomes *)
(* of each window classed as speech. The history restricts nothing; the    *)
(* behaviours are VadIterator's.                                           *)
(***************************************************************************)
EXTENDS VadIterator

VARIABLE spoken   \* history: value of heard after each "speech" window since the last reset

historyVars == <<iterVars, spoken>>

HistoryInit == IterInit /\ spoken = {}

HistoryNext ==
  /\ Next
  /\ spoken' = IF heard' = 0 THEN {}
               ELSE IF heard' > heard /\ last_prob' = "speech" THEN spoken \cup {heard'}
               ELSE spoken

HistorySpec == HistoryInit /\ [][HistoryNext]_historyVars

-----------------------------------------------------------------------------
\* No speech is lost by segmentation: every window classed as speech lies in the open
\* segment or in a recorded one, whatever pauses, resumptions and cuts came before or
\* after it, and still does when process() has closed the last segment.
SpeechCovered ==
  \A w \in spoken :
    \/ triggered /\ current_speech.start <= w - Window
    \/ \E i \in DOMAIN speeches :
         speeches[i].start <= w - Window /\ w <= speeches[i].end
=============================================================================
