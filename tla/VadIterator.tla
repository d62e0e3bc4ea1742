---------------------------- MODULE VadIterator ----------------------------
(***************************************************************************)
(* VadIterator (include/vad_iterator.h, src/vad_iterator.cpp): the         *)
(* hysteresis state machine that turns one speech probability per window   *)
(* into speech segments.                                                   *)
(*                                                                         *)
(* The ONNX model is external: a window's probability is a free choice     *)
(* among the three classes predict() tells apart,                          *)
(*   "speech"   prob >= threshold                                          *)
(*   "unsure"   threshold - 0.15 <= prob < threshold                       *)
(*   "silence"  prob < threshold - 0.15                                    *)
(* and the model's own memory (_state, _context) only influences it.       *)
(* Positions are sample counts, as in the code, with the code's widths:    *)
(* unsigned int in 0 .. 2*Half-1, int in -Half .. Half-1 (Half = 2^31 in   *)
(* the build).                                                             *)
(***************************************************************************)
EXTENDS Integers, Sequences

CONSTANTS
  Window,           \* window_size_samples
  MinSilence,       \* min_silence_samples
  MinSilenceAtMax,  \* min_silence_samples_at_max_speech
  MinSpeech,        \* min_speech_samples
  MaxSpeech,        \* {max_speech_samples}, or {} when it is infinite
  Tails,            \* lengths a batch input may have beyond whole windows
  Half,             \* 2^31: the integer widths
  MaxSamples        \* bound: samples heard since the last reset

ASSUME IteratorAssumption ==
  /\ Window \in Nat \ {0}
  /\ MinSilence \in Nat /\ MinSilenceAtMax \in Nat /\ MinSpeech \in Nat
  /\ MaxSpeech \subseteq Int
  /\ Tails \subseteq 0 .. Window - 1
  /\ Half \in Nat /\ MaxSamples \in Nat
  /\ Window < Half

VARIABLES
  triggered, temp_end, current_sample, prev_end, next_start,
  speeches, current_speech, last_prob,
  mode,    \* "stream": predict() per window; "batch": inside process(); "done"
  heard,   \* history: samples predicted on since the last reset, never wrapped
  voiced,  \* history: value of heard after the latest "speech" window
  quiet    \* history: value of heard after the first "silence" window since
           \* the latest "speech" window of the open segment (0 if none)

iterVars == <<triggered, temp_end, current_sample, prev_end, next_start,
              speeches, current_speech, last_prob, mode, heard, voiced, quiet>>

Classes == {"speech", "unsure", "silence"}

\* timestamp_t(): no segment is open.
NoSpeech == [start |-> -1, end |-> -1]

\* Conversions: the operands are one addition or subtraction away from their
\* type's range, so they wrap at most once.
U32(n) == IF n < 0 THEN n + 2 * Half ELSE IF n >= 2 * Half THEN n - 2 * Half ELSE n
S32(n) == IF n < -Half THEN n + 2 * Half ELSE IF n >= Half THEN n - 2 * Half ELSE n

-----------------------------------------------------------------------------
IterInit ==
  /\ triggered = FALSE
  /\ temp_end = 0 /\ current_sample = 0 /\ prev_end = 0 /\ next_start = 0
  /\ speeches = <<>>
  /\ current_speech = NoSpeech
  /\ last_prob = "silence"
  /\ mode = "stream"
  /\ heard = 0 /\ voiced = 0 /\ quiet = 0

\* reset_states(): back to the initial values, but for last_prob.
ResetStates ==
  /\ triggered' = FALSE
  /\ temp_end' = 0 /\ current_sample' = 0 /\ prev_end' = 0 /\ next_start' = 0
  /\ speeches' = <<>>
  /\ current_speech' = NoSpeech
  /\ heard' = 0 /\ voiced' = 0 /\ quiet' = 0
  /\ UNCHANGED last_prob

-----------------------------------------------------------------------------
(* predict(), one action per branch; Infer is the part before the branches. *)

Infer(p) ==
  /\ mode = "stream" \/ (mode = "batch" /\ heard + Window < Half)
  /\ heard + Window <= MaxSamples
  /\ heard' = heard + Window
  /\ current_sample' = U32(current_sample + Window)
  /\ last_prob' = p
  /\ voiced' = IF p = "speech" THEN heard' ELSE voiced
  /\ quiet' = IF p = "speech" \/ ~triggered THEN 0
              ELSE IF p = "silence" /\ quiet = 0 THEN heard' ELSE quiet
  /\ UNCHANGED mode

\* Mutant of PauseAfterSpeech: the pause goes on.
PauseSurvivesSpeech == temp_end

\* current_sample - window_size_samples, stored in an int.
WindowStart == S32(U32(current_sample' - Window))

\* What a speech window leaves in temp_end.
PauseAfterSpeech == 0

\* Mutant of Resumption: every resumption counts, not only the first since prev_end.
ResumptionLatest == IF temp_end # 0 THEN WindowStart ELSE next_start

\* What a speech window leaves in next_start (lines 125-128): where speech resumed for
\* the first time since prev_end.
Resumption == IF temp_end # 0 /\ next_start < prev_end THEN WindowStart ELSE next_start

\* Lines 124-136.
SpeechWindow ==
  /\ Infer("speech")
  /\ temp_end' = PauseAfterSpeech
  /\ next_start' = Resumption
  /\ triggered' = TRUE
  /\ current_speech' = IF triggered THEN current_speech
                       ELSE [current_speech EXCEPT !.start = WindowStart]
  /\ UNCHANGED <<prev_end, speeches>>

TooLong ==
  triggered /\ \E m \in MaxSpeech : U32(current_sample' - current_speech.start) > m

\* Mutant of ForgetPauses: -1 for none, as in timestamp_t.
ForgetPausesAsMinusOne == temp_end' = -1 /\ prev_end' = -1 /\ next_start' = -1

ForgetPauses == temp_end' = 0 /\ prev_end' = 0 /\ next_start' = 0

\* speeches.push_back(current_speech) with its end just set.
Push(end) == speeches' = Append(speeches, [current_speech EXCEPT !.end = end])

\* Lines 138-150: an over-long segment is cut at its latest long pause; speech
\* that resumed after the pause becomes the open segment.
CutAtPause(p) ==
  /\ Infer(p)
  /\ p # "speech" /\ TooLong /\ prev_end > 0
  /\ Push(prev_end)
  /\ \/ /\ next_start < prev_end
        /\ triggered' = FALSE
        /\ current_speech' = NoSpeech
     \/ /\ next_start >= prev_end
        /\ triggered' = triggered
        /\ current_speech' = [NoSpeech EXCEPT !.start = next_start]
  /\ ForgetPauses

\* Lines 151-159: an over-long segment without a long pause ends here.
CutHere(p) ==
  /\ Infer(p)
  /\ p # "speech" /\ TooLong /\ prev_end <= 0
  /\ Push(S32(current_sample'))
  /\ triggered' = FALSE
  /\ current_speech' = NoSpeech
  /\ ForgetPauses

\* Lines 164-167.
UnsureWindow ==
  /\ Infer("unsure")
  /\ ~TooLong
  /\ UNCHANGED <<triggered, temp_end, prev_end, next_start, speeches, current_speech>>

\* Lines 169-170 and 187 when no segment is open.
IdleWindow ==
  /\ Infer("silence")
  /\ ~triggered
  /\ UNCHANGED <<triggered, temp_end, prev_end, next_start, speeches, current_speech>>

\* Mutants of PauseStart (every silent window starts the pause) and of Release.
PauseStartEachWindow == current_sample'
ReleaseKeepsTriggered == UNCHANGED triggered /\ current_speech' = NoSpeech /\ ForgetPauses
ReleaseKeepsPrevEnd ==
  triggered' = FALSE /\ current_speech' = NoSpeech
  /\ temp_end' = 0 /\ next_start' = 0 /\ UNCHANGED prev_end

\* temp_end once lines 171-172 have run, and the pause it measures.
PauseStart == IF temp_end = 0 THEN current_sample' ELSE temp_end
Pause == U32(current_sample' - PauseStart)

LongEnough == S32(S32(PauseStart) - current_speech.start) > MinSpeech

\* Lines 179-183.
Release == triggered' = FALSE /\ current_speech' = NoSpeech /\ ForgetPauses

\* Lines 171-176 without a segment end: the pause is still short, or the
\* segment too short to be kept (its end is then recorded but it stays open).
PauseWindow ==
  /\ Infer("silence")
  /\ triggered /\ ~TooLong
  /\ Pause < MinSilence \/ ~LongEnough
  /\ temp_end' = PauseStart
  /\ prev_end' = IF Pause > MinSilenceAtMax THEN S32(PauseStart) ELSE prev_end
  /\ current_speech' = IF Pause >= MinSilence
                       THEN [current_speech EXCEPT !.end = S32(PauseStart)]
                       ELSE current_speech
  /\ UNCHANGED <<triggered, next_start, speeches>>

\* Lines 171-184 when the pause ends the segment.
EndOfSpeech ==
  /\ Infer("silence")
  /\ triggered /\ ~TooLong
  /\ Pause >= MinSilence /\ LongEnough
  /\ Push(S32(PauseStart))
  /\ Release

Predict ==
  \/ SpeechWindow
  \/ \E p \in Classes : CutAtPause(p) \/ CutHere(p)
  \/ UnsureWindow
  \/ IdleWindow
  \/ PauseWindow
  \/ EndOfSpeech

-----------------------------------------------------------------------------
(* process(): reset, predict() on every whole window, close the open segment *)
(* at the end of the input. An object is used either way, never both. The    *)
(* caller's input has fewer than 2^31 samples (audio_length_samples is int). *)

ProcessBegin ==
  /\ mode \in {"stream", "done"}
  /\ ResetStates
  /\ mode' = "batch"

ProcessEnd ==
  /\ mode = "batch"
  /\ mode' = "done"
  /\ \/ /\ current_speech.start >= 0
        /\ \E tail \in Tails : heard + tail < Half /\ Push(S32(heard + tail))
        /\ Release
     \/ /\ current_speech.start < 0
        /\ UNCHANGED <<triggered, temp_end, prev_end, next_start, speeches, current_speech>>
  /\ UNCHANGED <<current_sample, last_prob, heard, voiced, quiet>>

Reset ==
  /\ mode \in {"stream", "done"}
  /\ ResetStates
  /\ mode' = "stream"

Next == Predict \/ ProcessBegin \/ ProcessEnd \/ Reset

Spec == IterInit /\ [][Next]_iterVars

-----------------------------------------------------------------------------
UInts == 0 .. 2 * Half - 1
Ints == -Half .. Half - 1
Segment == [start : Ints, end : Ints]

\* Every field stays within its C++ type, and the segments are the vector's.
TypeOK ==
  /\ triggered \in BOOLEAN
  /\ temp_end \in UInts /\ current_sample \in UInts
  /\ prev_end \in Ints /\ next_start \in Ints
  /\ speeches \in Seq(Segment)
  /\ current_speech \in Segment
  /\ last_prob \in Classes
  /\ mode \in {"stream", "batch", "done"}
  /\ heard \in 0 .. MaxSamples /\ voiced \in 0 .. MaxSamples /\ quiet \in 0 .. MaxSamples

\* The recorded segments are non-empty, inside the stream, in order and
\* disjoint, and the open one starts after them: get_speech_timestamps() never
\* reports a sample twice, whatever pauses, resumptions and cuts came before.
SegmentsSound ==
  /\ \A i \in DOMAIN speeches : 0 <= speeches[i].start /\ speeches[i].start < speeches[i].end
  /\ \A i, j \in DOMAIN speeches : i < j => speeches[i].end <= speeches[j].start
  /\ triggered => \A i \in DOMAIN speeches : speeches[i].end <= current_speech.start

\* triggered, the start of the open segment and the pause bookkeeping agree: a
\* closed segment leaves no temp_end, prev_end or next_start that a later one
\* would read, and process() may test start >= 0 for triggered.
IdleIsClean ==
  /\ triggered <=> current_speech.start >= 0
  /\ ~triggered => temp_end = 0 /\ prev_end = 0 /\ next_start = 0

\* Without a speech limit a stream's segment is closed only by a silent window, after
\* MinSilence samples in which no window was speech: an unsure window never ends it,
\* and speech during a pause starts the pause again.
SilenceBeforeEnd ==
  [][heard' > heard /\ Len(speeches') > Len(speeches)
       => last_prob' = "silence" /\ heard' - voiced >= MinSilence]_iterVars

\* And it is closed as soon as that is due: a segment that is still open after
\* a silent window ending a pause of MinSilence samples is one whose speech part
\* was not longer than MinSpeech.
EndsWhenDue ==
  triggered /\ last_prob = "silence" /\ quiet # 0 /\ heard - quiet >= MinSilence
    => quiet - current_speech.start <= MinSpeech

\* What README.md says of the SPEAKING state ("speech is going on") and of the end
\* state ("end of speech detected"): a stream is not in speech once it has been
\* silent for MinSilence samples, counted from the first silent window.
SilenceEndsSpeech ==
  ~(triggered /\ last_prob = "silence" /\ quiet # 0 /\ heard - quiet >= MinSilence)
=============================================================================
