------------------------- MODULE VadIteratorProofs -------------------------
(***************************************************************************)
(* Proofs about VadIterator, for every choice of its constants, most under *)
(* NoWrap: fewer than 2^31 samples since the last reset (37 hours of       *)
(* 16 kHz audio), so that no counter or position wraps around.             *)
(* The types hold beyond that; MCVadSession.cfg (Half = 8) checks what     *)
(* else does.                                                              *)
(***************************************************************************)
EXTENDS SpeechHistory, TLAPS

NoWrap == MaxSamples + Window < Half

-----------------------------------------------------------------------------
(* Types, with no bound on the stream: counters and positions may wrap.      *)

\* One addition or subtraction away from its range, a value wraps back into it.
LEMMA ConversionTypes ==
  /\ \A n \in Int : -(2 * Half) <= n /\ n < 4 * Half => U32(n) \in UInts
  /\ \A n \in UInts : S32(n) \in Ints
  /\ 0 \in UInts /\ 0 \in Ints /\ -1 \in Ints
  <1>1. ASSUME NEW n \in Int, -(2 * Half) <= n, n < 4 * Half
        PROVE  U32(n) \in UInts
    BY <1>1, IteratorAssumption DEF U32, UInts
  <1>2. ASSUME NEW n \in UInts
        PROVE  S32(n) \in Ints
    BY <1>2, IteratorAssumption DEF S32, UInts, Ints
  <1>3. 0 \in UInts /\ 0 \in Ints /\ -1 \in Ints
    BY IteratorAssumption DEF UInts, Ints
  <1> QED
    BY <1>1, <1>2, <1>3

\* What a window leaves in the counters, and the positions it computes from them.
LEMMA InferTypes ==
  ASSUME TypeOK, NEW p \in Classes, Infer(p)
  PROVE  /\ heard' \in 0 .. MaxSamples /\ voiced' \in 0 .. MaxSamples
         /\ quiet' \in 0 .. MaxSamples /\ last_prob' \in Classes
         /\ mode' \in {"stream", "batch", "done"}
         /\ current_sample' \in UInts /\ WindowStart \in Ints
         /\ PauseStart \in UInts /\ S32(PauseStart) \in Ints
  <1>1. heard' \in 0 .. MaxSamples
    BY IteratorAssumption DEF TypeOK, Infer
  <1>2. /\ voiced' \in 0 .. MaxSamples /\ quiet' \in 0 .. MaxSamples
        /\ last_prob' \in Classes /\ mode' \in {"stream", "batch", "done"}
    <2>1. voiced \in 0 .. MaxSamples /\ quiet \in 0 .. MaxSamples /\ 0 \in 0 .. MaxSamples
      BY IteratorAssumption DEF TypeOK
    <2>2. voiced' \in 0 .. MaxSamples
      <3>1. voiced' = heard' \/ voiced' = voiced
        BY DEF Infer
      <3> QED
        BY <1>1, <2>1, <3>1
    <2>3. quiet' \in 0 .. MaxSamples
      <3>1. quiet' = heard' \/ quiet' = quiet \/ quiet' = 0
        BY DEF Infer
      <3> QED
        BY <1>1, <2>1, <3>1
    <2> QED
      BY <2>2, <2>3 DEF TypeOK, Infer
  <1>3. current_sample' \in UInts
    <2>1. current_sample + Window \in Int /\ -(2 * Half) <= current_sample + Window
          /\ current_sample + Window < 4 * Half
      BY IteratorAssumption DEF TypeOK, UInts
    <2> QED
      BY <2>1, ConversionTypes DEF Infer
  <1>4. WindowStart \in Ints
    <2>1. /\ current_sample' - Window \in Int /\ -(2 * Half) <= current_sample' - Window
          /\ current_sample' - Window < 4 * Half
      <3>1. \A c \in UInts : /\ c - Window \in Int /\ -(2 * Half) <= c - Window
                             /\ c - Window < 4 * Half
        BY IteratorAssumption DEF UInts
      <3> QED
        BY <1>3, <3>1
    <2> QED
      BY <2>1, ConversionTypes DEF WindowStart
  <1>5. PauseStart \in UInts
    BY <1>3 DEF PauseStart, TypeOK
  <1>6. S32(PauseStart) \in Ints
    BY <1>5, ConversionTypes
  <1> QED
    BY <1>1, <1>2, <1>3, <1>4, <1>5, <1>6

\* predict() keeps every field in its C++ type, wrapped or not.
LEMMA PredictTypes ==
  ASSUME TypeOK, Predict
  PROVE  TypeOK'
  <1>1. /\ current_speech \in Segment
        /\ \A n \in Ints : /\ [current_speech EXCEPT !.start = n] \in Segment
                           /\ [current_speech EXCEPT !.end = n] \in Segment
        /\ NoSpeech \in Segment /\ 0 \in UInts /\ 0 \in Ints
        /\ \A n \in Ints : [NoSpeech EXCEPT !.start = n] \in Segment
    BY ConversionTypes DEF TypeOK, Segment, NoSpeech
  <1>2. ASSUME NEW n \in Ints, Push(n)
        PROVE  speeches' \in Seq(Segment)
    <2>1. [current_speech EXCEPT !.end = n] \in Segment /\ speeches \in Seq(Segment)
      BY <1>1 DEF TypeOK
    <2> QED
      BY <1>2, <2>1 DEF Push
  <1>3. CASE SpeechWindow
    <2>1. Infer("speech") /\ "speech" \in Classes
      BY <1>3 DEF SpeechWindow, Classes
    <2>2. /\ temp_end' = 0 /\ triggered' = TRUE /\ next_start' \in Ints
          /\ prev_end' = prev_end /\ speeches' = speeches /\ current_speech' \in Segment
      BY <1>1, <1>3, <2>1, InferTypes DEF SpeechWindow, PauseAfterSpeech, Resumption, TypeOK
    <2> QED
      BY <1>1, <2>1, <2>2, InferTypes DEF TypeOK
  <1>4. ASSUME NEW p \in Classes, CutAtPause(p)
        PROVE  TypeOK'
    <2>1. Infer(p) /\ temp_end' = 0 /\ prev_end' = 0 /\ next_start' = 0
      BY <1>4 DEF CutAtPause, ForgetPauses
    <2>2. speeches' \in Seq(Segment)
      BY <1>2, <1>4 DEF CutAtPause, TypeOK
    <2>3. triggered' \in BOOLEAN /\ current_speech' \in Segment
      BY <1>1, <1>4 DEF CutAtPause, TypeOK
    <2> QED
      BY <1>1, <2>1, <2>2, <2>3, InferTypes DEF TypeOK
  <1>5. ASSUME NEW p \in Classes, CutHere(p)
        PROVE  TypeOK'
    <2>1. Infer(p) /\ temp_end' = 0 /\ prev_end' = 0 /\ next_start' = 0
          /\ triggered' = FALSE /\ current_speech' = NoSpeech
      BY <1>5 DEF CutHere, ForgetPauses
    <2>2. S32(current_sample') \in Ints
      BY <2>1, InferTypes, ConversionTypes
    <2>3. speeches' \in Seq(Segment)
      BY <1>2, <1>5, <2>2 DEF CutHere
    <2> QED
      BY <1>1, <2>1, <2>3, InferTypes DEF TypeOK
  <1>6. CASE UnsureWindow \/ IdleWindow
    <2>1. PICK p \in Classes : Infer(p)
      BY <1>6 DEF UnsureWindow, IdleWindow, Classes
    <2> QED
      BY <1>6, <2>1, InferTypes DEF UnsureWindow, IdleWindow, TypeOK
  <1>7. CASE PauseWindow
    <2>1. Infer("silence") /\ "silence" \in Classes
      BY <1>7 DEF PauseWindow, Classes
    <2>2. PauseStart \in UInts /\ S32(PauseStart) \in Ints
      BY <2>1, InferTypes
    <2>3. /\ temp_end' \in UInts /\ prev_end' \in Ints /\ current_speech' \in Segment
          /\ UNCHANGED <<triggered, next_start, speeches>>
      BY <1>1, <1>7, <2>2 DEF PauseWindow, TypeOK
    <2> QED
      BY <2>1, <2>3, InferTypes DEF TypeOK
  <1>8. CASE EndOfSpeech
    <2>1. Infer("silence") /\ "silence" \in Classes
          /\ temp_end' = 0 /\ prev_end' = 0 /\ next_start' = 0
          /\ triggered' = FALSE /\ current_speech' = NoSpeech
      BY <1>8 DEF EndOfSpeech, Release, ForgetPauses, Classes
    <2>2. speeches' \in Seq(Segment)
      BY <1>2, <1>8, <2>1, InferTypes DEF EndOfSpeech
    <2> QED
      BY <1>1, <2>1, <2>2, InferTypes DEF TypeOK
  <1> QED
    BY <1>3, <1>4, <1>5, <1>6, <1>7, <1>8 DEF Predict

\* The constructor's values are of their types.
LEMMA InitTypes ==
  ASSUME IterInit
  PROVE  TypeOK
  <1>1. <<>> \in Seq(Segment) /\ 0 \in 0 .. MaxSamples /\ NoSpeech \in Segment
        /\ 0 \in UInts /\ 0 \in Ints
    BY IteratorAssumption, ConversionTypes DEF Segment, NoSpeech
  <1> QED
    BY <1>1 DEF IterInit, TypeOK, Classes

\* Every field stays within its C++ type, in streams of any length: a counter or a
\* position that leaves its range wraps back into it.
THEOREM TypeCorrect == Spec => []TypeOK
  <1>1. TypeOK /\ [Next]_iterVars => TypeOK'
    <2> SUFFICES ASSUME TypeOK, [Next]_iterVars PROVE TypeOK'
      OBVIOUS
    <2>1. CASE ProcessBegin \/ Reset
      <3>1. <<>> \in Seq(Segment) /\ 0 \in 0 .. MaxSamples /\ NoSpeech \in Segment
            /\ 0 \in UInts /\ 0 \in Ints
        BY IteratorAssumption, ConversionTypes DEF Segment, NoSpeech
      <3> QED
        BY <2>1, <3>1 DEF ProcessBegin, Reset, ResetStates, TypeOK
    <2>2. CASE ProcessEnd
      <3>1. /\ UNCHANGED <<current_sample, last_prob, heard, voiced, quiet>> /\ mode' = "done"
        BY <2>2 DEF ProcessEnd
      <3>2. CASE Release /\ \E tail \in Tails : heard + tail < Half /\ Push(S32(heard + tail))
        <4>1. PICK tail \in Tails : heard + tail < Half /\ Push(S32(heard + tail))
          BY <3>2
        <4>2. heard + tail \in UInts
          BY <4>1, IteratorAssumption DEF TypeOK, UInts
        <4>3. S32(heard + tail) \in Ints
          BY <4>2, ConversionTypes
        <4>4. speeches' \in Seq(Segment)
          BY <4>1, <4>3 DEF Push, TypeOK, Segment
        <4>5. /\ temp_end' = 0 /\ prev_end' = 0 /\ next_start' = 0 /\ triggered' = FALSE
              /\ current_speech' \in Segment /\ 0 \in UInts /\ 0 \in Ints
          BY <3>2, ConversionTypes DEF Release, ForgetPauses, NoSpeech, Segment
        <4> QED
          BY <3>1, <4>4, <4>5 DEF TypeOK
      <3>3. CASE UNCHANGED <<triggered, temp_end, prev_end, next_start, speeches,
                             current_speech>>
        BY <3>1, <3>3 DEF TypeOK
      <3> QED
        BY <2>2, <3>2, <3>3 DEF ProcessEnd
    <2>3. CASE UNCHANGED iterVars
      BY <2>3 DEF iterVars, TypeOK
    <2> QED
      BY <2>1, <2>2, <2>3, PredictTypes DEF Next
  <1> QED
    BY <1>1, InitTypes, PTL DEF Spec

-----------------------------------------------------------------------------
(* The inductive invariant, in named parts.                                  *)

\* The sample counter is the number of samples heard, and speech lies in the past.
Clock == current_sample = heard /\ voiced <= heard /\ (mode = "done" => ~triggered)

\* Nothing of a closed segment is left in the iterator.
Idle ==
  ~triggered => /\ temp_end = 0 /\ prev_end = 0 /\ next_start = 0
                /\ current_speech.start = -1

\* The open segment starts after the recorded ones and holds the latest speech.
OpenSegment ==
  triggered =>
    /\ 0 <= current_speech.start /\ current_speech.start + Window <= voiced
    /\ \A i \in DOMAIN speeches : speeches[i].end <= current_speech.start

\* How the pause bookkeeping of an open segment relates to the speech heard: a
\* running pause is later than all speech; a long pause without a resumption
\* after it is running still, and later than all speech.
Pauses ==
  triggered =>
    /\ 0 <= next_start /\ next_start + Window <= voiced
    /\ temp_end # 0 => voiced < temp_end /\ temp_end <= heard
    /\ 0 <= prev_end /\ prev_end <= heard
    /\ prev_end > 0 => current_speech.start < prev_end
    /\ prev_end > 0 /\ next_start < prev_end => voiced <= prev_end /\ temp_end # 0

\* The recorded segments are non-empty, ordered, disjoint and in the past (the
\* flush of process() may add the tail that fills no window).
Recorded ==
  /\ \A i \in DOMAIN speeches :
        /\ 0 <= speeches[i].start /\ speeches[i].start < speeches[i].end
        /\ mode # "done" => speeches[i].end <= heard
  /\ \A i, j \in DOMAIN speeches : i < j => speeches[i].end <= speeches[j].start

IInv == TypeOK /\ Clock /\ Idle /\ OpenSegment /\ Pauses /\ Recorded

-----------------------------------------------------------------------------
(* Helpers.                                                                  *)

\* Below 2^31 both conversions are the identity.
LEMMA NoWrapConversion ==
  ASSUME NEW n \in Int, -Half <= n, n < Half
  PROVE  S32(n) = n /\ (0 <= n => U32(n) = n)
  BY IteratorAssumption DEF S32, U32

\* What every branch of predict() starts with.
LEMMA InferFacts ==
  ASSUME NoWrap, IInv, NEW p \in Classes, Infer(p)
  PROVE  /\ heard' = heard + Window /\ heard' \in 0 .. MaxSamples /\ heard < heard'
         /\ heard' < Half
         /\ current_sample' = heard' /\ current_sample' \in UInts
         /\ voiced' = IF p = "speech" THEN heard' ELSE voiced
         /\ voiced' \in 0 .. MaxSamples /\ voiced' <= heard'
         /\ quiet' \in 0 .. MaxSamples
         /\ last_prob' \in Classes
         /\ mode' = mode /\ mode \in {"stream", "batch"}
  <1> USE IteratorAssumption DEF NoWrap, IInv, TypeOK, Clock, Infer
  <1>1. /\ heard' = heard + Window /\ heard' \in 0 .. MaxSamples /\ heard < heard'
        /\ heard' < Half
    OBVIOUS
  <1>2. current_sample' = heard' /\ current_sample' \in UInts
    <2>1. current_sample' = U32(heard')
      BY <1>1
    <2>2. heard' \in Int /\ 0 <= heard' /\ -Half <= heard'
      BY <1>1
    <2>3. U32(heard') = heard'
      BY <1>1, <2>2, NoWrapConversion
    <2> QED
      BY <1>1, <2>1, <2>2, <2>3 DEF UInts
  <1>3. /\ voiced' = IF p = "speech" THEN heard' ELSE voiced
        /\ voiced' \in 0 .. MaxSamples /\ voiced' <= heard'
    BY <1>1
  <1>4. quiet' \in 0 .. MaxSamples
    BY <1>1
  <1>5. last_prob' \in Classes /\ mode' = mode /\ mode \in {"stream", "batch"}
    OBVIOUS
  <1> QED
    BY <1>1, <1>2, <1>3, <1>4, <1>5

\* Recording the open segment keeps what was recorded and adds one segment after it.
LEMMA PushFacts ==
  ASSUME NoWrap, IInv, triggered,
         NEW end \in Int, current_speech.start < end, end < Half, Push(end)
  PROVE  /\ speeches' \in Seq(Segment)
         /\ \A i \in DOMAIN speeches' :
               /\ 0 <= speeches'[i].start /\ speeches'[i].start < speeches'[i].end
               /\ speeches'[i].end <= end
         /\ \A i, j \in DOMAIN speeches' : i < j => speeches'[i].end <= speeches'[j].start
         /\ \E i \in DOMAIN speeches' :
               speeches'[i].start = current_speech.start /\ speeches'[i].end = end
  <1> DEFINE new == [current_speech EXCEPT !.end = end]
             n == Len(speeches)
  <1>1. speeches \in Seq(Segment) /\ current_speech \in Segment
    BY DEF IInv, TypeOK, Segment
  <1>2. new \in Segment /\ new.start = current_speech.start /\ new.end = end
    <2>1. 0 <= current_speech.start /\ current_speech.start \in Int
      BY <1>1, IteratorAssumption DEF IInv, OpenSegment, Segment, Ints
    <2> QED
      BY <1>1, <2>1, IteratorAssumption DEF Segment, Ints
  <1>3. /\ speeches' = Append(speeches, new) /\ speeches' \in Seq(Segment)
        /\ n \in Nat /\ DOMAIN speeches = 1 .. n /\ DOMAIN speeches' = 1 .. n + 1
        /\ \A i \in 1 .. n : speeches'[i] = speeches[i]
        /\ speeches'[n + 1] = new
    BY <1>1, <1>2 DEF Push
  <1>4. /\ 0 <= current_speech.start
        /\ \A i \in 1 .. n : speeches[i] \in Segment
        /\ \A i \in 1 .. n : speeches[i].end <= current_speech.start
        /\ \A i \in 1 .. n : 0 <= speeches[i].start /\ speeches[i].start < speeches[i].end
        /\ \A i, j \in 1 .. n : i < j => speeches[i].end <= speeches[j].start
    BY <1>1, <1>3 DEF IInv, OpenSegment, Recorded
  <1>5. \A i \in 1 .. n + 1 : i \in 1 .. n \/ i = n + 1
    BY <1>3
  <1>6. \A i \in 1 .. n + 1 :
           /\ 0 <= speeches'[i].start /\ speeches'[i].start < speeches'[i].end
           /\ speeches'[i].end <= end
    <2> SUFFICES ASSUME NEW i \in 1 .. n + 1
                 PROVE  /\ 0 <= speeches'[i].start /\ speeches'[i].start < speeches'[i].end
                        /\ speeches'[i].end <= end
      OBVIOUS
    <2>1. CASE i = n + 1
      BY <2>1, <1>2, <1>3, <1>4 DEF Segment, Ints
    <2>2. CASE i \in 1 .. n
      <3>1. speeches'[i] = speeches[i] /\ speeches[i] \in Segment
        BY <2>2, <1>3, <1>4
      <3>2. speeches[i].end \in Int /\ current_speech.start \in Int
        BY <3>1, <1>1, IteratorAssumption DEF Segment, Ints
      <3>3. speeches[i].end <= current_speech.start
        BY <2>2, <1>4
      <3> QED
        BY <2>2, <3>1, <3>2, <3>3, <1>4
    <2> QED
      BY <2>1, <2>2, <1>5
  <1>7. \A i, j \in 1 .. n + 1 : i < j => speeches'[i].end <= speeches'[j].start
    <2> SUFFICES ASSUME NEW i \in 1 .. n + 1, NEW j \in 1 .. n + 1, i < j
                 PROVE  speeches'[i].end <= speeches'[j].start
      OBVIOUS
    <2>1. i \in 1 .. n
      BY <1>3
    <2>2. CASE j = n + 1
      BY <2>1, <2>2, <1>2, <1>3, <1>4
    <2>3. CASE j \in 1 .. n
      BY <2>1, <2>3, <1>3, <1>4
    <2> QED
      BY <2>2, <2>3, <1>5
  <1>8. n + 1 \in DOMAIN speeches'
    BY <1>3
  <1> QED
    BY <1>2, <1>3, <1>6, <1>7, <1>8

\* A closed segment's fields.
LEMMA Closed ==
  /\ 0 \in UInts /\ 0 \in Ints
  /\ NoSpeech \in Segment /\ NoSpeech.start = -1
  /\ \A n \in Ints : /\ [NoSpeech EXCEPT !.start = n] \in Segment
                     /\ [NoSpeech EXCEPT !.start = n].start = n
  <1>1. 0 \in UInts /\ 0 \in Ints /\ -1 \in Ints
    BY IteratorAssumption DEF UInts, Ints
  <1> QED
    BY <1>1 DEF NoSpeech, Segment

\* The types, as the arithmetic needs them.
LEMMA Types ==
  ASSUME IInv
  PROVE  /\ triggered \in BOOLEAN
         /\ temp_end \in Int /\ prev_end \in Int /\ next_start \in Int
         /\ heard \in Int /\ voiced \in Int /\ quiet \in Int
         /\ current_speech \in Segment
         /\ current_speech.start \in Int /\ current_speech.end \in Int
         /\ speeches \in Seq(Segment)
         /\ \A i \in DOMAIN speeches : speeches[i].start \in Int /\ speeches[i].end \in Int
         /\ Window \in Int /\ 0 < Window
  <1>1. \A i \in DOMAIN speeches : speeches[i] \in Segment
    BY DEF IInv, TypeOK
  <1>2. \A s \in Segment : s.start \in Int /\ s.end \in Int
    BY IteratorAssumption DEF Segment, Ints
  <1>3. /\ temp_end \in Int /\ prev_end \in Int /\ next_start \in Int
        /\ heard \in Int /\ voiced \in Int /\ quiet \in Int
    BY IteratorAssumption DEF IInv, TypeOK, UInts, Ints
  <1> QED
    BY <1>1, <1>2, <1>3, IteratorAssumption DEF IInv, TypeOK

-----------------------------------------------------------------------------
(* Each branch of predict() keeps the invariant.                             *)

\* A window starts where the samples heard before it end.
LEMMA WindowStartFacts ==
  ASSUME NoWrap, IInv, NEW p \in Classes, Infer(p)
  PROVE  WindowStart = heard /\ heard \in Ints
  <1>1. heard' = heard + Window /\ current_sample' = heard' /\ heard' < Half
    BY InferFacts
  <1>2. /\ current_sample' - Window = heard /\ heard \in Int /\ 0 <= heard
        /\ -Half <= heard /\ heard < Half
    BY <1>1, IteratorAssumption DEF IInv, TypeOK
  <1>3. S32(heard) = heard /\ U32(heard) = heard
    BY <1>2, NoWrapConversion
  <1>4. U32(current_sample' - Window) = U32(heard)
    BY <1>2
  <1>5. heard \in Ints
    BY <1>2, IteratorAssumption DEF Ints
  <1> QED
    BY <1>3, <1>4, <1>5 DEF WindowStart

\* A speech window opens a segment or resumes a paused one.
LEMMA SpeechWindowStep ==
  ASSUME NoWrap, IInv, SpeechWindow
  PROVE  IInv'
  <1>1. /\ heard' = heard + Window /\ heard' \in 0 .. MaxSamples /\ heard < heard'
        /\ heard' < Half
        /\ current_sample' = heard' /\ current_sample' \in UInts
        /\ voiced' = heard' /\ quiet' \in 0 .. MaxSamples
        /\ last_prob' \in Classes
        /\ mode' = mode /\ mode \in {"stream", "batch"}
    BY InferFacts DEF SpeechWindow, Classes
  <1>2. WindowStart = heard /\ heard \in Ints
    BY WindowStartFacts DEF SpeechWindow, Classes
  <1>3. /\ temp_end' = 0 /\ triggered' = TRUE
        /\ prev_end' = prev_end /\ speeches' = speeches
        /\ next_start' = IF temp_end # 0 /\ next_start < prev_end THEN heard ELSE next_start
        /\ current_speech' = IF triggered THEN current_speech
                             ELSE [current_speech EXCEPT !.start = heard]
    BY <1>2 DEF SpeechWindow, PauseAfterSpeech, Resumption
  <1>4. current_speech' \in Segment /\ current_speech'.start \in Int
        /\ current_speech'.start = IF triggered THEN current_speech.start ELSE heard
    BY <1>2, <1>3, Types DEF Segment, Ints
  <1>5. TypeOK'
    <2>1. next_start' \in Ints /\ temp_end' \in UInts
      BY <1>2, <1>3, IteratorAssumption DEF IInv, TypeOK, UInts
    <2> QED
      BY <2>1, <1>1, <1>3, <1>4 DEF IInv, TypeOK, Segment
  <1>6. Clock'
    BY <1>1, <1>3 DEF Clock
  <1>7. Idle'
    BY <1>3 DEF Idle
  <1>8. OpenSegment'
    BY <1>1, <1>3, <1>4, Types DEF IInv, TypeOK, OpenSegment, Recorded, Clock
  <1>9. Pauses'
    BY <1>1, <1>3, <1>4, Types DEF IInv, TypeOK, Pauses, Idle, Clock, OpenSegment
  <1>10. Recorded'
    BY <1>1, <1>3, Types DEF IInv, Recorded
  <1> QED
    BY <1>5, <1>6, <1>7, <1>8, <1>9, <1>10 DEF IInv

\* The windows that change no position: unsure ones, and silence outside speech.
LEMMA QuietWindowStep ==
  ASSUME NoWrap, IInv, UnsureWindow \/ IdleWindow
  PROVE  IInv'
  <1>1. PICK p \in {"unsure", "silence"} :
          /\ Infer(p)
          /\ UNCHANGED <<triggered, temp_end, prev_end, next_start, speeches, current_speech>>
    BY DEF UnsureWindow, IdleWindow
  <1>2. /\ heard' = heard + Window /\ heard' \in 0 .. MaxSamples /\ heard < heard'
        /\ current_sample' = heard' /\ current_sample' \in UInts
        /\ voiced' = voiced /\ quiet' \in 0 .. MaxSamples
        /\ last_prob' \in Classes
        /\ mode' = mode /\ mode \in {"stream", "batch"}
    BY <1>1, InferFacts DEF Classes
  <1>3. TypeOK'
    BY <1>1, <1>2 DEF IInv, TypeOK
  <1>4. Clock' /\ Idle' /\ OpenSegment'
    BY <1>1, <1>2, Types DEF IInv, Clock, Idle, OpenSegment
  <1>5. Pauses'
    BY <1>1, <1>2, Types DEF IInv, Pauses
  <1>6. Recorded'
    BY <1>1, <1>2, Types DEF IInv, Recorded
  <1> QED
    BY <1>3, <1>4, <1>5, <1>6 DEF IInv

\* A long pause is one that is running or was resumed from; either way it is later
\* than the start of the segment, so cutting there leaves a segment of its own.
LEMMA CutAtPauseStep ==
  ASSUME NoWrap, IInv, NEW p \in Classes, CutAtPause(p)
  PROVE  IInv'
  <1>1. /\ heard' = heard + Window /\ heard' \in 0 .. MaxSamples /\ heard < heard'
        /\ heard' < Half
        /\ current_sample' = heard' /\ current_sample' \in UInts
        /\ voiced' = voiced /\ voiced' <= heard' /\ quiet' \in 0 .. MaxSamples
        /\ last_prob' \in Classes
        /\ mode' = mode /\ mode \in {"stream", "batch"}
    BY InferFacts DEF CutAtPause
  <1>2. triggered /\ prev_end > 0 /\ Push(prev_end)
        /\ temp_end' = 0 /\ prev_end' = 0 /\ next_start' = 0
    BY DEF CutAtPause, TooLong, ForgetPauses
  <1>3. current_speech.start < prev_end /\ prev_end <= heard /\ prev_end < Half
    BY <1>1, <1>2, Types, IteratorAssumption DEF IInv, Pauses
  <1>4. /\ speeches' \in Seq(Segment)
        /\ \A i \in DOMAIN speeches' :
              /\ 0 <= speeches'[i].start /\ speeches'[i].start < speeches'[i].end
              /\ speeches'[i].end <= prev_end
        /\ \A i, j \in DOMAIN speeches' : i < j => speeches'[i].end <= speeches'[j].start
        /\ \E i \in DOMAIN speeches' :
              speeches'[i].start = current_speech.start /\ speeches'[i].end = prev_end
    BY <1>2, <1>3, Types, PushFacts
  <1>5. \A i \in DOMAIN speeches' : speeches'[i].end \in Int
    <2>1. \A i \in DOMAIN speeches' : speeches'[i] \in Segment
      BY <1>4
    <2> QED
      BY <2>1, IteratorAssumption DEF Segment, Ints
  <1>6. Recorded' /\ Clock'
    <2>1. Clock'
      BY <1>1 DEF Clock
    <2>2. prev_end <= heard' /\ prev_end \in Int /\ heard' \in Int
      BY <1>1, <1>3, Types, IteratorAssumption
    <2>3. \A i \in DOMAIN speeches' : speeches'[i].end <= heard'
      BY <2>2, <1>4, <1>5
    <2> QED
      BY <2>1, <2>3, <1>1, <1>4 DEF Recorded
  <1>7. CASE next_start < prev_end /\ triggered' = FALSE /\ current_speech' = NoSpeech
    <2>1. TypeOK'
      BY <1>1, <1>2, <1>4, <1>7, Closed DEF IInv, TypeOK
    <2>2. Idle' /\ OpenSegment' /\ Pauses'
      BY <1>2, <1>7, Closed DEF Idle, OpenSegment, Pauses
    <2> QED
      BY <1>6, <2>1, <2>2 DEF IInv
  <1>8. CASE /\ next_start >= prev_end /\ triggered' = triggered
             /\ current_speech' = [NoSpeech EXCEPT !.start = next_start]
    <2>1. /\ current_speech'.start = next_start /\ current_speech' \in Segment
          /\ next_start + Window <= voiced /\ 0 <= next_start
      BY <1>2, <1>8, Closed DEF IInv, TypeOK, Pauses
    <2>2. TypeOK'
      BY <1>1, <1>2, <1>4, <1>8, <2>1, Closed DEF IInv, TypeOK
    <2>3. OpenSegment'
      BY <1>1, <1>2, <1>4, <1>5, <1>8, <2>1, Types DEF OpenSegment
    <2>4. Idle' /\ Pauses'
      BY <1>1, <1>2, <1>8, <2>1, Types DEF Idle, Pauses, IInv, TypeOK
    <2> QED
      BY <1>6, <2>2, <2>3, <2>4 DEF IInv
  <1> QED
    BY <1>7, <1>8 DEF CutAtPause

\* Closing the open segment, at any end that covers its speech, keeps the invariant.
LEMMA CloseSegment ==
  ASSUME NoWrap, IInv, triggered,
         NEW end \in Int, current_speech.start < end, end < Half, voiced <= end,
         Push(end), Release,
         heard' \in 0 .. MaxSamples, current_sample' = heard', current_sample' \in UInts,
         voiced' = voiced, voiced' <= heard', quiet' \in 0 .. MaxSamples,
         last_prob' \in Classes, mode' \in {"stream", "batch", "done"},
         mode' = "done" \/ end <= heard'
  PROVE  IInv'
  <1>1. /\ speeches' \in Seq(Segment)
        /\ \A i \in DOMAIN speeches' :
              /\ 0 <= speeches'[i].start /\ speeches'[i].start < speeches'[i].end
              /\ speeches'[i].end <= end
        /\ \A i, j \in DOMAIN speeches' : i < j => speeches'[i].end <= speeches'[j].start
        /\ \E i \in DOMAIN speeches' :
              speeches'[i].start = current_speech.start /\ speeches'[i].end = end
    BY PushFacts
  <1>2. \A i \in DOMAIN speeches' : speeches'[i].end \in Int
    <2>1. \A i \in DOMAIN speeches' : speeches'[i] \in Segment
      BY <1>1
    <2> QED
      BY <2>1, IteratorAssumption DEF Segment, Ints
  <1>3. /\ triggered' = FALSE /\ current_speech' = NoSpeech
        /\ temp_end' = 0 /\ prev_end' = 0 /\ next_start' = 0
    BY DEF Release, ForgetPauses
  <1>4. TypeOK'
    BY <1>1, <1>3, Closed DEF IInv, TypeOK
  <1>5. Clock' /\ Idle' /\ OpenSegment' /\ Pauses'
    BY <1>3, Closed DEF Clock, Idle, OpenSegment, Pauses
  <1>6. Recorded'
    <2>1. mode' # "done" => \A i \in DOMAIN speeches' : speeches'[i].end <= heard'
      BY <1>1, <1>2, IteratorAssumption
    <2> QED
      BY <1>1, <2>1 DEF Recorded
  <1> QED
    BY <1>4, <1>5, <1>6 DEF IInv

\* A segment cut for its length ends with the window, inside what was heard.
LEMMA CutHereStep ==
  ASSUME NoWrap, IInv, NEW p \in Classes, CutHere(p)
  PROVE  IInv'
  <1>1. /\ heard' = heard + Window /\ heard' \in 0 .. MaxSamples /\ heard < heard'
        /\ heard' < Half
        /\ current_sample' = heard' /\ current_sample' \in UInts
        /\ voiced' = voiced /\ voiced' <= heard' /\ quiet' \in 0 .. MaxSamples
        /\ last_prob' \in Classes
        /\ mode' = mode /\ mode \in {"stream", "batch"}
    BY InferFacts DEF CutHere
  <1>2. triggered /\ Release
    BY DEF CutHere, TooLong, Release
  <1>3. Push(heard')
    <2>1. heard' \in Int /\ -Half <= heard'
      BY <1>1, IteratorAssumption
    <2>2. S32(heard') = heard'
      BY <1>1, <2>1, NoWrapConversion
    <2> QED
      BY <1>1, <2>2 DEF CutHere
  <1>4. heard' \in Int /\ current_speech.start < heard' /\ heard' <= heard'
    BY <1>1, <1>2, Types, IteratorAssumption DEF IInv, OpenSegment
  <1>5. voiced <= heard' /\ mode' \in {"stream", "batch", "done"}
    BY <1>1
  <1> QED
    BY <1>1, <1>2, <1>3, <1>4, <1>5, CloseSegment

\* The pause a silent window belongs to started after all speech so far.
LEMMA PauseFacts ==
  ASSUME NoWrap, IInv, triggered, NEW p \in Classes, p # "speech", Infer(p)
  PROVE  /\ PauseStart \in Int /\ voiced < PauseStart /\ PauseStart <= heard'
         /\ current_speech.start < PauseStart /\ 0 < PauseStart /\ PauseStart < Half
         /\ S32(PauseStart) = PauseStart
         /\ PauseStart \in UInts /\ PauseStart \in Ints
  <1>1. /\ heard' \in Int /\ heard < heard' /\ heard' < Half
        /\ current_sample' = heard'
    BY InferFacts, IteratorAssumption
  <1>2. /\ PauseStart \in Int /\ voiced < PauseStart /\ PauseStart <= heard'
    BY <1>1, Types DEF PauseStart, IInv, Clock, Pauses
  <1>3. current_speech.start < PauseStart /\ 0 < PauseStart /\ PauseStart < Half
    BY <1>1, <1>2, Types, IteratorAssumption DEF IInv, OpenSegment
  <1>4. S32(PauseStart) = PauseStart
    <2>1. -Half <= PauseStart
      BY <1>2, <1>3, IteratorAssumption
    <2> QED
      BY <1>2, <1>3, <2>1, NoWrapConversion
  <1>5. PauseStart \in UInts /\ PauseStart \in Ints
    BY <1>2, <1>3, IteratorAssumption DEF UInts, Ints
  <1> QED
    BY <1>2, <1>3, <1>4, <1>5

\* A pause too short to end the segment is only noted.
LEMMA PauseWindowStep ==
  ASSUME NoWrap, IInv, PauseWindow
  PROVE  IInv'
  <1>1. /\ heard' = heard + Window /\ heard' \in 0 .. MaxSamples /\ heard < heard'
        /\ current_sample' = heard' /\ current_sample' \in UInts
        /\ voiced' = voiced /\ voiced' <= heard' /\ quiet' \in 0 .. MaxSamples
        /\ last_prob' \in Classes
        /\ mode' = mode /\ mode \in {"stream", "batch"}
    BY InferFacts DEF PauseWindow, Classes
  <1>2. triggered /\ triggered' = triggered /\ next_start' = next_start /\ speeches' = speeches
    BY DEF PauseWindow
  <1>3. /\ PauseStart \in Int /\ voiced < PauseStart /\ PauseStart <= heard'
        /\ current_speech.start < PauseStart /\ 0 < PauseStart
        /\ S32(PauseStart) = PauseStart
        /\ PauseStart \in UInts /\ PauseStart \in Ints
    BY <1>2, PauseFacts DEF PauseWindow, Classes
  <1>4. /\ temp_end' = PauseStart
        /\ prev_end' = PauseStart \/ prev_end' = prev_end
        /\ \/ current_speech' = [current_speech EXCEPT !.end = PauseStart]
           \/ current_speech' = current_speech
    BY <1>3 DEF PauseWindow
  <1>5. current_speech' \in Segment /\ current_speech'.start = current_speech.start
    BY <1>3, <1>4, Types DEF Segment
  <1>6. TypeOK'
    BY <1>1, <1>2, <1>3, <1>4, <1>5 DEF IInv, TypeOK
  <1>7. Clock' /\ Idle' /\ OpenSegment'
    BY <1>1, <1>2, <1>5 DEF IInv, Clock, Idle, OpenSegment
  <1>8. Pauses'
    <2>1. heard' \in Int /\ voiced' = voiced
      BY <1>1, IteratorAssumption
    <2>2. prev_end' \in Int /\ 0 <= prev_end' /\ prev_end' <= heard'
          /\ (prev_end' > 0 => current_speech'.start < prev_end')
      BY <1>1, <1>2, <1>3, <1>4, <1>5, <2>1, Types DEF IInv, Pauses
    <2>3. prev_end' > 0 /\ next_start' < prev_end' => voiced' <= prev_end' /\ temp_end' # 0
      BY <1>2, <1>3, <1>4, <2>1, Types DEF IInv, Pauses
    <2> QED
      BY <1>2, <1>3, <1>4, <2>1, <2>2, <2>3 DEF IInv, Pauses
  <1>9. Recorded'
    BY <1>1, <1>2, Types, IteratorAssumption DEF IInv, Recorded
  <1> QED
    BY <1>6, <1>7, <1>8, <1>9 DEF IInv

\* A pause that is long enough closes the segment where the pause began.
LEMMA EndOfSpeechStep ==
  ASSUME NoWrap, IInv, EndOfSpeech
  PROVE  IInv'
  <1>1. /\ heard' = heard + Window /\ heard' \in 0 .. MaxSamples
        /\ current_sample' = heard' /\ current_sample' \in UInts
        /\ voiced' = voiced /\ voiced' <= heard' /\ quiet' \in 0 .. MaxSamples
        /\ last_prob' \in Classes
        /\ mode' = mode /\ mode \in {"stream", "batch"}
    BY InferFacts DEF EndOfSpeech, Classes
  <1>2. triggered /\ Release
    BY DEF EndOfSpeech
  <1>3. /\ PauseStart \in Int /\ voiced < PauseStart /\ PauseStart <= heard'
        /\ current_speech.start < PauseStart /\ PauseStart < Half
        /\ S32(PauseStart) = PauseStart
    BY <1>2, PauseFacts DEF EndOfSpeech, Classes
  <1>4. Push(PauseStart)
    BY <1>3 DEF EndOfSpeech
  <1>5. voiced <= PauseStart /\ mode' \in {"stream", "batch", "done"}
    BY <1>1, <1>3, Types
  <1> QED
    BY <1>1, <1>2, <1>3, <1>4, <1>5, CloseSegment

-----------------------------------------------------------------------------
(* reset() and the two ends of process().                                    *)

\* reset() leaves nothing of an earlier recording.
LEMMA ResetStep ==
  ASSUME IInv, ResetStates, mode' \in {"stream", "batch"}
  PROVE  IInv'
  <1>1. TypeOK'
    <2>1. <<>> \in Seq(Segment) /\ 0 \in 0 .. MaxSamples
      BY IteratorAssumption
    <2> QED
      BY <2>1, Closed DEF IInv, TypeOK, ResetStates
  <1>2. Clock' /\ Idle' /\ OpenSegment' /\ Pauses'
    BY Closed DEF ResetStates, Clock, Idle, OpenSegment, Pauses
  <1>3. Recorded'
    BY DEF ResetStates, Recorded
  <1> QED
    BY <1>1, <1>2, <1>3 DEF IInv

\* process() closes the segment that is open at the end of the recording.
LEMMA ProcessEndStep ==
  ASSUME NoWrap, IInv, ProcessEnd
  PROVE  IInv'
  <1>1. /\ mode' = "done"
        /\ UNCHANGED <<current_sample, last_prob, heard, voiced, quiet>>
    BY DEF ProcessEnd
  <1>2. CASE /\ current_speech.start >= 0
             /\ \E tail \in Tails : heard + tail < Half /\ Push(S32(heard + tail))
             /\ Release
    <2>1. PICK tail \in Tails : heard + tail < Half /\ Push(S32(heard + tail))
      BY <1>2
    <2>2. tail \in Nat /\ heard + tail \in Int /\ -Half <= heard + tail
      BY IteratorAssumption, Types DEF IInv, TypeOK
    <2>3. Push(heard + tail)
      BY <2>1, <2>2, NoWrapConversion
    <2>4. triggered
      BY <1>2 DEF IInv, TypeOK, Idle
    <2>5. current_speech.start < heard + tail /\ voiced <= heard + tail
      BY <2>2, <2>4, Types DEF IInv, OpenSegment, Clock
    <2>6. /\ heard' \in 0 .. MaxSamples /\ current_sample' = heard'
          /\ current_sample' \in UInts /\ voiced' = voiced /\ voiced' <= heard'
          /\ quiet' \in 0 .. MaxSamples /\ last_prob' \in Classes
          /\ mode' \in {"stream", "batch", "done"}
      BY <1>1 DEF IInv, TypeOK, Clock
    <2> QED
      BY <1>1, <1>2, <2>1, <2>2, <2>3, <2>4, <2>5, <2>6, CloseSegment
  <1>3. CASE /\ current_speech.start < 0
             /\ UNCHANGED <<triggered, temp_end, prev_end, next_start, speeches,
                            current_speech>>
    <2>1. ~triggered
      BY <1>3, Types DEF IInv, OpenSegment
    <2> QED
      BY <1>1, <1>3, <2>1
      DEF IInv, TypeOK, Clock, Idle, OpenSegment, Pauses, Recorded
  <1> QED
    BY <1>2, <1>3 DEF ProcessEnd

-----------------------------------------------------------------------------
\* Nothing is heard, open or recorded at the start.
LEMMA InitInvariant ==
  ASSUME IterInit
  PROVE  IInv
  <1>1. TypeOK
    <2>1. <<>> \in Seq(Segment) /\ 0 \in 0 .. MaxSamples
      BY IteratorAssumption
    <2> QED
      BY <2>1, Closed DEF IterInit, TypeOK, Classes
  <1>2. Clock /\ Idle /\ OpenSegment /\ Pauses /\ Recorded
    BY Closed DEF IterInit, Clock, Idle, OpenSegment, Pauses, Recorded
  <1> QED
    BY <1>1, <1>2 DEF IInv

\* Every step preserves the invariant.
LEMMA StepInvariant ==
  ASSUME NoWrap, IInv, [Next]_iterVars
  PROVE  IInv'
  <1>1. CASE SpeechWindow
    BY <1>1, SpeechWindowStep
  <1>2. CASE \E p \in Classes : CutAtPause(p) \/ CutHere(p)
    BY <1>2, CutAtPauseStep, CutHereStep
  <1>3. CASE UnsureWindow \/ IdleWindow
    BY <1>3, QuietWindowStep
  <1>4. CASE PauseWindow
    BY <1>4, PauseWindowStep
  <1>5. CASE EndOfSpeech
    BY <1>5, EndOfSpeechStep
  <1>6. CASE ProcessBegin \/ Reset
    BY <1>6, ResetStep DEF ProcessBegin, Reset
  <1>7. CASE ProcessEnd
    BY <1>7, ProcessEndStep
  <1>8. CASE UNCHANGED iterVars
    BY <1>8 DEF iterVars, IInv, TypeOK, Clock, Idle, OpenSegment, Pauses, Recorded
  <1> QED
    BY <1>1, <1>2, <1>3, <1>4, <1>5, <1>6, <1>7, <1>8 DEF Next, Predict

\* The inductive invariant holds throughout every stream and every batch.
THEOREM Invariant ==
  ASSUME NoWrap
  PROVE  Spec => []IInv
  <1>1. IterInit => IInv
    BY InitInvariant
  <1>2. IInv /\ [Next]_iterVars => IInv'
    BY StepInvariant
  <1> QED
    BY <1>1, <1>2, PTL DEF Spec

\* get_speech_timestamps() returns non-empty, ordered, disjoint segments, whatever
\* the window, pause and length parameters are.
THEOREM SegmentsAreSound ==
  ASSUME NoWrap
  PROVE  Spec => []SegmentsSound
  <1>1. IInv => SegmentsSound
    BY DEF IInv, SegmentsSound, Recorded, OpenSegment
  <1> QED
    BY <1>1, Invariant, PTL

\* triggered, current_speech.start and the pause bookkeeping never disagree, so
\* process() may test one for the other.
THEOREM IdleStateIsClean ==
  ASSUME NoWrap
  PROVE  Spec => []IdleIsClean
  <1>1. IInv => IdleIsClean
    BY Types DEF IInv, TypeOK, IdleIsClean, Idle, OpenSegment
  <1> QED
    BY <1>1, Invariant, PTL

\* A pause within the stream is measured exactly.
LEMMA PauseLength ==
  ASSUME NEW now \in Int, NEW start \in Int, NEW speech \in Int,
         0 < start, speech < start, start <= now, now < Half,
         U32(now - start) >= MinSilence
  PROVE  now - speech >= MinSilence
  <1>1. /\ now - start \in Int /\ -Half <= now - start
        /\ now - start < Half /\ 0 <= now - start
    BY IteratorAssumption
  <1>2. now - start >= MinSilence
    BY <1>1, NoWrapConversion
  <1> QED
    BY <1>2, IteratorAssumption

\* Without a speech limit (the service sets none) every segment of a stream is closed
\* by MinSilence samples without speech and by nothing else, whatever MinSpeech and
\* the other parameters are.
THEOREM SegmentsEndInSilence ==
  ASSUME NoWrap, MaxSpeech = {}
  PROVE  Spec => SilenceBeforeEnd
  <1> DEFINE A == heard' > heard /\ Len(speeches') > Len(speeches)
                    => last_prob' = "silence" /\ heard' - voiced >= MinSilence
  <1>1. IInv /\ [Next]_iterVars => [A]_iterVars
    <2> SUFFICES ASSUME IInv, Next, heard' > heard, Len(speeches') > Len(speeches)
                 PROVE  last_prob' = "silence" /\ heard' - voiced >= MinSilence
      OBVIOUS
    <2>1. heard \in Int /\ voiced \in Int /\ Len(speeches) \in Nat
      BY Types
    <2>2. EndOfSpeech
      <3>1. ~TooLong
        BY DEF TooLong
      <3>2. ~(SpeechWindow \/ UnsureWindow \/ IdleWindow \/ PauseWindow)
        BY <2>1 DEF SpeechWindow, UnsureWindow, IdleWindow, PauseWindow
      <3>3. ~(ProcessBegin \/ Reset \/ ProcessEnd)
        BY <2>1, IteratorAssumption
        DEF ProcessBegin, Reset, ResetStates, ProcessEnd, IInv, TypeOK
      <3> QED
        BY <3>1, <3>2, <3>3 DEF Next, Predict, CutAtPause, CutHere
    <2>3. /\ PauseStart \in Int /\ voiced < PauseStart /\ PauseStart <= heard'
          /\ 0 < PauseStart
      BY <2>2, PauseFacts DEF EndOfSpeech, Classes
    <2>4. current_sample' = heard' /\ heard' \in Int /\ heard' < Half
      BY <2>2, InferFacts, IteratorAssumption DEF EndOfSpeech, Classes
    <2>5. Pause >= MinSilence /\ 0 <= voiced
      BY <2>2, Types DEF EndOfSpeech, IInv, TypeOK
    <2>6. last_prob' = "silence"
      BY <2>2 DEF EndOfSpeech, Infer
    <2> QED
      BY <2>1, <2>3, <2>4, <2>5, <2>6, PauseLength DEF Pause
  <1>2. Spec => [][A]_iterVars
    BY <1>1, Invariant, PTL DEF Spec
  <1> QED
    BY <1>2 DEF SilenceBeforeEnd

\* Without a limit the running pause starts at the first silent window since speech.
PauseFromQuiet == triggered => temp_end = quiet

\* Speech clears the pause, and the first silent window after it sets temp_end: the pause
\* is measured from there until it ends the segment.
LEMMA PauseFromQuietStep ==
  ASSUME NoWrap, MaxSpeech = {}, IInv, PauseFromQuiet, EndsWhenDue, [Next]_iterVars
  PROVE  PauseFromQuiet' /\ EndsWhenDue'
  <1>1. ~TooLong
    BY DEF TooLong
  <1>2. CASE SpeechWindow
    BY <1>2 DEF SpeechWindow, PauseAfterSpeech, Infer, PauseFromQuiet, EndsWhenDue
  <1>3. CASE UnsureWindow \/ IdleWindow
    BY <1>3, Types DEF UnsureWindow, IdleWindow, Infer, PauseFromQuiet, EndsWhenDue
  <1>4. CASE EndOfSpeech
    BY <1>4 DEF EndOfSpeech, Release, PauseFromQuiet, EndsWhenDue
  <1>5. CASE PauseWindow
    <2>1. /\ triggered /\ Infer("silence") /\ "silence" \in Classes
          /\ Pause < MinSilence \/ ~LongEnough
          /\ temp_end' = PauseStart
      BY <1>5 DEF PauseWindow, Classes
    <2>2. current_sample' = heard' /\ heard' \in Int /\ heard' < Half
      BY <2>1, InferFacts, IteratorAssumption
    <2>3. /\ PauseStart \in Int /\ PauseStart <= heard' /\ current_speech.start < PauseStart
          /\ 0 < PauseStart /\ PauseStart < Half /\ S32(PauseStart) = PauseStart
      BY <2>1, PauseFacts
    <2>4. quiet' = PauseStart
      BY <2>1, <2>2 DEF Infer, PauseStart, PauseFromQuiet
    <2>5. current_speech'.start = current_speech.start
      BY <1>5, Types DEF PauseWindow, Segment
    <2>6. 0 <= current_speech.start /\ current_speech.start \in Int
      BY <2>1, Types DEF IInv, OpenSegment
    <2>7. Pause = heard' - PauseStart
      <3>1. \A now, start \in Int :
              0 < start /\ start <= now /\ now < Half => U32(now - start) = now - start
        BY IteratorAssumption DEF U32
      <3> QED
        BY <2>2, <2>3, <3>1 DEF Pause
    <2>8. LongEnough <=> PauseStart - current_speech.start > MinSpeech
      <3>1. /\ PauseStart - current_speech.start \in Int
            /\ -Half <= PauseStart - current_speech.start
            /\ PauseStart - current_speech.start < Half
        BY <2>3, <2>6, IteratorAssumption
      <3>2. S32(PauseStart - current_speech.start) = PauseStart - current_speech.start
        BY <3>1, NoWrapConversion
      <3> QED
        BY <2>3, <3>2 DEF LongEnough
    <2>9. heard' - quiet' >= MinSilence => quiet' - current_speech'.start <= MinSpeech
      <3>1. \A now, start, from \in Int :
              /\ now - start < MinSilence \/ ~(start - from > MinSpeech)
              /\ now - start >= MinSilence
              => start - from <= MinSpeech
        BY IteratorAssumption
      <3>2. heard' - PauseStart < MinSilence \/ ~(PauseStart - current_speech.start > MinSpeech)
        BY <2>1, <2>7, <2>8
      <3> QED
        BY <2>2, <2>3, <2>4, <2>5, <2>6, <3>1, <3>2
    <2> QED
      BY <2>1, <2>4, <2>9 DEF PauseFromQuiet, EndsWhenDue
  <1>6. CASE ProcessBegin \/ Reset
    BY <1>6 DEF ProcessBegin, Reset, ResetStates, PauseFromQuiet, EndsWhenDue
  <1>7. CASE ProcessEnd
    BY <1>7, Types
    DEF ProcessEnd, Release, IInv, OpenSegment, PauseFromQuiet, EndsWhenDue
  <1>8. CASE UNCHANGED iterVars
    BY <1>8 DEF iterVars, PauseFromQuiet, EndsWhenDue
  <1> QED
    BY <1>1, <1>2, <1>3, <1>4, <1>5, <1>6, <1>7, <1>8
    DEF Next, Predict, CutAtPause, CutHere

\* Without a speech limit a segment is closed as soon as that is due: one still open
\* when its pause has lasted MinSilence samples was not longer than MinSpeech.
THEOREM SpeechEndsWhenDue ==
  ASSUME NoWrap, MaxSpeech = {}
  PROVE  Spec => []EndsWhenDue
  <1>1. IterInit => PauseFromQuiet /\ EndsWhenDue
    BY DEF IterInit, PauseFromQuiet, EndsWhenDue
  <1>2. IInv /\ PauseFromQuiet /\ EndsWhenDue /\ [Next]_iterVars
          => PauseFromQuiet' /\ EndsWhenDue'
    BY PauseFromQuietStep
  <1> QED
    BY <1>1, <1>2, Invariant, PTL DEF Spec

-----------------------------------------------------------------------------
(* Where all the speech heard is: SpeechHistory.                             *)

\* The history holds speech of the past.
Past == \A w \in spoken : w \in Int /\ w <= voiced

\* A cut at a long pause loses no speech: none lies between the pause and the
\* resumption after it, where the next segment will start.
CutsClean ==
  triggered /\ prev_end > 0 =>
    \A w \in spoken : w <= prev_end \/ (prev_end <= next_start /\ next_start <= w - Window)

HInv == IInv /\ Past /\ CutsClean /\ SpeechCovered

\* Closing the open segment at or after the latest speech keeps all speech covered.
LEMMA CloseCovers ==
  ASSUME NoWrap, HInv, triggered,
         NEW end \in Int, current_speech.start < end, end < Half, voiced <= end,
         Push(end), spoken' = spoken
  PROVE  SpeechCovered'
  <1>1. \E i \in DOMAIN speeches' :
          speeches'[i].start = current_speech.start /\ speeches'[i].end = end
    BY PushFacts DEF HInv
  <1>2. \A i \in DOMAIN speeches : i \in DOMAIN speeches' /\ speeches'[i] = speeches[i]
    BY Types DEF HInv, Push
  <1>3. \A w \in spoken : w <= end
    BY Types DEF HInv, Past
  <1> QED
    BY <1>1, <1>2, <1>3 DEF HInv, SpeechCovered

\* A window classed as speech is covered by the segment it opens or falls into, and is
\* where next_start points or later.
LEMMA SpeechWindowCovers ==
  ASSUME NoWrap, HInv, SpeechWindow, spoken' = spoken \cup {heard'}
  PROVE  Past' /\ CutsClean' /\ SpeechCovered'
  <1>1. /\ heard' = heard + Window /\ heard' \in Int /\ heard \in Int /\ heard < heard'
        /\ voiced' = heard'
    BY InferFacts, IteratorAssumption DEF HInv, IInv, TypeOK, SpeechWindow, Classes
  <1>2. WindowStart = heard /\ heard \in Ints
    BY WindowStartFacts DEF HInv, SpeechWindow, Classes
  <1>3. /\ triggered' = TRUE
        /\ prev_end' = prev_end /\ speeches' = speeches
        /\ next_start' = IF temp_end # 0 /\ next_start < prev_end THEN heard ELSE next_start
        /\ current_speech' = IF triggered THEN current_speech
                             ELSE [current_speech EXCEPT !.start = heard]
    BY <1>2 DEF SpeechWindow, Resumption
  <1>4. /\ current_speech'.start = IF triggered THEN current_speech.start ELSE heard
        /\ current_speech.start \in Int /\ prev_end \in Int /\ next_start \in Int
        /\ voiced \in Int /\ Window \in Int /\ 0 < Window
    BY <1>3, Types DEF HInv, Segment
  <1>5. voiced <= heard
    BY DEF HInv, IInv, Clock
  <1>6. \A w \in spoken : w \in Int /\ w <= voiced
    BY DEF HInv, Past
  <1>7. Past'
    BY <1>1, <1>4, <1>5, <1>6 DEF Past
  <1>8. CutsClean'
    <2> SUFFICES ASSUME prev_end > 0, NEW w \in spoken \cup {heard'}
                 PROVE  w <= prev_end \/ (prev_end <= next_start' /\ next_start' <= w - Window)
      BY <1>3 DEF CutsClean
    <2>1. triggered
      BY <1>4 DEF HInv, IInv, Idle
    <2>2. /\ prev_end <= heard /\ next_start + Window <= voiced
          /\ next_start < prev_end => voiced <= prev_end /\ temp_end # 0
      BY <2>1 DEF HInv, IInv, Pauses
    <2>3. CASE w = heard'
      BY <2>2, <2>3, <1>1, <1>3, <1>4, <1>5
    <2>4. CASE w \in spoken
      <3>1. CASE next_start < prev_end
        BY <2>2, <2>4, <3>1, <1>4, <1>6
      <3>2. CASE ~(next_start < prev_end)
        BY <2>1, <2>4, <3>2, <1>3, <1>4, <1>6 DEF HInv, CutsClean
      <3> QED
        BY <3>1, <3>2
    <2> QED
      BY <2>3, <2>4
  <1>9. SpeechCovered'
    <2> SUFFICES ASSUME NEW w \in spoken \cup {heard'}
                 PROVE  \/ current_speech'.start <= w - Window
                        \/ \E i \in DOMAIN speeches :
                             speeches[i].start <= w - Window /\ w <= speeches[i].end
      BY <1>3 DEF SpeechCovered
    <2>1. CASE w = heard'
      <3>1. triggered => current_speech.start + Window <= voiced
        BY DEF HInv, IInv, OpenSegment
      <3> QED
        BY <2>1, <3>1, <1>1, <1>4, <1>5
    <2>2. CASE w \in spoken
      BY <2>2, <1>4 DEF HInv, SpeechCovered
    <2> QED
      BY <2>1, <2>2
  <1> QED
    BY <1>7, <1>8, <1>9

\* Cutting at a long pause splits the speech of the open segment between the segment
\* recorded and the one that goes on from the resumption.
LEMMA CutCovers ==
  ASSUME NoWrap, HInv, NEW p \in Classes, CutAtPause(p), spoken' = spoken
  PROVE  Past' /\ CutsClean' /\ SpeechCovered'
  <1>1. /\ voiced' = voiced /\ heard' = heard + Window /\ heard' < Half
    BY InferFacts DEF HInv, CutAtPause
  <1>2. /\ triggered /\ prev_end > 0 /\ Push(prev_end) /\ prev_end' = 0
    BY DEF CutAtPause, TooLong, ForgetPauses
  <1>3. current_speech.start < prev_end /\ prev_end <= heard /\ prev_end < Half
    BY <1>1, <1>2, Types, IteratorAssumption DEF HInv, IInv, Pauses
  <1>4. /\ prev_end \in Int /\ next_start \in Int /\ voiced \in Int
        /\ Window \in Int /\ 0 < Window
    BY Types DEF HInv
  <1>5. Past' /\ CutsClean'
    BY <1>1, <1>2 DEF HInv, Past, CutsClean
  <1>6. CASE next_start < prev_end
    <2>1. voiced <= prev_end
      BY <1>2, <1>6 DEF HInv, IInv, Pauses
    <2> QED
      BY <1>2, <1>3, <1>4, <1>5, <2>1, CloseCovers
  <1>7. CASE ~(next_start < prev_end)
    <2>1. triggered' = triggered /\ current_speech'.start = next_start
      BY <1>4, <1>7, Types, Closed DEF CutAtPause, HInv, IInv, TypeOK
    <2>2. \E i \in DOMAIN speeches' :
            speeches'[i].start = current_speech.start /\ speeches'[i].end = prev_end
      BY <1>2, <1>3, <1>4, PushFacts DEF HInv
    <2>3. \A i \in DOMAIN speeches : i \in DOMAIN speeches' /\ speeches'[i] = speeches[i]
      BY <1>2, Types DEF HInv, Push
    <2>4. \A w \in spoken : w <= prev_end \/ next_start <= w - Window
      BY <1>2 DEF HInv, CutsClean
    <2>5. SpeechCovered'
      BY <1>2, <2>1, <2>2, <2>3, <2>4 DEF HInv, SpeechCovered
    <2> QED
      BY <1>5, <2>5
  <1> QED
    BY <1>6, <1>7

\* A silent or unsure window that cuts nothing leaves all speech where it is, in the
\* open segment or in the one it closes.
LEMMA OtherWindowCovers ==
  ASSUME NoWrap, HInv, spoken' = spoken,
         UnsureWindow \/ IdleWindow \/ PauseWindow \/ EndOfSpeech
           \/ \E p \in Classes : CutHere(p)
  PROVE  Past' /\ CutsClean' /\ SpeechCovered'
  <1>1. PICK p \in Classes : Infer(p) /\ p # "speech"
    BY DEF UnsureWindow, IdleWindow, PauseWindow, EndOfSpeech, CutHere, Classes
  <1>2. /\ voiced' = voiced /\ heard' = heard + Window /\ heard' < Half
        /\ current_sample' = heard' /\ heard' \in Int /\ heard \in Int
        /\ voiced \in Int /\ voiced <= heard /\ Window \in Int /\ 0 < Window
    BY <1>1, InferFacts, Types, IteratorAssumption DEF HInv, IInv, Clock
  <1>3. Past'
    BY <1>2 DEF HInv, Past
  <1>4. CASE UnsureWindow \/ IdleWindow
    <2>1. UNCHANGED <<triggered, prev_end, next_start, speeches, current_speech>>
      BY <1>4 DEF UnsureWindow, IdleWindow
    <2> QED
      BY <1>3, <2>1 DEF HInv, CutsClean, SpeechCovered
  <1>5. CASE PauseWindow
    <2>1. /\ triggered /\ UNCHANGED <<triggered, next_start, speeches>>
          /\ prev_end' = S32(PauseStart) \/ prev_end' = prev_end
          /\ current_speech' = [current_speech EXCEPT !.end = S32(PauseStart)]
               \/ current_speech' = current_speech
      BY <1>5 DEF PauseWindow
    <2>2. current_speech'.start = current_speech.start
      BY <2>1, Types DEF HInv, Segment
    <2>3. S32(PauseStart) = PauseStart /\ PauseStart \in Int /\ voiced < PauseStart
      BY <1>1, <2>1, PauseFacts DEF HInv
    <2>4. CutsClean'
      <3>1. CASE prev_end' = PauseStart
        <4>1. \A w \in spoken : w <= prev_end'
          BY <1>2, <2>3, <3>1 DEF HInv, Past
        <4> QED
          BY <4>1 DEF CutsClean
      <3>2. CASE prev_end' = prev_end
        BY <2>1, <3>2 DEF HInv, CutsClean
      <3> QED
        BY <2>1, <2>3, <3>1, <3>2
    <2>5. SpeechCovered'
      BY <2>1, <2>2 DEF HInv, SpeechCovered
    <2> QED
      BY <1>3, <2>4, <2>5
  <1>6. CASE EndOfSpeech
    <2>1. triggered /\ triggered' = FALSE /\ Push(S32(PauseStart))
      BY <1>6 DEF EndOfSpeech, Release
    <2>2. /\ S32(PauseStart) = PauseStart /\ PauseStart \in Int /\ voiced < PauseStart
          /\ current_speech.start < PauseStart /\ PauseStart < Half
      BY <1>1, <2>1, PauseFacts DEF HInv
    <2>3. SpeechCovered'
      BY <1>2, <2>1, <2>2, CloseCovers
    <2> QED
      BY <1>3, <2>1, <2>3 DEF CutsClean
  <1>7. CASE \E q \in Classes : CutHere(q)
    <2>1. triggered /\ triggered' = FALSE /\ Push(S32(current_sample'))
      BY <1>7 DEF CutHere, TooLong
    <2>2. S32(heard') = heard'
      <3>1. -Half <= heard'
        BY <1>2, IteratorAssumption DEF HInv, IInv, TypeOK
      <3> QED
        BY <1>2, <3>1, NoWrapConversion
    <2>3. current_speech.start < heard' /\ voiced <= heard'
      BY <1>2, <2>1, Types DEF HInv, IInv, OpenSegment
    <2>4. SpeechCovered'
      BY <1>2, <2>1, <2>2, <2>3, CloseCovers
    <2> QED
      BY <1>3, <2>1, <2>4 DEF CutsClean
  <1> QED
    BY <1>4, <1>5, <1>6, <1>7

\* The flush of process() records the open segment with all of its speech.
LEMMA FlushCovers ==
  ASSUME NoWrap, HInv, ProcessEnd, spoken' = spoken
  PROVE  Past' /\ CutsClean' /\ SpeechCovered'
  <1>1. voiced' = voiced /\ heard' = heard /\ voiced <= heard
    BY DEF ProcessEnd, HInv, IInv, Clock
  <1>2. Past'
    BY <1>1 DEF HInv, Past
  <1>3. CASE /\ current_speech.start >= 0
             /\ \E tail \in Tails : heard + tail < Half /\ Push(S32(heard + tail))
             /\ Release
    <2>1. PICK tail \in Tails : heard + tail < Half /\ Push(S32(heard + tail))
      BY <1>3
    <2>2. tail \in Nat /\ heard + tail \in Int /\ -Half <= heard + tail /\ heard \in Int
      BY IteratorAssumption, Types DEF HInv, IInv, TypeOK
    <2>3. Push(heard + tail)
      BY <2>1, <2>2, NoWrapConversion
    <2>4. triggered
      BY <1>3 DEF HInv, IInv, TypeOK, Idle
    <2>5. current_speech.start < heard + tail /\ voiced <= heard + tail
      BY <1>1, <2>2, <2>4, Types DEF HInv, IInv, OpenSegment
    <2>6. SpeechCovered'
      BY <2>1, <2>2, <2>3, <2>4, <2>5, CloseCovers
    <2> QED
      BY <1>2, <1>3, <2>6 DEF Release, CutsClean
  <1>4. CASE UNCHANGED <<triggered, temp_end, prev_end, next_start, speeches, current_speech>>
    BY <1>2, <1>4 DEF HInv, CutsClean, SpeechCovered
  <1> QED
    BY <1>3, <1>4 DEF ProcessEnd

\* Segmentation never drops a window classed as speech, neither the latest nor any
\* before it: each lies whole in the open segment or in a recorded one.
THEOREM SpeechIsCovered ==
  ASSUME NoWrap
  PROVE  HistorySpec => []SpeechCovered
  <1>1. HistoryInit => HInv
    BY InitInvariant DEF HistoryInit, IterInit, HInv, Past, CutsClean, SpeechCovered
  <1>2. HInv /\ [HistoryNext]_historyVars => HInv'
    <2> SUFFICES ASSUME HInv, [HistoryNext]_historyVars PROVE HInv'
      OBVIOUS
    <2>1. IInv'
      BY StepInvariant DEF HInv, HistoryNext, historyVars
    <2>2. CASE HistoryNext /\ Predict
      <3>1. /\ heard' > heard /\ heard' # 0
            /\ \A p \in Classes : Infer(p) => last_prob' = p
        <4>1. PICK p \in Classes : Infer(p)
          BY <2>2 DEF Predict, SpeechWindow, CutAtPause, CutHere, UnsureWindow, IdleWindow,
                      PauseWindow, EndOfSpeech, Classes
        <4> QED
          BY <4>1, IteratorAssumption DEF Infer, HInv, IInv, TypeOK
      <3>2. CASE SpeechWindow
        <4>1. last_prob' = "speech"
          BY <3>2 DEF SpeechWindow, Infer
        <4>2. spoken' = spoken \cup {heard'}
          BY <2>2, <3>1, <4>1 DEF HistoryNext
        <4> QED
          BY <2>1, <3>2, <4>2, SpeechWindowCovers DEF HInv
      <3>3. CASE ~SpeechWindow
        <4>1. \/ UnsureWindow \/ IdleWindow \/ PauseWindow \/ EndOfSpeech
              \/ \E p \in Classes : CutHere(p)
              \/ \E p \in Classes : CutAtPause(p)
          BY <2>2, <3>3 DEF Predict
        <4>2. last_prob' # "speech"
          BY <4>1 DEF CutAtPause, CutHere, UnsureWindow, IdleWindow, PauseWindow,
                      EndOfSpeech, Infer
        <4>3. spoken' = spoken
          BY <2>2, <3>1, <4>2 DEF HistoryNext
        <4> QED
          BY <2>1, <4>1, <4>3, OtherWindowCovers, CutCovers DEF HInv
      <3> QED
        BY <3>2, <3>3
    <2>3. CASE HistoryNext /\ (ProcessBegin \/ Reset)
      <3>1. ResetStates
        BY <2>3 DEF ProcessBegin, Reset
      <3>2. spoken' = {} /\ triggered' = FALSE
        BY <2>3, <3>1 DEF HistoryNext, ResetStates
      <3> QED
        BY <2>1, <3>2 DEF HInv, Past, CutsClean, SpeechCovered
    <2>4. CASE HistoryNext /\ ProcessEnd
      <3>1. heard' = heard /\ heard \in Int
        BY <2>4, Types DEF ProcessEnd, HInv
      <3>2. CASE heard # 0
        <4>1. spoken' = spoken
          BY <2>4, <3>1, <3>2 DEF HistoryNext
        <4> QED
          BY <2>1, <2>4, <4>1, FlushCovers DEF HInv
      <3>3. CASE heard = 0
        <4>1. spoken' = {} /\ ~triggered'
          BY <2>1, <2>4, <3>1, <3>3 DEF HistoryNext, IInv, Clock, ProcessEnd
        <4> QED
          BY <2>1, <4>1 DEF HInv, Past, CutsClean, SpeechCovered
      <3> QED
        BY <3>2, <3>3
    <2>5. CASE UNCHANGED historyVars
      BY <2>1, <2>5 DEF historyVars, iterVars, HInv, Past, CutsClean, SpeechCovered
    <2> QED
      BY <2>2, <2>3, <2>4, <2>5 DEF HistoryNext, Next
  <1>3. HInv => SpeechCovered
    BY DEF HInv
  <1> QED
    BY <1>1, <1>2, <1>3, PTL DEF HistorySpec
=============================================================================
