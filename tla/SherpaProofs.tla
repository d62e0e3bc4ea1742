----------------------------- MODULE SherpaProofs -----------------------------
(***************************************************************************)
(* Theorems about SherpaVad inside a Session, for any frame length,        *)
(* durations, buffer size and messages: its types, what its two duration   *)
(* counters measure, and that the session agrees with it between calls.    *)
(***************************************************************************)
EXTENDS SherpaSession, SharedLemmas, FiniteSetTheorems, TLAPS

-----------------------------------------------------------------------------
(* Counting frames since the latest set_state().                             *)

\* The frames Count counts are finitely many.
LEMMA CountIsNat ==
  ASSUME since \in Seq(BOOLEAN), NEW b \in BOOLEAN, NEW i \in Nat
  PROVE  /\ IsFiniteSet({k \in i .. Len(since) : since[k] = b})
         /\ Count(b, i) \in Nat
<1> DEFINE S == {k \in i .. Len(since) : since[k] = b}
<1>1. Len(since) \in Nat
  OBVIOUS
<1>2. IsFiniteSet(i .. Len(since))
  BY <1>1, FS_Interval
<1>3. S \in SUBSET (i .. Len(since))
  OBVIOUS
<1>4. IsFiniteSet(S)
  <2> HIDE DEF S
  <2> QED
    BY <1>2, <1>3, FS_Subset
<1>5. Cardinality(S) \in Nat
  <2> HIDE DEF S
  <2> QED
    BY <1>4, FS_CardinalityType
<1>6. QED
  BY <1>4, <1>5 DEF Count

\* One more frame counts where it belongs, and only there.
LEMMA CountOfNext ==
  ASSUME since \in Seq(BOOLEAN), NEW a \in BOOLEAN, since' = Append(since, a),
         NEW b \in BOOLEAN, NEW i \in 1 .. Len(since) + 1
  PROVE  /\ a = b => Count(b, i)' = Count(b, i) + 1
         /\ a # b => Count(b, i)' = Count(b, i)
<1> DEFINE S == {k \in i .. Len(since) : since[k] = b}
           T == {k \in i .. Len(since) + 1 : since'[k] = b}
<1>1. /\ Len(since) \in Nat /\ Len(since') = Len(since) + 1
      /\ since'[Len(since) + 1] = a /\ \A k \in i .. Len(since) : since'[k] = since[k]
  OBVIOUS
<1>2. Count(b, i) = Cardinality(S) /\ Count(b, i)' = Cardinality(T)
  BY <1>1 DEF Count
<1>3. IsFiniteSet(S) /\ Cardinality(S) \in Nat
  BY <1>2, CountIsNat
<1>4. Len(since) + 1 \notin S
  BY <1>1
<1>5. CASE a = b
  <2>1. T = S \cup {Len(since) + 1}
    BY <1>1, <1>5
  <2>2. Cardinality(T) = Cardinality(S) + 1
    <3> HIDE DEF S, T
    <3> QED
      BY <1>3, <1>4, <2>1, FS_AddElement
  <2>3. QED
    BY <1>2, <1>5, <2>2
<1>6. CASE a # b
  <2>1. T = S
    BY <1>1, <1>6
  <2>2. QED
    BY <1>2, <1>6, <2>1
<1>7. QED
  BY <1>5, <1>6

\* Past the last frame there is nothing to count.
LEMMA CountOfNone ==
  ASSUME since \in Seq(BOOLEAN), NEW b \in BOOLEAN
  PROVE  Count(b, Len(since) + 1) = 0
<1>1. {k \in Len(since) + 1 .. Len(since) : since[k] = b} = {}
  OBVIOUS
<1>2. QED
  BY <1>1, FS_EmptySet DEF Count

-----------------------------------------------------------------------------
(* The detector's variables.                                                 *)

DetectorTypes ==
  /\ state_ \in {"Inactivity", "InactivityTransition", "Activity"}
  /\ recognition_duration_ \in 0 .. BeginMs /\ silence_duration_ \in Int
  /\ frame_index_ \in 0 .. MaxFrames
  /\ margin_buffer_ \in Nat
  /\ Len(fixed_buffer_) <= FixedFrames
  /\ fixed_buffer_ \in Seq(1 .. frame_index_)
  /\ since \in Seq(BOOLEAN)

\* One frame of process_internal(), whatever it decides.
FrameStep(active) ==
  \/ StillInactive(active) \/ Recognise(active) \/ VoiceBegin(active)
  \/ VoiceOngoing(active) \/ VoiceEnd(active)

\* recognition_duration_ stays between nothing and what active frames add.
LEMMA RecognisedBounds ==
  ASSUME DetectorTypes, NEW active \in BOOLEAN
  PROVE  /\ Recognised(active) \in Nat
         /\ active => Recognised(active) = recognition_duration_ + FrameMs
         /\ ~active => /\ Recognised(active) <= recognition_duration_
                       /\ Recognised(active) >= recognition_duration_ - DecayMs
BY SherpaAssumption DEF DetectorTypes, Recognised

\* The buffer keeps frames seen so far, and no more than its capacity.
LEMMA KeepTypes ==
  ASSUME DetectorTypes, frame_index_' = frame_index_ + 1
  PROVE  /\ Keep(fixed_buffer_, frame_index_') \in Seq(1 .. frame_index_')
         /\ Len(Keep(fixed_buffer_, frame_index_')) <= FixedFrames
<1> DEFINE all == Append(fixed_buffer_, frame_index_')
           extra == IF Len(all) > FixedFrames THEN Len(all) - FixedFrames ELSE 0
<1>1. frame_index_' \in 1 .. frame_index_' /\ frame_index_ \in Nat
  BY SherpaAssumption DEF DetectorTypes
<1>2. fixed_buffer_ \in Seq(1 .. frame_index_') /\ Len(fixed_buffer_) <= FixedFrames
  BY <1>1 DEF DetectorTypes
<1>3. /\ all \in Seq(1 .. frame_index_') /\ Len(all) = Len(fixed_buffer_) + 1
      /\ Len(fixed_buffer_) \in Nat
  BY <1>1, <1>2
<1>4. extra \in 0 .. Len(all) /\ Len(all) - extra <= FixedFrames
  <2>1. FixedFrames \in Nat /\ Len(all) \in Nat
    BY <1>3, SherpaAssumption
  <2> HIDE DEF all
  <2>2. QED
    BY <2>1
<1>5. Keep(fixed_buffer_, frame_index_') = SubSeq(all, extra + 1, Len(all))
  BY DEF Keep
<1> HIDE DEF all, extra
<1>6. /\ SubSeq(all, extra + 1, Len(all)) \in Seq(1 .. frame_index_')
      /\ Len(SubSeq(all, extra + 1, Len(all))) <= FixedFrames
  BY <1>3, <1>4, SherpaAssumption
<1>7. QED
  BY <1>5, <1>6

\* A frame keeps the detector's variables in their types.
LEMMA FrameStepTypes ==
  ASSUME DetectorTypes, NEW active \in BOOLEAN, FrameStep(active)
  PROVE  DetectorTypes' /\ margin_buffer_' < margin_buffer_
<1>1. /\ frame_index_ \in 0 .. MaxFrames /\ frame_index_ < MaxFrames
      /\ frame_index_' = frame_index_ + 1 /\ frame_index_' \in 0 .. MaxFrames
      /\ margin_buffer_ >= FrameSamples /\ margin_buffer_' = margin_buffer_ - FrameSamples
  BY SherpaAssumption
  DEF DetectorTypes, FrameStep, StillInactive, Recognise, VoiceBegin, VoiceOngoing, VoiceEnd,
      Frame
<1>2. margin_buffer_' \in Nat /\ margin_buffer_' < margin_buffer_
  BY <1>1, SherpaAssumption DEF DetectorTypes
<1>3. fixed_buffer_ \in Seq(1 .. frame_index_')
  BY <1>1 DEF DetectorTypes
<1>4. fixed_buffer_' \in Seq(1 .. frame_index_') /\ Len(fixed_buffer_') <= FixedFrames
  BY <1>1, <1>3, KeepTypes
  DEF DetectorTypes, FrameStep, StillInactive, Recognise, VoiceBegin, VoiceOngoing, VoiceEnd
<1>5. since' \in Seq(BOOLEAN)
  <2>1. Append(since, active) \in Seq(BOOLEAN) /\ <<active>> \in Seq(BOOLEAN)
        /\ <<>> \in Seq(BOOLEAN)
    BY DEF DetectorTypes
  <2>2. QED
    BY <2>1
    DEF FrameStep, StillInactive, Recognise, VoiceBegin, VoiceOngoing, VoiceEnd, SetState
<1>6. state_' \in {"Inactivity", "InactivityTransition", "Activity"}
  BY DEF DetectorTypes, FrameStep, StillInactive, Recognise, VoiceBegin, VoiceOngoing,
         VoiceEnd, SetState
<1>7. recognition_duration_' \in 0 .. BeginMs
  BY RecognisedBounds, SherpaAssumption
  DEF DetectorTypes, FrameStep, StillInactive, Recognise, VoiceBegin, VoiceOngoing, VoiceEnd,
      SetState
<1>8. silence_duration_' \in Int
  BY SherpaAssumption
  DEF DetectorTypes, FrameStep, StillInactive, Recognise, VoiceBegin, VoiceOngoing, VoiceEnd,
      SetState, Silent
<1>9. QED
  BY <1>1, <1>2, <1>4, <1>5, <1>6, <1>7, <1>8 DEF DetectorTypes

-----------------------------------------------------------------------------
(* What the two durations measure.                                           *)

\* Silent less active frames, from the i-th since the latest set_state().
Active(i) == Count(TRUE, i)
Inactive(i) == Count(FALSE, i)
Surplus(i) == Inactive(i) - Active(i)

\* m is the worst surplus of any stretch of the latest frames, the empty one included.
IsWorst(m) ==
  /\ \A i \in 1 .. Len(since) : Surplus(i) <= m
  /\ m = 0 \/ \E i \in 1 .. Len(since) : Surplus(i) = m

\* SilenceIsWorstSurplus without Max, and OnsetMeasuresSpeech with the accumulator
\* between the two sums it stands for.
DurationsMeasure ==
  /\ state_ = "Activity" =>
       \E m \in Nat : IsWorst(m) /\ silence_duration_ = FrameMs * m
  /\ state_ = "Inactivity" =>
       /\ FrameMs * Active(1) - DecayMs * Inactive(1) <= recognition_duration_
       /\ recognition_duration_ <= FrameMs * Active(1)
       /\ recognition_duration_ < BeginMs
  /\ state_ = "InactivityTransition" => FrameMs * Active(1) >= BeginMs

\* The two counts, and what one more frame does to them.
LEMMA CountsOfNext ==
  ASSUME since \in Seq(BOOLEAN), NEW a \in BOOLEAN, since' = Append(since, a),
         NEW i \in 1 .. Len(since) + 1
  PROVE  /\ Active(i) \in Nat /\ Inactive(i) \in Nat
         /\ a => Active(i)' = Active(i) + 1 /\ Inactive(i)' = Inactive(i)
         /\ ~a => Active(i)' = Active(i) /\ Inactive(i)' = Inactive(i) + 1
         /\ Active(Len(since) + 1) = 0 /\ Inactive(Len(since) + 1) = 0
<1>1. i \in Nat
  OBVIOUS
<1>2. Active(i) \in Nat /\ Inactive(i) \in Nat
  BY <1>1, CountIsNat, Zenon DEF Active, Inactive
<1>3. Active(Len(since) + 1) = 0 /\ Inactive(Len(since) + 1) = 0
  BY CountOfNone, Zenon DEF Active, Inactive
<1>4. CASE a
  <2>1. a = TRUE
    BY <1>4
  <2>2. Active(i)' = Active(i) + 1 /\ Inactive(i)' = Inactive(i)
    BY <2>1, CountOfNext, Zenon DEF Active, Inactive
  <2>3. QED
    BY <1>2, <1>3, <1>4, <2>2
<1>5. CASE ~a
  <2>1. a = FALSE
    BY <1>5
  <2>2. Active(i)' = Active(i) /\ Inactive(i)' = Inactive(i) + 1
    BY <2>1, CountOfNext, Zenon DEF Active, Inactive
  <2>3. QED
    BY <1>2, <1>3, <1>5, <2>2
<1>6. QED
  BY <1>4, <1>5

\* One more frame moves every surplus by one, and starts a stretch of its own.
LEMMA SurplusOfNext ==
  ASSUME since \in Seq(BOOLEAN), NEW a \in BOOLEAN, since' = Append(since, a),
         NEW i \in 1 .. Len(since) + 1
  PROVE  /\ Surplus(i) \in Int
         /\ ~a => Surplus(i)' = Surplus(i) + 1
         /\ a => Surplus(i)' = Surplus(i) - 1
         /\ Surplus(Len(since) + 1) = 0
BY CountsOfNext DEF Surplus

\* The counts of no frame and of one, before a step and after it.
LEMMA CountsOfFew ==
  ASSUME NEW a \in BOOLEAN
  PROVE  /\ since = <<>> => Active(1) = 0 /\ Inactive(1) = 0
         /\ since' = <<>> => Active(1)' = 0 /\ Inactive(1)' = 0
         /\ since' = <<a>> => /\ a => Active(1)' = 1 /\ Inactive(1)' = 0
                              /\ ~a => Active(1)' = 0 /\ Inactive(1)' = 1
<1>1. ASSUME NEW b \in BOOLEAN, NEW s, s = <<>>
      PROVE  Cardinality({k \in 1 .. Len(s) : s[k] = b}) = 0
  <2>1. {k \in 1 .. Len(s) : s[k] = b} = {}
    BY <1>1
  <2>2. QED
    BY <2>1, FS_EmptySet
<1>2. ASSUME NEW s, s = <<a>>
      PROVE  Cardinality({k \in 1 .. Len(s) : s[k] = a}) = 1
  <2>1. {k \in 1 .. Len(s) : s[k] = a} = {1}
    BY <1>2
  <2>2. QED
    BY <2>1, FS_Singleton
<1>3. ASSUME NEW b \in BOOLEAN, a # b, NEW s, s = <<a>>
      PROVE  Cardinality({k \in 1 .. Len(s) : s[k] = b}) = 0
  <2>1. {k \in 1 .. Len(s) : s[k] = b} = {}
    BY <1>3
  <2>2. QED
    BY <2>1, FS_EmptySet
<1>4. ASSUME since = <<>> PROVE Active(1) = 0 /\ Inactive(1) = 0
  BY <1>1, <1>4, Zenon DEF Active, Inactive, Count
<1>5. ASSUME since' = <<>> PROVE Active(1)' = 0 /\ Inactive(1)' = 0
  BY <1>1, <1>5, Zenon DEF Active, Inactive, Count
<1>6. ASSUME since' = <<a>>, a PROVE Active(1)' = 1 /\ Inactive(1)' = 0
  <2>1. a = TRUE /\ a # FALSE
    BY <1>6
  <2>2. QED
    BY <1>2, <1>3, <1>6, <2>1, Zenon DEF Active, Inactive, Count
<1>7. ASSUME since' = <<a>>, ~a PROVE Active(1)' = 0 /\ Inactive(1)' = 1
  <2>1. a = FALSE /\ a # TRUE
    BY <1>7
  <2>2. QED
    BY <1>2, <1>3, <1>7, <2>1, Zenon DEF Active, Inactive, Count
<1>8. QED
  BY <1>4, <1>5, <1>6, <1>7, Zenon

\* In Activity the silence accumulator follows the worst surplus through one frame.
LEMMA SilentIsWorst ==
  ASSUME since \in Seq(BOOLEAN), NEW a \in BOOLEAN, since' = Append(since, a),
         NEW m \in Nat, IsWorst(m), silence_duration_ = FrameMs * m
  PROVE  \E n \in Nat : IsWorst(n)' /\ Silent(a) = FrameMs * n
<1>1. Len(since) \in Nat /\ Len(since') = Len(since) + 1
  OBVIOUS
<1>2. /\ \A i \in 1 .. Len(since) + 1 : Surplus(i) \in Int
      /\ \A i \in 1 .. Len(since) + 1 : ~a => Surplus(i)' = Surplus(i) + 1
      /\ \A i \in 1 .. Len(since) + 1 : a => Surplus(i)' = Surplus(i) - 1
      /\ Surplus(Len(since) + 1) = 0
  BY <1>1, SurplusOfNext
<1>3. \A i \in 1 .. Len(since) + 1 : Surplus(i) <= m
  BY <1>1, <1>2 DEF IsWorst
<1>4. CASE ~a
  <2>1. \A i \in 1 .. Len(since) + 1 : Surplus(i)' <= m + 1
    BY <1>2, <1>3, <1>4
  <2>2. \E i \in 1 .. Len(since) + 1 : Surplus(i)' = m + 1
    <3>1. CASE m = 0
      BY <1>1, <1>2, <1>4, <3>1
    <3>2. CASE m # 0
      <4>1. PICK i \in 1 .. Len(since) : Surplus(i) = m
        BY <3>2 DEF IsWorst
      <4>2. i \in 1 .. Len(since) + 1 /\ Surplus(i)' = m + 1
        BY <1>1, <1>2, <1>4, <4>1
      <4>3. QED
        BY <4>2
    <3>3. QED
      BY <3>1, <3>2
  <2>3. IsWorst(m + 1)'
    BY <1>1, <2>1, <2>2 DEF IsWorst
  <2>4. Silent(a) = FrameMs * (m + 1)
    BY <1>4, SherpaAssumption DEF Silent
  <2>5. QED
    BY <2>3, <2>4
<1>5. CASE a /\ m = 0
  <2>1. \A i \in 1 .. Len(since) + 1 : Surplus(i)' <= 0
    BY <1>2, <1>3, <1>5
  <2>2. IsWorst(0)'
    BY <1>1, <2>1 DEF IsWorst
  <2>3. Silent(a) = FrameMs * 0
    BY <1>5, SherpaAssumption DEF Silent
  <2>4. QED
    BY <2>2, <2>3
<1>6. CASE a /\ m # 0
  <2>1. \A i \in 1 .. Len(since) + 1 : Surplus(i)' <= m - 1
    BY <1>2, <1>3, <1>6
  <2>2. PICK i \in 1 .. Len(since) : Surplus(i) = m
    BY <1>6 DEF IsWorst
  <2>3. i \in 1 .. Len(since) + 1 /\ Surplus(i)' = m - 1
    BY <1>1, <1>2, <1>6, <2>2
  <2>4. IsWorst(m - 1)'
    BY <1>1, <2>1, <2>3 DEF IsWorst
  <2>5. m - 1 \in Nat /\ FrameMs \in Nat
    BY <1>6, SherpaAssumption
  <2>6. FrameMs * (m - 1) \in Nat /\ FrameMs * m = FrameMs * (m - 1) + FrameMs
    BY <2>5
  <2>7. Silent(a) = FrameMs * (m - 1)
    BY <1>6, <2>5, <2>6 DEF Silent
  <2>8. QED
    BY <2>4, <2>5, <2>7
<1>7. QED
  BY <1>4, <1>5, <1>6

\* In Inactivity the accumulator stays between what active frames add, less DecayMs
\* for every silent one, and what they add.
LEMMA RecognisedMeasures ==
  ASSUME DetectorTypes, DurationsMeasure, state_ = "Inactivity",
         NEW a \in BOOLEAN, since' = Append(since, a)
  PROVE  /\ (FrameMs * Active(1))' - (DecayMs * Inactive(1))' <= Recognised(a)
         /\ Recognised(a) <= (FrameMs * Active(1))'
<1>1. 1 \in 1 .. Len(since) + 1 /\ since \in Seq(BOOLEAN)
  BY DEF DetectorTypes
<1>2. /\ Active(1) \in Nat /\ Inactive(1) \in Nat
      /\ a => Active(1)' = Active(1) + 1 /\ Inactive(1)' = Inactive(1)
      /\ ~a => Active(1)' = Active(1) /\ Inactive(1)' = Inactive(1) + 1
  BY <1>1, CountsOfNext
<1>3. PICK t \in Nat, f \in Nat, r \in Nat :
        /\ t = Active(1) /\ f = Inactive(1) /\ r = recognition_duration_
        /\ FrameMs * t - DecayMs * f <= r /\ r <= FrameMs * t
  BY <1>2, SherpaAssumption DEF DetectorTypes, DurationsMeasure
<1>4. PICK ft \in Int, df \in Int :
        /\ ft = FrameMs * t /\ FrameMs * (t + 1) = ft + FrameMs
        /\ df = DecayMs * f /\ DecayMs * (f + 1) = df + DecayMs
        /\ FrameMs \in Nat /\ DecayMs \in Nat
        /\ ft - df <= r /\ r <= ft
  <2>1. /\ FrameMs \in Nat /\ DecayMs \in Nat
        /\ FrameMs * t \in Int /\ DecayMs * f \in Int
        /\ FrameMs * (t + 1) = FrameMs * t + FrameMs
        /\ DecayMs * (f + 1) = DecayMs * f + DecayMs
    BY SherpaAssumption
  <2>2. QED
    BY <1>3, <2>1
<1>5. CASE a
  <2>1. (FrameMs * Active(1))' = ft + FrameMs /\ (DecayMs * Inactive(1))' = df
    BY <1>2, <1>3, <1>4, <1>5
  <2>2. Recognised(a) = r + FrameMs
    BY <1>3, <1>5, RecognisedBounds
  <2>3. QED
    BY <1>4, <2>1, <2>2
<1>6. CASE ~a
  <2>1. (FrameMs * Active(1))' = ft /\ (DecayMs * Inactive(1))' = df + DecayMs
    BY <1>2, <1>3, <1>4, <1>6
  <2>2. Recognised(a) \in Nat /\ Recognised(a) <= r /\ Recognised(a) >= r - DecayMs
    BY <1>3, <1>6, RecognisedBounds
  <2>3. QED
    BY <1>4, <2>1, <2>2
<1>7. QED
  BY <1>5, <1>6

\* A frame keeps what the durations measure.
LEMMA FrameStepMeasures ==
  ASSUME DetectorTypes, DurationsMeasure, NEW a \in BOOLEAN, FrameStep(a)
  PROVE  DurationsMeasure'
<1>1. CASE StillInactive(a)
  <2>1. /\ state_ = "Inactivity" /\ state_' = "Inactivity" /\ since' = Append(since, a)
        /\ recognition_duration_' = Recognised(a) /\ Recognised(a) < BeginMs
    BY <1>1 DEF StillInactive
  <2>2. /\ (FrameMs * Active(1))' - (DecayMs * Inactive(1))' <= Recognised(a)
        /\ Recognised(a) <= (FrameMs * Active(1))'
    BY <2>1, RecognisedMeasures
  <2>3. QED
    BY <2>1, <2>2 DEF DurationsMeasure
<1>2. CASE Recognise(a)
  <2>1. /\ state_ = "Inactivity" /\ state_' = "InactivityTransition"
        /\ since' = Append(since, a) /\ Recognised(a) >= BeginMs
    BY <1>2 DEF Recognise, SetState
  <2>2. Recognised(a) <= (FrameMs * Active(1))'
    BY <2>1, RecognisedMeasures
  <2>3. since \in Seq(BOOLEAN) /\ 1 \in 1 .. Len(since) + 1 /\ Recognised(a) \in Nat
    BY RecognisedBounds DEF DetectorTypes
  <2>4. (FrameMs * Active(1))' \in Int
    BY <2>1, <2>3, CountsOfNext, SherpaAssumption
  <2>5. QED
    BY <2>1, <2>2, <2>3, <2>4, SherpaAssumption DEF DurationsMeasure
<1>3. CASE VoiceBegin(a)
  <2>1. /\ state_' = "Activity" /\ since' = <<a>>
        /\ silence_duration_' = IF a THEN 0 ELSE FrameMs
    BY <1>3 DEF VoiceBegin, SetState
  <2>2. /\ a => Active(1)' = 1 /\ Inactive(1)' = 0
        /\ ~a => Active(1)' = 0 /\ Inactive(1)' = 1
    BY <2>1, CountsOfFew
  <2>3. Len(since') = 1
    BY <2>1
  <2>4. CASE a
    <3>1. Surplus(1)' = -1
      BY <2>2, <2>4 DEF Surplus
    <3>2. IsWorst(0)'
      BY <2>3, <3>1 DEF IsWorst
    <3>3. silence_duration_' = FrameMs * 0
      BY <2>1, <2>4, SherpaAssumption
    <3>4. QED
      BY <2>1, <3>2, <3>3 DEF DurationsMeasure
  <2>5. CASE ~a
    <3>1. Surplus(1)' = 1
      BY <2>2, <2>5 DEF Surplus
    <3>2. IsWorst(1)'
      BY <2>3, <3>1 DEF IsWorst
    <3>3. silence_duration_' = FrameMs * 1
      BY <2>1, <2>5, SherpaAssumption
    <3>4. QED
      BY <2>1, <3>2, <3>3 DEF DurationsMeasure
  <2>6. QED
    BY <2>4, <2>5
<1>4. CASE VoiceOngoing(a)
  <2>1. /\ state_ = "Activity" /\ state_' = "Activity" /\ since' = Append(since, a)
        /\ silence_duration_' = Silent(a)
    BY <1>4 DEF VoiceOngoing
  <2>2. PICK m \in Nat : IsWorst(m) /\ silence_duration_ = FrameMs * m
    BY <2>1 DEF DurationsMeasure
  <2>3. \E n \in Nat : IsWorst(n)' /\ Silent(a) = FrameMs * n
    BY <2>1, <2>2, SilentIsWorst DEF DetectorTypes
  <2>4. QED
    BY <2>1, <2>3 DEF DurationsMeasure
<1>5. CASE VoiceEnd(a)
  <2>1. /\ state_' = "Inactivity" /\ since' = <<>> /\ recognition_duration_' = 0
    BY <1>5 DEF VoiceEnd, SetState
  <2>2. Active(1)' = 0 /\ Inactive(1)' = 0
    BY <2>1, CountsOfFew
  <2>3. QED
    BY <2>1, <2>2, SherpaAssumption DEF DurationsMeasure
<1>6. QED
  BY <1>1, <1>2, <1>3, <1>4, <1>5 DEF FrameStep

-----------------------------------------------------------------------------
(* The session around the detector.                                          *)

IInv == TypeOK /\ DurationsMeasure

\* A message enters margin_buffer_, and the detector's state waits for its frames.
LEMMA ProcessAudioKeeps ==
  ASSUME IInv, NEW n \in ChunkBytes, ProcessAudio(n)
  PROVE  IInv'
<1>1. /\ n \in Nat /\ n \div 2 \in Nat
      /\ received \in Nat /\ received + n \in Nat /\ margin_buffer_ \in Nat
  BY ChunkAssumption DEF IInv, TypeOK
<1>2. /\ chunk' \in Chunk /\ received' \in Nat /\ margin_buffer_' \in Nat
  BY <1>1 DEF ProcessAudio, Chunk
<1>3. /\ state_' = state_ /\ since' = since /\ frame_index_' = frame_index_
      /\ recognition_duration_' = recognition_duration_
      /\ silence_duration_' = silence_duration_ /\ fixed_buffer_' = fixed_buffer_
      /\ last_state_' = last_state_ /\ audio_buffer_' = audio_buffer_
      /\ result' = "SILENCE" /\ triggered_any' = FALSE /\ pc' = "frames"
  BY DEF ProcessAudio, replyVars
<1>4. TypeOK'
  BY <1>2, <1>3 DEF IInv, TypeOK
<1>5. DurationsMeasure'
  BY <1>3 DEF IInv, DurationsMeasure, IsWorst, Surplus, Active, Inactive, Count
<1>6. QED
  BY <1>4, <1>5 DEF IInv

\* One frame of the loop is one frame of the detector, and its report.
LEMMA ProcessFrameKeeps ==
  ASSUME IInv, ProcessFrame
  PROVE  IInv'
<1>1. PICK active \in BOOLEAN : FrameStep(active)
  BY DEF ProcessFrame, FrameStep
<1>2. DetectorTypes /\ DurationsMeasure
  BY DEF IInv, TypeOK, DetectorTypes
<1>3. DetectorTypes' /\ DurationsMeasure'
  BY <1>1, <1>2, FrameStepTypes, FrameStepMeasures
<1>4. /\ result' \in {"SILENCE", "START_SPEAKING", "SPEAKING", "END_SPEAKING"}
      /\ triggered_any' \in BOOLEAN
  BY DEF ProcessFrame, Report, callVars, IInv, TypeOK
<1>5. /\ pc' = "frames" /\ received' = received /\ chunk' = chunk
      /\ last_state_' = last_state_ /\ audio_buffer_' = audio_buffer_
  BY DEF ProcessFrame, replyVars
<1>6. TypeOK'
  BY <1>3, <1>4, <1>5 DEF IInv, TypeOK, DetectorTypes
<1>7. QED
  BY <1>3, <1>6 DEF IInv

\* The reply is the session's alone: the detector is left as its frames left it.
LEMMA RespondKeeps ==
  ASSUME IInv, Respond
  PROVE  IInv'
<1>1. /\ CurrentState \in {"SILENCE", "START_SPEAKING", "SPEAKING", "END_SPEAKING"}
      /\ chunk \in Chunk /\ audio_buffer_ \in Seq(Chunk) /\ <<>> \in Seq(Chunk)
  BY DEF IInv, TypeOK, CurrentState
<1>2. Insert(audio_buffer_, chunk) \in Seq(Chunk) /\ Insert(<<>>, chunk) \in Seq(Chunk)
  BY <1>1, InsertType
<1>3. Buffered[CurrentState] \in Seq(Chunk)
  <2>1. /\ Buffered["START_SPEAKING"] = Insert(<<>>, chunk)
        /\ Buffered["SPEAKING"] = Insert(audio_buffer_, chunk)
        /\ Buffered["END_SPEAKING"] = Insert(audio_buffer_, chunk)
        /\ Buffered["SILENCE"] = <<>>
    BY DEF Buffered
  <2>2. QED
    BY <1>1, <1>2, <2>1
<1>4. audio_buffer_' \in Seq(Chunk) /\ last_state_' \in {"SILENCE", "SPEAKING"}
  BY <1>1, <1>3 DEF Respond
<1>5. /\ margin_buffer_ < FrameSamples /\ pc' = "idle" /\ received' = chunk.to
      /\ chunk' = chunk /\ result' = result /\ triggered_any' = triggered_any
      /\ state_' = state_ /\ since' = since /\ frame_index_' = frame_index_
      /\ recognition_duration_' = recognition_duration_
      /\ silence_duration_' = silence_duration_ /\ fixed_buffer_' = fixed_buffer_
      /\ margin_buffer_' = margin_buffer_
  BY DEF Respond, sherpaVars, callVars
<1>6. received' \in Nat
  BY <1>1, <1>5 DEF Chunk
<1>7. TypeOK'
  BY <1>4, <1>5, <1>6 DEF IInv, TypeOK
<1>8. DurationsMeasure'
  BY <1>5 DEF IInv, DurationsMeasure, IsWorst, Surplus, Active, Inactive, Count
<1>9. QED
  BY <1>7, <1>8 DEF IInv

\* The detector's types and what its durations measure hold in every state, for
\* messages of every size.
THEOREM Invariant == Spec => []IInv
<1>1. Init => IInv
  <2>1. ASSUME Init PROVE TypeOK
    <3>1. /\ fixed_buffer_ = <<>> /\ fixed_buffer_ \in Seq(1 .. frame_index_)
          /\ Len(fixed_buffer_) <= FixedFrames
      BY <2>1, SherpaAssumption DEF Init, SherpaInit
    <3>2. since \in Seq(BOOLEAN) /\ audio_buffer_ \in Seq(Chunk) /\ chunk \in Chunk
      BY <2>1 DEF Init, SherpaInit, Chunk
    <3>3. /\ state_ = "Inactivity" /\ recognition_duration_ = 0 /\ silence_duration_ = 0
          /\ frame_index_ = 0 /\ margin_buffer_ = 0 /\ received = 0 /\ pc = "idle"
          /\ result = "SILENCE" /\ last_state_ = "SILENCE"
      BY <2>1 DEF Init, SherpaInit
    <3>4. triggered_any \in BOOLEAN
      BY <2>1 DEF Init
    <3>5. /\ recognition_duration_ \in 0 .. BeginMs /\ silence_duration_ \in Int
          /\ frame_index_ \in 0 .. MaxFrames /\ margin_buffer_ \in Nat
          /\ margin_buffer_ < FrameSamples /\ received \in Nat
      BY <3>3, SherpaAssumption
    <3>6. QED
      BY <3>1, <3>2, <3>3, <3>4, <3>5 DEF TypeOK
  <2>2. ASSUME Init PROVE DurationsMeasure
    <3>1. /\ since = <<>> /\ state_ = "Inactivity" /\ recognition_duration_ = 0
      BY <2>2 DEF Init, SherpaInit
    <3>2. Active(1) = 0 /\ Inactive(1) = 0
      BY <3>1, CountsOfFew
    <3>3. QED
      BY <3>1, <3>2, SherpaAssumption DEF DurationsMeasure
  <2>3. QED
    BY <2>1, <2>2 DEF IInv
<1>2. IInv /\ [Next]_sessionVars => IInv'
  <2> SUFFICES ASSUME IInv, [Next]_sessionVars PROVE IInv'
    OBVIOUS
  <2>1. CASE UNCHANGED sessionVars
    BY <2>1
    DEF sessionVars, sherpaVars, callVars, replyVars, IInv, TypeOK, DurationsMeasure, IsWorst,
        Surplus, Active, Inactive, Count
  <2>2. QED
    BY <2>1, ProcessAudioKeeps, ProcessFrameKeeps, RespondKeeps DEF Next
<1>3. QED
  BY <1>1, <1>2, PTL DEF Spec

\* Every variable of the detector and its session keeps to its type; in particular
\* no frame waits in margin_buffer_ between calls, and fixed_buffer_ never holds more
\* than its capacity.
THEOREM Types == Spec => []TypeOK
<1>1. IInv => TypeOK
  BY DEF IInv
<1>2. QED
  BY <1>1, Invariant, PTL

\* In Activity the clamped accumulator of lines 185-196 is the worst surplus of silent
\* over active frames of any stretch of the latest ones: speech ends at the first
\* moment some stretch has StopMs more silence than speech.
THEOREM SilenceMeasured == Spec => []SilenceIsWorstSurplus
<1>1. ASSUME IInv PROVE SilenceIsWorstSurplus
  <2> SUFFICES ASSUME state_ = "Activity"
               PROVE  silence_duration_ = FrameMs *
                        Max({0} \cup {Count(FALSE, i) - Count(TRUE, i) : i \in 1 .. Len(since)})
    BY DEF SilenceIsWorstSurplus
  <2> DEFINE S == {0} \cup {Surplus(i) : i \in 1 .. Len(since)}
  <2>1. PICK m \in Nat : IsWorst(m) /\ silence_duration_ = FrameMs * m
    BY <1>1 DEF IInv, DurationsMeasure
  <2>2. \A i \in 1 .. Len(since) : Surplus(i) \in Int
    <3>1. since \in Seq(BOOLEAN) /\ \A i \in 1 .. Len(since) : i \in Nat
      BY <1>1 DEF IInv, TypeOK
    <3>2. \A i \in 1 .. Len(since) : Inactive(i) \in Nat /\ Active(i) \in Nat
      BY <3>1, CountIsNat, Zenon DEF Active, Inactive
    <3>3. QED
      BY <3>2 DEF Surplus
  <2>3. S \subseteq Int
    BY <2>2
  <2>4. m \in S /\ \A x \in S : m >= x
    BY <2>1, <2>2 DEF IsWorst
  <2>5. Max(S) = m
    <3> HIDE DEF S
    <3> QED
      BY <2>3, <2>4, MaxIsGreatest
  <2>6. S = {0} \cup {Count(FALSE, i) - Count(TRUE, i) : i \in 1 .. Len(since)}
    BY Zenon DEF Surplus, Active, Inactive
  <2>7. QED
    <3> HIDE DEF S
    <3> QED
      BY <2>1, <2>5, <2>6
<1>2. IInv => SilenceIsWorstSurplus
  BY <1>1
<1>3. QED
  BY <1>2, Invariant, PTL

\* Speech is recognised only after BeginMs of active frames, and no later than the
\* active frames, less DecayMs for every silent one, amount to BeginMs.
THEOREM OnsetMeasured == Spec => []OnsetMeasuresSpeech
<1>1. ASSUME IInv PROVE OnsetMeasuresSpeech
  <2>1. /\ since \in Seq(BOOLEAN) /\ recognition_duration_ \in Int /\ BeginMs \in Int
        /\ FrameMs \in Int /\ DecayMs \in Int
    BY <1>1, SherpaAssumption DEF IInv, TypeOK
  <2>2. Active(1) \in Nat /\ Inactive(1) \in Nat
    BY <2>1, CountIsNat, Zenon DEF Active, Inactive
  <2>3. state_ = "InactivityTransition" => FrameMs * Active(1) >= BeginMs
    BY <1>1 DEF IInv, DurationsMeasure
  <2>4. state_ = "Inactivity" => FrameMs * Active(1) - DecayMs * Inactive(1) < BeginMs
    <3>1. FrameMs * Active(1) \in Int /\ DecayMs * Inactive(1) \in Int
      BY <2>1, <2>2
    <3>2. PICK x \in Int : x = FrameMs * Active(1) - DecayMs * Inactive(1)
      BY <3>1
    <3>3. state_ = "Inactivity" => x <= recognition_duration_ /\ recognition_duration_ < BeginMs
      BY <1>1, <3>2 DEF IInv, DurationsMeasure
    <3>4. QED
      BY <2>1, <3>2, <3>3
  <2>5. QED
    BY <2>3, <2>4 DEF OnsetMeasuresSpeech, Active, Inactive
<1>2. IInv => OnsetMeasuresSpeech
  BY <1>1
<1>3. QED
  BY <1>2, Invariant, PTL

-----------------------------------------------------------------------------
(* The session and the detector agree, and the protocol.                     *)

\* Every message completes a frame. A shorter one may be answered SILENCE in the
\* middle of speech (line 70), and then the session is no longer in it.
WholeFrames == \A n \in ChunkBytes : n \div 2 >= FrameSamples

\* What a call has found so far is consistent with where the detector is; SILENCE is
\* what it found only as long as no frame was processed in Activity.
FrameTracksDetector ==
  /\ pc = "idle" => (last_state_ = "SPEAKING" <=> state_ = "Activity")
  /\ pc = "frames" =>
       /\ triggered_any <=> result \in {"START_SPEAKING", "END_SPEAKING"}
       /\ result \in {"START_SPEAKING", "SPEAKING"} => state_ = "Activity"
       /\ result = "END_SPEAKING" => state_ # "Activity"
       /\ result = "SILENCE" => /\ last_state_ = "SPEAKING" <=> state_ = "Activity"
                                /\ margin_buffer_ >= FrameSamples \/ state_ # "Activity"

\* Each frame's report keeps result in line with state_, and a reply takes it over.
LEMMA FrameTracksDetectorStep ==
  ASSUME WholeFrames, TypeOK, FrameTracksDetector, [Next]_sessionVars
  PROVE  FrameTracksDetector'
<1>1. ASSUME NEW n \in ChunkBytes, ProcessAudio(n)
      PROVE  FrameTracksDetector'
  <2>1. n \div 2 \in Nat /\ n \div 2 >= FrameSamples /\ margin_buffer_ \in Nat
    BY ChunkAssumption DEF WholeFrames, TypeOK
  <2>2. margin_buffer_ + n \div 2 >= FrameSamples
    BY <2>1, SherpaAssumption
  <2>3. QED
    BY <1>1, <2>2 DEF ProcessAudio, FrameTracksDetector, replyVars
<1>2. CASE ProcessFrame
  <2>1. PICK active \in BOOLEAN :
          \/ StillInactive(active) /\ Report("SILENCE")
          \/ Recognise(active) /\ Report("SILENCE")
          \/ VoiceBegin(active) /\ Report("START_SPEAKING")
          \/ VoiceOngoing(active) /\ Report("SPEAKING")
          \/ VoiceEnd(active) /\ Report("END_SPEAKING")
    BY <1>2 DEF ProcessFrame
  <2>2. pc = "frames" /\ pc' = "frames" /\ last_state_' = last_state_
    BY <1>2 DEF ProcessFrame, replyVars
  <2>3. CASE (StillInactive(active) \/ Recognise(active)) /\ Report("SILENCE")
    BY <2>2, <2>3
    DEF StillInactive, Recognise, SetState, Report, callVars, FrameTracksDetector
  <2>4. CASE VoiceBegin(active) /\ Report("START_SPEAKING")
    BY <2>2, <2>4 DEF VoiceBegin, SetState, Report, FrameTracksDetector
  <2>5. CASE VoiceOngoing(active) /\ Report("SPEAKING")
    BY <2>2, <2>5 DEF VoiceOngoing, Report, callVars, FrameTracksDetector
  <2>6. CASE VoiceEnd(active) /\ Report("END_SPEAKING")
    BY <2>2, <2>6 DEF VoiceEnd, SetState, Report, FrameTracksDetector
  <2>7. QED
    BY <2>1, <2>3, <2>4, <2>5, <2>6
<1>3. CASE Respond
  <2>1. margin_buffer_ \in Nat /\ ~(margin_buffer_ >= FrameSamples)
        /\ result \in {"SILENCE", "START_SPEAKING", "SPEAKING", "END_SPEAKING"}
    BY <1>3, SherpaAssumption DEF Respond, TypeOK
  <2>2. pc = "frames" /\ pc' = "idle" /\ state_' = state_
    BY <1>3 DEF Respond, sherpaVars
  <2>3. last_state_' = IF CurrentState \in {"START_SPEAKING", "SPEAKING"}
                       THEN "SPEAKING" ELSE "SILENCE"
    BY <1>3 DEF Respond
  <2>4. QED
    BY <2>1, <2>2, <2>3 DEF FrameTracksDetector, CurrentState
<1>4. CASE UNCHANGED sessionVars
  BY <1>4 DEF sessionVars, sherpaVars, callVars, replyVars, FrameTracksDetector
<1>5. QED
  BY <1>1, <1>2, <1>3, <1>4 DEF Next

\* Between calls the session is in announced speech exactly if the detector is in
\* Activity, when every message completes a frame.
THEOREM SessionAgrees ==
  ASSUME WholeFrames
  PROVE  Spec => []SessionAgreesWithDetector
<1>1. Init => FrameTracksDetector
  BY DEF Init, SherpaInit, FrameTracksDetector
<1>2. TypeOK /\ FrameTracksDetector /\ [Next]_sessionVars => FrameTracksDetector'
  BY FrameTracksDetectorStep
<1>3. FrameTracksDetector => SessionAgreesWithDetector
  BY DEF FrameTracksDetector, SessionAgreesWithDetector
<1>4. QED
  BY <1>1, <1>2, <1>3, Types, PTL DEF Spec

\* f frames may complete in a message of n bytes, with less than a frame left over
\* from the message before.
Completes(n, f) == f * FrameSamples < FrameSamples + n \div 2

\* Messages too short for speech to begin and end in one, and for speech to end and
\* the next stretch of it to be recognised and announced.
ShortMessages ==
  \A n \in ChunkBytes, f \in Nat :
    Completes(n, f) => FrameMs * f < StopMs /\ FrameMs * f < BeginMs + 2 * FrameMs

\* After f frames of a message of n bytes the loop has reported at most one change of
\* speech, for which the accumulators of the new state are still too low.
OneChange(n, f) ==
  /\ chunk = [from |-> received, to |-> received + n]
  /\ f * FrameSamples + margin_buffer_ < FrameSamples + n \div 2
  /\ result = "SPEAKING" => last_state_ = "SPEAKING"
  /\ result = "START_SPEAKING" =>
       /\ last_state_ = "SILENCE"
       /\ silence_duration_ <= FrameMs * f
  /\ result = "END_SPEAKING" =>
       /\ last_state_ = "SPEAKING"
       /\ state_ = "Inactivity" => recognition_duration_ + FrameMs <= FrameMs * f
       /\ state_ = "InactivityTransition" => BeginMs + FrameMs <= FrameMs * f

Bracketed ==
  /\ pc = "frames" => \E n \in ChunkBytes, f \in Nat : OneChange(n, f)
  /\ last_state_ = "SILENCE" => audio_buffer_ = <<>>

\* One more frame: the message has room for it, and it is not a second change.
LEMMA OneChangeStep ==
  ASSUME ShortMessages, TypeOK, FrameTracksDetector, ProcessFrame,
         NEW n \in ChunkBytes, NEW f \in Nat, OneChange(n, f)
  PROVE  OneChange(n, f + 1)'
<1>1. PICK active \in BOOLEAN :
        \/ StillInactive(active) /\ Report("SILENCE")
        \/ Recognise(active) /\ Report("SILENCE")
        \/ VoiceBegin(active) /\ Report("START_SPEAKING")
        \/ VoiceOngoing(active) /\ Report("SPEAKING")
        \/ VoiceEnd(active) /\ Report("END_SPEAKING")
  BY DEF ProcessFrame
<1>2. /\ pc = "frames" /\ last_state_' = last_state_ /\ chunk' = chunk /\ received' = received
  BY DEF ProcessFrame, replyVars
<1>3. /\ margin_buffer_ \in Nat /\ margin_buffer_ >= FrameSamples
      /\ margin_buffer_' = margin_buffer_ - FrameSamples
  BY <1>1
  DEF TypeOK, Frame, StillInactive, Recognise, VoiceBegin, VoiceOngoing, VoiceEnd
<1>4. /\ FrameSamples \in Nat /\ FrameMs \in Nat /\ BeginMs \in Nat /\ StopMs \in Nat
      /\ n \div 2 \in Nat
  BY SherpaAssumption, ChunkAssumption
<1>5. PICK fs \in Nat, ft \in Nat :
        /\ fs = f * FrameSamples /\ (f + 1) * FrameSamples = fs + FrameSamples
        /\ ft = FrameMs * f /\ FrameMs * (f + 1) = ft + FrameMs
  <2>1. /\ f * FrameSamples \in Nat /\ (f + 1) * FrameSamples = f * FrameSamples + FrameSamples
        /\ FrameMs * f \in Nat /\ FrameMs * (f + 1) = FrameMs * f + FrameMs
    BY <1>4
  <2>2. QED
    BY <2>1
<1>6. fs + margin_buffer_ < FrameSamples + n \div 2
  BY <1>5 DEF OneChange
<1>7. (f + 1) * FrameSamples + margin_buffer_' < FrameSamples + n \div 2
  BY <1>3, <1>4, <1>5, <1>6
<1>8. ft + FrameMs < StopMs /\ ft + FrameMs < BeginMs + 2 * FrameMs
  <2>1. Completes(n, f + 1)
    BY <1>3, <1>4, <1>5, <1>6 DEF Completes
  <2>2. QED
    BY <1>5, <2>1 DEF ShortMessages
<1>9. recognition_duration_ \in Nat /\ silence_duration_ \in Int
  BY SherpaAssumption DEF TypeOK
<1>10. chunk' = [from |-> received', to |-> received' + n]
  BY <1>2 DEF OneChange
<1>11. CASE (StillInactive(active) \/ Recognise(active)) /\ Report("SILENCE")
  <2>1. /\ state_ = "Inactivity" /\ result' = result
        /\ state_' = "Inactivity" => recognition_duration_' = Recognised(active)
        /\ state_' = "InactivityTransition" => Recognised(active) >= BeginMs
        /\ state_' \in {"Inactivity", "InactivityTransition"}
    BY <1>11 DEF StillInactive, Recognise, SetState, Report, callVars
  <2>2. Recognised(active) \in Nat /\ Recognised(active) <= recognition_duration_ + FrameMs
    BY <1>4, <1>9, SherpaAssumption DEF Recognised
  <2>3. ~(result \in {"SPEAKING", "START_SPEAKING"})
    BY <1>2, <2>1 DEF FrameTracksDetector
  <2>4. result = "END_SPEAKING" => /\ last_state_ = "SPEAKING"
                                   /\ recognition_duration_ + FrameMs <= ft
    BY <1>5, <2>1 DEF OneChange
  <2>5. result = "END_SPEAKING" => Recognised(active) + FrameMs <= ft + FrameMs
    BY <1>4, <1>9, <2>2, <2>4
  <2>6. result' = "END_SPEAKING" =>
          /\ last_state_' = "SPEAKING"
          /\ state_' = "Inactivity" => recognition_duration_' + FrameMs <= FrameMs * (f + 1)
    BY <1>2, <1>5, <2>1, <2>4, <2>5
  <2>7. result' = "END_SPEAKING" /\ state_' = "InactivityTransition" =>
          BeginMs + FrameMs <= FrameMs * (f + 1)
    BY <1>4, <1>5, <2>1, <2>2, <2>5
  <2>8. QED
    BY <1>7, <1>10, <2>1, <2>3, <2>6, <2>7, SherpaAssumption DEF OneChange
<1>12. CASE VoiceBegin(active) /\ Report("START_SPEAKING")
  <2>1. /\ state_ = "InactivityTransition" /\ result' = "START_SPEAKING"
        /\ silence_duration_' = IF active THEN 0 ELSE FrameMs
    BY <1>12 DEF VoiceBegin, SetState, Report
  <2>2. result # "END_SPEAKING"
    <3>1. ~(BeginMs + FrameMs <= ft)
      BY <1>4, <1>8
    <3>2. QED
      BY <1>5, <2>1, <3>1 DEF OneChange
  <2>3. last_state_ = "SILENCE"
    <3>1. result = "SILENCE"
      BY <1>2, <2>1, <2>2 DEF FrameTracksDetector, TypeOK
    <3>2. QED
      BY <1>2, <2>1, <3>1 DEF FrameTracksDetector, TypeOK
  <2>4. silence_duration_' <= FrameMs * (f + 1)
    BY <1>4, <1>5, <2>1
  <2>5. QED
    BY <1>2, <1>7, <1>10, <2>1, <2>3, <2>4, SherpaAssumption DEF OneChange
<1>13. CASE VoiceOngoing(active) /\ Report("SPEAKING")
  <2>1. /\ state_ = "Activity" /\ silence_duration_' = Silent(active)
        /\ triggered_any => result' = result
        /\ ~triggered_any => result' = "SPEAKING"
    BY <1>13 DEF VoiceOngoing, Report, callVars
  <2>2. result # "END_SPEAKING"
    BY <1>2, <2>1 DEF FrameTracksDetector
  <2>3. CASE triggered_any
    <3>1. result' = "START_SPEAKING" /\ result = "START_SPEAKING"
      BY <1>2, <2>1, <2>2, <2>3 DEF FrameTracksDetector
    <3>2. last_state_ = "SILENCE" /\ silence_duration_ <= ft
      BY <1>5, <3>1 DEF OneChange
    <3>3. Silent(active) <= ft + FrameMs
      BY <1>4, <1>9, <3>2 DEF Silent
    <3>4. QED
      BY <1>2, <1>5, <1>7, <1>10, <2>1, <3>1, <3>2, <3>3, SherpaAssumption DEF OneChange
  <2>4. CASE ~triggered_any
    <3>1. result \in {"SILENCE", "SPEAKING"} /\ result' = "SPEAKING"
      BY <1>2, <2>1, <2>4 DEF FrameTracksDetector, TypeOK
    <3>2. last_state_ = "SPEAKING"
      BY <1>2, <2>1, <3>1 DEF FrameTracksDetector, OneChange
    <3>3. QED
      BY <1>2, <1>7, <1>10, <3>1, <3>2, SherpaAssumption DEF OneChange
  <2>5. QED
    BY <2>3, <2>4
<1>14. CASE VoiceEnd(active) /\ Report("END_SPEAKING")
  <2>1. /\ state_ = "Activity" /\ state_' = "Inactivity" /\ recognition_duration_' = 0
        /\ result' = "END_SPEAKING" /\ Silent(active) >= StopMs
    BY <1>14 DEF VoiceEnd, SetState, Report
  <2>2. result # "START_SPEAKING"
    <3>1. ASSUME silence_duration_ <= ft PROVE FALSE
      <4>1. Silent(active) \in Int /\ Silent(active) <= ft + FrameMs
        BY <1>4, <1>9, <3>1 DEF Silent
      <4>2. QED
        BY <1>4, <1>8, <2>1, <4>1
    <3>2. QED
      BY <1>5, <3>1 DEF OneChange
  <2>3. last_state_ = "SPEAKING"
    <3>1. result \in {"SILENCE", "SPEAKING"}
      BY <1>2, <2>1, <2>2 DEF FrameTracksDetector, TypeOK
    <3>2. QED
      BY <1>2, <2>1, <3>1 DEF FrameTracksDetector, OneChange
  <2>4. recognition_duration_' + FrameMs <= FrameMs * (f + 1)
    BY <1>4, <1>5, <2>1
  <2>5. QED
    BY <1>2, <1>7, <1>10, <2>1, <2>3, <2>4, SherpaAssumption DEF OneChange
<1>15. QED
  BY <1>1, <1>11, <1>12, <1>13, <1>14

\* A message comes with no frame processed, and a reply leaves its audio where the
\* phase it announces needs it.
LEMMA BracketedStep ==
  ASSUME ShortMessages, TypeOK, FrameTracksDetector, Bracketed, [Next]_sessionVars
  PROVE  Bracketed'
<1>1. ASSUME NEW n \in ChunkBytes, ProcessAudio(n)
      PROVE  Bracketed'
  <2>1. n \div 2 \in Nat /\ margin_buffer_ \in Nat /\ margin_buffer_ < FrameSamples
    BY <1>1, ChunkAssumption DEF ProcessAudio, TypeOK
  <2>2. 0 * FrameSamples + margin_buffer_' < FrameSamples + n \div 2
    BY <1>1, <2>1, SherpaAssumption DEF ProcessAudio
  <2>3. OneChange(n, 0)'
    BY <1>1, <2>2 DEF ProcessAudio, OneChange
  <2>4. \E m \in ChunkBytes, f \in Nat : OneChange(m, f)'
    BY <2>3
  <2>5. QED
    BY <1>1, <2>4 DEF Bracketed, ProcessAudio, replyVars
<1>2. CASE ProcessFrame
  <2>1. PICK n \in ChunkBytes, f \in Nat : OneChange(n, f)
    BY <1>2 DEF ProcessFrame, Bracketed
  <2>2. OneChange(n, f + 1)' /\ f + 1 \in Nat
    BY <1>2, <2>1, OneChangeStep
  <2>3. \E m \in ChunkBytes, g \in Nat : OneChange(m, g)'
    BY <2>2
  <2>4. QED
    BY <1>2, <2>3 DEF Bracketed, ProcessFrame, replyVars
<1>3. CASE Respond
  BY <1>3 DEF Respond, Bracketed
<1>4. CASE UNCHANGED sessionVars
  BY <1>4 DEF sessionVars, sherpaVars, callVars, replyVars, Bracketed, OneChange
<1>5. QED
  BY <1>1, <1>2, <1>3, <1>4 DEF Next

\* A reply is one of the protocol's.
LEMMA ReplyRefines ==
  ASSUME TypeOK, FrameTracksDetector, Bracketed, Respond
  PROVE  Protocol!Next
<1>1. /\ pc = "frames" /\ received' = chunk.to
      /\ ~(margin_buffer_ >= FrameSamples)
      /\ result \in {"SILENCE", "START_SPEAKING", "SPEAKING", "END_SPEAKING"}
      /\ last_state_ \in {"SILENCE", "SPEAKING"}
  BY SherpaAssumption DEF Respond, TypeOK
<1>2. PICK n \in ChunkBytes, f \in Nat : OneChange(n, f)
  BY <1>1 DEF Bracketed
<1>3. chunk = [from |-> received, to |-> received + n] /\ received' = received + n
  BY <1>1, <1>2 DEF OneChange
<1>4. CurrentState = result
  BY <1>2 DEF CurrentState, OneChange
<1>5. /\ Protocol!Insert(<<>>, chunk) = Insert(<<>>, chunk)
      /\ Protocol!Insert(audio_buffer_, chunk) = Insert(audio_buffer_, chunk)
      /\ \A x, y : Protocol!Reply(x, y) = Reply(x, y)
  BY DEF Protocol!Insert, Insert, Protocol!Reply, Reply
<1>6. Protocol!Silence(chunk) \/ Protocol!Begin(chunk) \/ Protocol!Speaking(chunk)
      \/ Protocol!End(chunk)
  <2>1. CASE result = "START_SPEAKING"
    <3>1. last_state_ = "SILENCE"
      BY <1>2, <2>1 DEF OneChange
    <3>2. /\ reply' = Reply("VAD_BEGIN", Insert(<<>>, chunk))
          /\ audio_buffer_' = Insert(<<>>, chunk) /\ last_state_' = "SPEAKING"
      BY <1>4, <2>1 DEF Respond, Buffered
    <3>3. QED
      BY <1>5, <3>1, <3>2 DEF Protocol!Begin
  <2>2. CASE result = "SPEAKING"
    <3>1. last_state_ = "SPEAKING"
      BY <1>2, <2>2 DEF OneChange
    <3>2. /\ reply' = Reply("SPEAKING", Insert(<<>>, chunk))
          /\ audio_buffer_' = Insert(audio_buffer_, chunk) /\ last_state_' = "SPEAKING"
      BY <1>4, <2>2 DEF Respond, Buffered
    <3>3. QED
      BY <1>5, <3>1, <3>2 DEF Protocol!Speaking
  <2>3. CASE result = "END_SPEAKING"
    <3>1. last_state_ = "SPEAKING"
      BY <1>2, <2>3 DEF OneChange
    <3>2. /\ reply' = Reply("VAD_END", Insert(audio_buffer_, chunk))
          /\ audio_buffer_' = <<>> /\ last_state_' = "SILENCE"
      BY <1>4, <2>3 DEF Respond, Buffered
    <3>3. QED
      BY <1>5, <3>1, <3>2 DEF Protocol!End
  <2>4. CASE result = "SILENCE"
    <3>1. last_state_ = "SILENCE" /\ audio_buffer_ = <<>>
      BY <1>1, <2>4 DEF FrameTracksDetector, Bracketed
    <3>2. /\ reply' = Reply("SILENCE", <<>>)
          /\ audio_buffer_' = <<>> /\ last_state_' = "SILENCE"
      BY <1>4, <2>4 DEF Respond, Buffered
    <3>3. QED
      BY <1>5, <3>1, <3>2 DEF Protocol!Silence
  <2>5. QED
    BY <1>1, <2>1, <2>2, <2>3, <2>4
<1>7. QED
  BY <1>3, <1>6, Zenon DEF Protocol!Next

\* With this engine too a client sees the protocol of VadProtocol, for messages of at
\* least one frame that are too short for two changes of speech.
THEOREM SessionImplementsProtocol ==
  ASSUME WholeFrames, ShortMessages
  PROVE  Spec => ImplementsProtocol
<1>1. Init => FrameTracksDetector /\ Bracketed /\ Protocol!Init
  BY DEF Init, SherpaInit, FrameTracksDetector, Bracketed, Protocol!Init, Protocol!Reply, Reply
<1>2. TypeOK /\ FrameTracksDetector /\ Bracketed /\ [Next]_sessionVars
        => FrameTracksDetector' /\ Bracketed'
  BY FrameTracksDetectorStep, BracketedStep
<1>3. TypeOK /\ FrameTracksDetector /\ Bracketed /\ [Next]_sessionVars
        => [Protocol!Next]_(Protocol!protocolVars)
  <2> SUFFICES ASSUME TypeOK, FrameTracksDetector, Bracketed, [Next]_sessionVars
               PROVE  [Protocol!Next]_(Protocol!protocolVars)
    OBVIOUS
  <2>1. CASE \/ \E n \in ChunkBytes : ProcessAudio(n)
             \/ ProcessFrame
             \/ UNCHANGED sessionVars
    BY <2>1 DEF ProcessAudio, ProcessFrame, sessionVars, replyVars, Protocol!protocolVars
  <2>2. CASE Respond
    BY <2>2, ReplyRefines
  <2>3. QED
    BY <2>1, <2>2 DEF Next
<1>4. QED
  BY <1>1, <1>2, <1>3, Types, PTL DEF Spec, ImplementsProtocol, Protocol!Spec
=============================================================================
