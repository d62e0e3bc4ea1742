----------------------------- MODULE SherpaVad -----------------------------
(***************************************************************************)
(* SherpaVadDetector (include/sherpa_vad_detector.h,                       *)
(* src/sherpa_vad_detector.cpp): the second implementation of IVadEngine,  *)
(* a port of the Go detector test/vad.go. It cuts audio into frames of     *)
(* 20 ms, asks VadIterator only for each frame's probability, and decides  *)
(* on speech by two durations of its own.                                  *)
(*                                                                         *)
(* The model is external: whether a frame's probability reaches 0.5 is a   *)
(* free choice. Durations are integers: the code's floats are multiples of *)
(* 10 below 2^24, which a float holds exactly.                             *)
(***************************************************************************)
EXTENDS Integers, Sequences

CONSTANTS
  FrameSamples,   \* frame_size_samples_
  FrameMs,        \* frame_duration_ms_
  DecayMs,        \* what a silent frame takes from recognition_duration_: 10
  BeginMs,        \* vad_voice_begin_duration_ms_
  StopMs,         \* vad_voice_stop_duration_ms_
  FixedFrames,    \* fixed_buffer_capacity_, in frames
  MaxFrames       \* bound: frames processed since the last reset

ASSUME SherpaAssumption ==
  /\ FrameSamples \in Nat \ {0}
  /\ FrameMs \in Nat /\ DecayMs \in 0 .. FrameMs
  /\ BeginMs \in Nat \ {0} /\ StopMs \in Nat \ {0}
  /\ FixedFrames \in Nat \ {0} /\ MaxFrames \in Nat

VARIABLES
  state_, recognition_duration_, silence_duration_, frame_index_,
  margin_buffer_,   \* the number of samples in it
  fixed_buffer_,    \* the numbers of the frames in it
  since             \* history: was each frame since the latest set_state() active?

sherpaVars == <<state_, recognition_duration_, silence_duration_, frame_index_,
                margin_buffer_, fixed_buffer_, since>>

SherpaInit ==
  /\ state_ = "Inactivity"
  /\ recognition_duration_ = 0 /\ silence_duration_ = 0
  /\ frame_index_ = 0
  /\ margin_buffer_ = 0 /\ fixed_buffer_ = <<>>
  /\ since = <<>>

\* set_state(), for a state entered with this silence and these frames.
SetState(s, silence, frames) ==
  /\ state_' = s
  /\ recognition_duration_' = 0
  /\ silence_duration_' = silence
  /\ since' = frames

\* recognition_duration_ after one more frame of Inactivity.
Recognised(active) ==
  IF active THEN recognition_duration_ + FrameMs
  ELSE IF recognition_duration_ >= FrameMs THEN recognition_duration_ - DecayMs
  ELSE recognition_duration_

\* Mutant of Silent: without the clamp of lines 194-196.
SilentUnclamped(active) ==
  IF active THEN silence_duration_ - FrameMs ELSE silence_duration_ + FrameMs

\* silence_duration_ after one more frame of Activity.
Silent(active) ==
  IF ~active THEN silence_duration_ + FrameMs
  ELSE IF silence_duration_ > FrameMs THEN silence_duration_ - FrameMs
  ELSE 0

\* Mutant of Keep: the frame is dropped before the new one counts.
KeepOneMore(buffer, frame) ==
  Append(IF Len(buffer) > FixedFrames THEN Tail(buffer) ELSE buffer, frame)

\* Lines 142-145 and 168-171: the newest frames, up to the capacity.
Keep(buffer, frame) ==
  LET all == Append(buffer, frame)
  IN SubSeq(all, (IF Len(all) > FixedFrames THEN Len(all) - FixedFrames ELSE 0) + 1, Len(all))

-----------------------------------------------------------------------------
(* process_internal(), one action per case. Next is the frame itself: one    *)
(* frame leaves margin_buffer_ and is predicted on.                          *)

Frame ==
  /\ margin_buffer_ >= FrameSamples
  /\ frame_index_ < MaxFrames
  /\ margin_buffer_' = margin_buffer_ - FrameSamples
  /\ frame_index_' = frame_index_ + 1

\* Mutant of StillInactive: the bound of line 156 is exclusive.
StillInactiveAtBegin(active) ==
  /\ Frame
  /\ state_ = "Inactivity"
  /\ Recognised(active) <= BeginMs
  /\ recognition_duration_' = Recognised(active)
  /\ silence_duration_' = silence_duration_ + (IF active THEN 0 ELSE FrameMs)
  /\ fixed_buffer_' = Keep(fixed_buffer_, frame_index_')
  /\ since' = Append(since, active)
  /\ UNCHANGED state_

\* Lines 140-154 and 161-164. emit_voice_silent() after 15 s of silence is
\* SILENCE, as is falling through to line 208.
StillInactive(active) ==
  /\ Frame
  /\ state_ = "Inactivity"
  /\ Recognised(active) < BeginMs
  /\ recognition_duration_' = Recognised(active)
  /\ silence_duration_' = silence_duration_ + (IF active THEN 0 ELSE FrameMs)
  /\ fixed_buffer_' = Keep(fixed_buffer_, frame_index_')
  /\ since' = Append(since, active)
  /\ UNCHANGED state_

\* Lines 156-160: the frame that makes it speech is itself still SILENCE.
Recognise(active) ==
  /\ Frame
  /\ state_ = "Inactivity"
  /\ Recognised(active) >= BeginMs
  /\ SetState("InactivityTransition", 0, Append(since, active))
  /\ fixed_buffer_' = Keep(fixed_buffer_, frame_index_')

\* Lines 166-183: START_SPEAKING, one frame later.
VoiceBegin(active) ==
  /\ Frame
  /\ state_ = "InactivityTransition"
  /\ SetState("Activity", IF active THEN 0 ELSE FrameMs, <<active>>)
  /\ fixed_buffer_' = Keep(fixed_buffer_, frame_index_')

\* Lines 185-196 and 203-205: SPEAKING.
VoiceOngoing(active) ==
  /\ Frame
  /\ state_ = "Activity"
  /\ Silent(active) < StopMs
  /\ silence_duration_' = Silent(active)
  /\ since' = Append(since, active)
  /\ UNCHANGED <<state_, recognition_duration_, fixed_buffer_>>

\* Lines 198-201: END_SPEAKING.
VoiceEnd(active) ==
  /\ Frame
  /\ state_ = "Activity"
  /\ Silent(active) >= StopMs
  /\ SetState("Inactivity", 0, <<>>)
  /\ UNCHANGED fixed_buffer_
=============================================================================
