--------------------------- MODULE SherpaSession ---------------------------
(***************************************************************************)
(* A Session (src/session.cpp) whose vad_engine_ is a SherpaVadDetector    *)
(* instead of the SileroVadEngine it is built with: session.h includes it  *)
(* and holds any IVadEngine, so this is what swapping the engine would     *)
(* give. A call of process_audio() is the split of the message, one        *)
(* process_internal() per whole frame, and the reply.                      *)
(***************************************************************************)
EXTENDS SherpaVad, VadReplies, FiniteSetsExt

CONSTANT ChunkBytes   \* message sizes, in bytes

ASSUME ChunkAssumption == ChunkBytes \subseteq Nat

VARIABLES
  received,        \* bytes of the messages answered so far
  chunk,           \* raw_data of the latest call
  pc,              \* "idle", or "frames": inside process_audio()
  result,          \* last_result.state
  triggered_any,
  last_state_, audio_buffer_,
  reply            \* the latest JSON reply

callVars == <<result, triggered_any>>
replyVars == <<last_state_, audio_buffer_, reply>>
sessionVars == <<sherpaVars, callVars, replyVars, received, chunk, pc>>

Init ==
  /\ SherpaInit
  /\ received = 0 /\ chunk = [from |-> 0, to |-> 0] /\ pc = "idle"
  /\ result = "SILENCE" /\ triggered_any = FALSE
  /\ last_state_ = "SILENCE" /\ audio_buffer_ = <<>>
  /\ reply = Reply("none", <<>>)

-----------------------------------------------------------------------------
\* process_audio() up to process_frame()'s loop. With less than a whole frame
\* in margin_buffer_ the result is SILENCE, whatever the state.
ProcessAudio(n) ==
  /\ pc = "idle"
  /\ frame_index_ * FrameSamples + margin_buffer_ + n \div 2 < (MaxFrames + 1) * FrameSamples
  /\ chunk' = [from |-> received, to |-> received + n]
  /\ margin_buffer_' = margin_buffer_ + n \div 2
  /\ result' = "SILENCE" /\ triggered_any' = FALSE
  /\ pc' = "frames"
  /\ UNCHANGED <<replyVars, received, state_, recognition_duration_,
                 silence_duration_, frame_index_, fixed_buffer_, since>>

\* Mutants of Report: the latest frame's result counts; END is overlooked.
ReportLatest(res) == result' = res /\ triggered_any' = FALSE
ReportWithoutEnd(res) ==
  \/ /\ res = "START_SPEAKING"
     /\ result' = res /\ triggered_any' = TRUE
  \/ /\ res = "SPEAKING" /\ ~triggered_any
     /\ result' = res /\ UNCHANGED triggered_any
  \/ /\ res \in {"SILENCE", "END_SPEAKING"} \/ (res = "SPEAKING" /\ triggered_any)
     /\ UNCHANGED callVars

\* The loop prefers START and END to SPEAKING, and a later one to an earlier.
Report(res) ==
  \/ /\ res \in {"START_SPEAKING", "END_SPEAKING"}
     /\ result' = res /\ triggered_any' = TRUE
  \/ /\ res = "SPEAKING" /\ ~triggered_any
     /\ result' = res /\ UNCHANGED triggered_any
  \/ /\ res = "SILENCE" \/ (res = "SPEAKING" /\ triggered_any)
     /\ UNCHANGED callVars

\* One iteration of process_frame()'s loop.
ProcessFrame ==
  /\ pc = "frames"
  /\ \E active \in BOOLEAN :
       \/ StillInactive(active) /\ Report("SILENCE")
       \/ Recognise(active) /\ Report("SILENCE")
       \/ VoiceBegin(active) /\ Report("START_SPEAKING")
       \/ VoiceOngoing(active) /\ Report("SPEAKING")
       \/ VoiceEnd(active) /\ Report("END_SPEAKING")
  /\ UNCHANGED <<replyVars, received, chunk, pc>>

\* The session's view of the result: speech it has not announced starts now.
CurrentState ==
  IF result = "SPEAKING" /\ last_state_ = "SILENCE" THEN "START_SPEAKING" ELSE result

\* audio_buffer_ when the reply is built.
Buffered == [START_SPEAKING |-> Insert(<<>>, chunk),
             SPEAKING |-> Insert(audio_buffer_, chunk),
             END_SPEAKING |-> Insert(audio_buffer_, chunk),
             SILENCE |-> <<>>]

\* The rest of process_audio().
Respond ==
  /\ pc = "frames"
  /\ margin_buffer_ < FrameSamples
  /\ LET whole == Buffered[CurrentState] IN
       \/ /\ CurrentState \in {"START_SPEAKING", "SPEAKING"}
          /\ reply' = Reply(IF CurrentState = "SPEAKING" THEN "SPEAKING" ELSE "VAD_BEGIN",
                            Insert(<<>>, chunk))
          /\ audio_buffer_' = whole
          /\ last_state_' = "SPEAKING"
       \/ /\ CurrentState \in {"END_SPEAKING", "SILENCE"}
          /\ reply' = Reply(IF CurrentState = "SILENCE" THEN "SILENCE" ELSE "VAD_END", whole)
          /\ audio_buffer_' = <<>>
          /\ last_state_' = "SILENCE"
  /\ received' = chunk.to
  /\ pc' = "idle"
  /\ UNCHANGED <<sherpaVars, callVars, chunk>>

Next ==
  \/ \E n \in ChunkBytes : ProcessAudio(n)
  \/ ProcessFrame
  \/ Respond

Spec == Init /\ [][Next]_sessionVars

-----------------------------------------------------------------------------
TypeOK ==
  /\ state_ \in {"Inactivity", "InactivityTransition", "Activity"}
  /\ recognition_duration_ \in 0 .. BeginMs /\ silence_duration_ \in Int
  /\ frame_index_ \in 0 .. MaxFrames
  /\ margin_buffer_ \in Nat /\ (pc = "idle" => margin_buffer_ < FrameSamples)
  /\ Len(fixed_buffer_) <= FixedFrames
  /\ fixed_buffer_ \in Seq(1 .. frame_index_)
  /\ since \in Seq(BOOLEAN)
  /\ received \in Nat /\ chunk \in Chunk
  /\ pc \in {"idle", "frames"}
  /\ result \in {"SILENCE", "START_SPEAKING", "SPEAKING", "END_SPEAKING"}
  /\ triggered_any \in BOOLEAN
  /\ last_state_ \in {"SILENCE", "SPEAKING"}
  /\ audio_buffer_ \in Seq(Chunk)

\* How many of the frames from the i-th since the latest set_state() were (not) active.
Count(active, i) == Cardinality({k \in i .. Len(since) : since[k] = active})

\* silence_duration_ is an accumulator with a floor, updated frame by frame. What it
\* measures: in Activity, the worst surplus of silent over active frames among the
\* latest so many, for any number of them. So speech ends at the first moment some
\* stretch of the latest frames has StopMs more silence than speech, and not before.
SilenceIsWorstSurplus ==
  state_ = "Activity" =>
    silence_duration_ =
      FrameMs * Max({0} \cup {Count(FALSE, i) - Count(TRUE, i) : i \in 1 .. Len(since)})

\* recognition_duration_ forgets slowly: speech is recognised only after BeginMs of
\* active frames in all, and in Inactivity never lacks more than DecayMs per silent
\* frame: frames mostly active are recognised in time.
OnsetMeasuresSpeech ==
  /\ state_ = "InactivityTransition" => FrameMs * Count(TRUE, 1) >= BeginMs
  /\ state_ = "Inactivity" => FrameMs * Count(TRUE, 1) - DecayMs * Count(FALSE, 1) < BeginMs

\* Between calls the session's last_state_ is the detector's, for messages of at
\* least one frame: a shorter one may be answered SILENCE in the middle of speech.
SessionAgreesWithDetector ==
  pc = "idle" => (last_state_ = "SPEAKING" <=> state_ = "Activity")

\* For such messages, when they are also too short for speech to begin and end, or to
\* end and begin again, the client's protocol holds whichever engine the session has.
Protocol == INSTANCE VadProtocol WITH phase <- last_state_, segment <- audio_buffer_
ImplementsProtocol == Protocol!Spec
=============================================================================
