----------------------------- MODULE VadSession -----------------------------
(***************************************************************************)
(* One connection's Session (src/session.cpp) with its SileroVadEngine     *)
(* (include/vad_engine.h) and VadIterator: how messages of audio of any    *)
(* size become detector windows, and windows become replies.               *)
(*                                                                         *)
(* A call of process_audio() runs on the worker thread alone; its steps    *)
(* are the split of the message, one Predict of VadIterator per complete   *)
(* window, and the reply. The service streams, so mode stays "stream".     *)
(* new_session_, a clock reading that only the reply it is made for uses,  *)
(* is left out.                                                            *)
(***************************************************************************)
EXTENDS VadIterator, VadReplies

CONSTANT ChunkBytes   \* message sizes, in bytes

ASSUME ChunkAssumption == ChunkBytes \subseteq Nat

VARIABLES
  received,       \* bytes of the messages answered so far
  chunk,          \* raw_data of the latest call
  pc,             \* "idle", or "windows": inside process_audio()
  buffer_,        \* SileroVadEngine::buffer_, the number of samples in it
  result,         \* VadResult::state of process_frame()
  last_state_, audio_buffer_,
  reply,          \* the latest JSON reply
  begins, ends    \* history: VAD_BEGIN and VAD_END replies so far

engineVars == <<buffer_, result>>
replyVars == <<last_state_, audio_buffer_, reply, begins, ends>>
sessionVars == <<iterVars, engineVars, replyVars, received, chunk, pc>>

Init ==
  /\ IterInit
  /\ received = 0 /\ chunk = [from |-> 0, to |-> 0] /\ pc = "idle"
  /\ buffer_ = 0 /\ result = "SILENCE"
  /\ last_state_ = "SILENCE" /\ audio_buffer_ = <<>>
  /\ reply = Reply("none", <<>>)
  /\ begins = 0 /\ ends = 0

-----------------------------------------------------------------------------
\* Pairs of bytes are samples; a last odd byte is dropped.
Samples(n) == n \div 2

\* process_audio() up to the engine's loop.
ProcessAudio(n) ==
  /\ pc = "idle"
  /\ heard + buffer_ + Samples(n) <= MaxSamples
  /\ chunk' = [from |-> received, to |-> received + n]
  /\ buffer_' = buffer_ + Samples(n)
  /\ result' = "SILENCE"
  /\ pc' = "windows"
  /\ UNCHANGED <<iterVars, replyVars, received>>

\* Mutant of FrameState: the end of speech is not looked for.
FrameStateWithoutEnd ==
  IF ~triggered /\ triggered' THEN "START_SPEAKING"
  ELSE IF triggered' THEN "SPEAKING"
  ELSE result

\* The state of a frame after one more window: triggered is was_triggered and
\* triggered' is is_triggered.
FrameState ==
  IF ~triggered /\ triggered' THEN "START_SPEAKING"
  ELSE IF triggered /\ ~triggered' THEN "END_SPEAKING"
  ELSE IF triggered' THEN "SPEAKING"
  ELSE result

\* Mutant of ProcessWindow: predict on an incomplete window.
ProcessPartialWindow ==
  /\ pc = "windows"
  /\ buffer_ > 0
  /\ buffer_' = buffer_ - Window
  /\ Predict
  /\ result' = FrameState
  /\ UNCHANGED <<replyVars, received, chunk, pc>>

\* One iteration of process_frame()'s loop.
ProcessWindow ==
  /\ pc = "windows"
  /\ buffer_ >= Window
  /\ buffer_' = buffer_ - Window
  /\ Predict
  /\ result' = FrameState
  /\ UNCHANGED <<replyVars, received, chunk, pc>>

\* Mutant of Result: without lines 88-90.
ResultOfWindows == result

\* process_frame()'s result when the loop is over.
Result == IF result = "SILENCE" /\ triggered THEN "SPEAKING" ELSE result

\* The session's view of it: speech it has not announced starts now.
CurrentState ==
  IF Result = "SPEAKING" /\ last_state_ = "SILENCE" THEN "START_SPEAKING" ELSE Result

\* The rest of process_audio(), one action per branch.
Respond(state) ==
  /\ pc = "windows"
  /\ buffer_ < Window
  /\ CurrentState = state
  /\ received' = chunk.to
  /\ pc' = "idle"
  /\ UNCHANGED <<iterVars, engineVars, chunk>>

\* Mutant of StartSpeaking: the message that triggered is not buffered.
StartSpeakingUnbuffered ==
  /\ Respond("START_SPEAKING")
  /\ audio_buffer_' = <<>>
  /\ reply' = Reply("VAD_BEGIN", Insert(<<>>, chunk))
  /\ last_state_' = "SPEAKING"
  /\ begins' = begins + 1
  /\ UNCHANGED ends

StartSpeaking ==
  /\ Respond("START_SPEAKING")
  /\ audio_buffer_' = Insert(<<>>, chunk)
  /\ reply' = Reply("VAD_BEGIN", Insert(<<>>, chunk))
  /\ last_state_' = "SPEAKING"
  /\ begins' = begins + 1
  /\ UNCHANGED ends

Speaking ==
  /\ Respond("SPEAKING")
  /\ audio_buffer_' = Insert(audio_buffer_, chunk)
  /\ reply' = Reply("SPEAKING", Insert(<<>>, chunk))
  /\ last_state_' = "SPEAKING"
  /\ UNCHANGED <<begins, ends>>

\* Mutant of EndSpeaking: the buffer is not cleared.
EndSpeakingUncleared ==
  /\ Respond("END_SPEAKING")
  /\ audio_buffer_' = Insert(audio_buffer_, chunk)
  /\ reply' = Reply("VAD_END", audio_buffer_')
  /\ last_state_' = "SILENCE"
  /\ ends' = ends + 1
  /\ UNCHANGED begins

EndSpeaking ==
  /\ Respond("END_SPEAKING")
  /\ reply' = Reply("VAD_END", Insert(audio_buffer_, chunk))
  /\ audio_buffer_' = <<>>
  /\ last_state_' = "SILENCE"
  /\ ends' = ends + 1
  /\ UNCHANGED begins

Silence ==
  /\ Respond("SILENCE")
  /\ audio_buffer_' = <<>>
  /\ reply' = Reply("SILENCE", <<>>)
  /\ last_state_' = "SILENCE"
  /\ UNCHANGED <<begins, ends>>

SessionNext ==
  \/ \E n \in ChunkBytes : ProcessAudio(n)
  \/ ProcessWindow
  \/ StartSpeaking \/ Speaking \/ EndSpeaking \/ Silence

SessionSpec == Init /\ [][SessionNext]_sessionVars

-----------------------------------------------------------------------------
SessionTypeOK ==
  /\ TypeOK /\ mode = "stream"
  /\ received \in Nat /\ chunk \in Chunk
  /\ pc \in {"idle", "windows"}
  /\ buffer_ \in 0 .. MaxSamples
  /\ result \in {"SILENCE", "START_SPEAKING", "SPEAKING", "END_SPEAKING"}
  /\ last_state_ \in {"SILENCE", "SPEAKING"}
  /\ audio_buffer_ \in Seq(Chunk)
  /\ reply.vad_state \in {"none", "SILENCE", "VAD_BEGIN", "SPEAKING", "VAD_END"}
  /\ reply.vad_audio \in Seq(Chunk)
  /\ begins \in Nat /\ ends \in Nat

\* Between calls the session's last_state_ is the detector's: however many state
\* changes one message contained, the overwritten results never leave the session
\* announcing speech the detector has closed, or silent about speech it has open.
SessionAgreesWithDetector ==
  pc = "idle" => (last_state_ = "SPEAKING" <=> triggered)

\* The client hears of every segment: between calls it has had one VAD_BEGIN for
\* every segment opened and one VAD_END for every segment recorded.
EverySegmentReported ==
  pc = "idle" => /\ ends = Len(speeches)
                 /\ begins = Len(speeches) + (IF triggered THEN 1 ELSE 0)

\* VAD_END carries gap-free audio up to the end of the detected segment, from less
\* than one window after its start: what is missing is at most the part of the
\* onset window that arrived in messages before VAD_BEGIN's.
EndCarriesSegment ==
  pc = "idle" /\ reply.vad_state = "VAD_END" =>
    LET audio == reply.vad_audio
        found == speeches[Len(speeches)]
    IN /\ Len(audio) = 1
       /\ audio[1].from - 2 * found.start < 2 * Window
       /\ audio[1].to >= 2 * found.end

\* VAD_BEGIN is sent by the very message that completes the onset window: the window's
\* last byte is in it and not in an earlier one, and nothing was decided before it came.
BeginIsPrompt ==
  pc = "idle" /\ reply.vad_state = "VAD_BEGIN" =>
    LET windowEnd == 2 * (current_speech.start + Window)
    IN chunk.from < windowEnd /\ windowEnd <= chunk.to

\* The protocol: see VadProtocol.
Protocol == INSTANCE VadProtocol WITH phase <- last_state_, segment <- audio_buffer_
ImplementsProtocol == Protocol!Spec

\* What README.md says of the end state: vad_audio holds the complete audio
\* accumulated for the speech segment.
EndIsComplete ==
  pc = "idle" /\ reply.vad_state = "VAD_END" =>
    reply.vad_audio[1].from <= 2 * speeches[Len(speeches)].start
=============================================================================
