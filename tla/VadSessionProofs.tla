-------------------------- MODULE VadSessionProofs --------------------------
(***************************************************************************)
(* Proofs about VadSession: that it agrees with its detector and what its  *)
(* replies carry, for messages of every size; the refinement of            *)
(* VadProtocol and the count of replies, for messages of at most one       *)
(* window. What they need of the detector is inherited from                *)
(* VadIteratorProofs: a session is a stream.                               *)
(***************************************************************************)
EXTENDS VadSession, VadIteratorProofs, SharedLemmas, TLAPS

States == {"SILENCE", "START_SPEAKING", "SPEAKING", "END_SPEAKING"}

\* What a call has found so far is consistent with where the detector is, however
\* many results it has overwritten.
FrameTracksDetector ==
  /\ pc \in {"idle", "windows"}
  /\ result \in States
  /\ last_state_ \in {"SILENCE", "SPEAKING"}
  /\ pc = "idle" => (last_state_ = "SPEAKING" <=> triggered)
  /\ pc = "windows" =>
       /\ result = "SILENCE" => (last_state_ = "SPEAKING" <=> triggered)
       /\ result \in {"START_SPEAKING", "SPEAKING"} => triggered
       /\ result = "END_SPEAKING" => ~triggered

\* A window's result says where the detector is after it, and a reply takes it over.
LEMMA FrameTracksDetectorStep ==
  ASSUME FrameTracksDetector, [SessionNext]_sessionVars
  PROVE  FrameTracksDetector'
  <1>1. ASSUME NEW n \in ChunkBytes, ProcessAudio(n)
        PROVE  FrameTracksDetector'
    BY <1>1 DEF FrameTracksDetector, States, ProcessAudio, replyVars, iterVars
  <1>2. CASE ProcessWindow
    BY <1>2 DEF FrameTracksDetector, States, ProcessWindow, FrameState, replyVars
  <1>3. CASE StartSpeaking
    BY <1>3 DEF FrameTracksDetector, States, StartSpeaking, Respond, CurrentState,
                Result, iterVars, engineVars
  <1>4. CASE Speaking
    BY <1>4 DEF FrameTracksDetector, States, Speaking, Respond, CurrentState, Result,
                iterVars, engineVars
  <1>5. CASE EndSpeaking
    BY <1>5 DEF FrameTracksDetector, States, EndSpeaking, Respond, CurrentState,
                Result, iterVars, engineVars
  <1>6. CASE Silence
    BY <1>6 DEF FrameTracksDetector, States, Silence, Respond, CurrentState, Result,
                iterVars, engineVars
  <1>7. CASE UNCHANGED sessionVars
    BY <1>7 DEF FrameTracksDetector, sessionVars, iterVars, engineVars, replyVars
  <1> QED
    BY <1>1, <1>2, <1>3, <1>4, <1>5, <1>6, <1>7 DEF SessionNext

\* After every call the session has announced speech exactly if the detector is in
\* speech, for messages of every size and whatever the detector found in them.
THEOREM SessionAgrees == SessionSpec => []SessionAgreesWithDetector
  <1>1. Init => FrameTracksDetector
    BY DEF Init, IterInit, FrameTracksDetector, States
  <1>2. FrameTracksDetector /\ [SessionNext]_sessionVars => FrameTracksDetector'
    BY FrameTracksDetectorStep
  <1>3. FrameTracksDetector => SessionAgreesWithDetector
    BY DEF FrameTracksDetector, SessionAgreesWithDetector
  <1> QED
    BY <1>1, <1>2, <1>3, PTL DEF SessionSpec

-----------------------------------------------------------------------------
(* The refinement of VadProtocol.                                            *)

SmallMessages == \A n \in ChunkBytes : Samples(n) <= Window

\* A call completes one window at most, so its result is the first it found: a start
\* with no speech announced, or a continuation or an end of announced speech.
OneWindow ==
  /\ buffer_ \in Nat
  /\ pc = "idle" => buffer_ < Window
  /\ pc = "windows" =>
       /\ buffer_ < 2 * Window
       /\ buffer_ >= Window => result = "SILENCE"
       /\ result = "START_SPEAKING" => last_state_ = "SILENCE"
       /\ result \in {"SPEAKING", "END_SPEAKING"} => last_state_ = "SPEAKING"
       /\ \E n \in ChunkBytes : chunk = [from |-> received, to |-> received + n]
  /\ last_state_ = "SILENCE" => audio_buffer_ = <<>>

RefInv == FrameTracksDetector /\ OneWindow

\* A call's second window would need a message of more than a window.
LEMMA OneWindowStep ==
  ASSUME SmallMessages, RefInv, [SessionNext]_sessionVars
  PROVE  OneWindow'
  <1> USE DEF RefInv
  <1>1. ASSUME NEW n \in ChunkBytes, ProcessAudio(n)
        PROVE  OneWindow'
    <2>1. Samples(n) \in Nat /\ Samples(n) <= Window
      BY ChunkAssumption DEF SmallMessages, Samples
    <2>2. /\ pc = "idle" /\ pc' = "windows" /\ result' = "SILENCE"
          /\ buffer_' = buffer_ + Samples(n)
          /\ chunk' = [from |-> received, to |-> received + n] /\ received' = received
          /\ last_state_' = last_state_ /\ audio_buffer_' = audio_buffer_
      BY <1>1 DEF ProcessAudio, replyVars
    <2>3. buffer_' \in Nat /\ buffer_' < 2 * Window
      BY <2>1, <2>2, IteratorAssumption DEF OneWindow
    <2> QED
      BY <2>2, <2>3 DEF OneWindow
  <1>2. CASE ProcessWindow
    <2>1. /\ pc = "windows" /\ buffer_ >= Window /\ buffer_' = buffer_ - Window
          /\ result' = FrameState
          /\ pc' = pc /\ chunk' = chunk /\ received' = received
          /\ last_state_' = last_state_ /\ audio_buffer_' = audio_buffer_
      BY <1>2 DEF ProcessWindow, replyVars
    <2>2. buffer_' \in Nat /\ buffer_' < Window
      BY <2>1, IteratorAssumption DEF OneWindow
    <2>3. result = "SILENCE" /\ (last_state_ = "SPEAKING" <=> triggered)
      BY <2>1 DEF OneWindow, FrameTracksDetector
    <2>4. /\ result' = "START_SPEAKING" => last_state_' = "SILENCE"
          /\ result' \in {"SPEAKING", "END_SPEAKING"} => last_state_' = "SPEAKING"
      BY <2>1, <2>3 DEF FrameState, FrameTracksDetector
    <2>5. buffer_' < 2 * Window /\ ~(buffer_' >= Window)
      BY <2>2, IteratorAssumption
    <2> QED
      BY <2>1, <2>2, <2>4, <2>5 DEF OneWindow
  <1>3. CASE StartSpeaking \/ Speaking \/ EndSpeaking \/ Silence
    BY <1>3 DEF OneWindow, StartSpeaking, Speaking, EndSpeaking, Silence, Respond,
                engineVars
  <1>4. CASE UNCHANGED sessionVars
    BY <1>4 DEF OneWindow, sessionVars, engineVars, replyVars
  <1> QED
    BY <1>1, <1>2, <1>3, <1>4 DEF SessionNext

\* Each branch that builds a reply is the action of that name in VadProtocol.
LEMMA ReplyRefines ==
  ASSUME RefInv, StartSpeaking \/ Speaking \/ EndSpeaking \/ Silence
  PROVE  Protocol!Next
  <1>1. pc = "windows" /\ received' = chunk.to
    BY DEF StartSpeaking, Speaking, EndSpeaking, Silence, Respond
  <1>2. PICK n \in ChunkBytes : chunk = [from |-> received, to |-> received + n]
    BY <1>1 DEF RefInv, OneWindow
  <1>3. Protocol!Silence(chunk) \/ Protocol!Begin(chunk) \/ Protocol!Speaking(chunk)
        \/ Protocol!End(chunk)
    <2>1. CASE StartSpeaking
      <3>1. last_state_ = "SILENCE"
        BY <2>1, <1>1 DEF StartSpeaking, Respond, CurrentState, Result, RefInv, OneWindow
      <3> QED
        BY <2>1, <3>1 DEF StartSpeaking, Protocol!Begin, Protocol!Insert, Insert,
                          Protocol!Reply, Reply
    <2>2. CASE Speaking
      <3>1. last_state_ = "SPEAKING"
        BY <2>2 DEF Speaking, Respond, CurrentState, RefInv, FrameTracksDetector
      <3> QED
        BY <2>2, <3>1 DEF Speaking, Protocol!Speaking, Protocol!Insert, Insert,
                          Protocol!Reply, Reply
    <2>3. CASE EndSpeaking
      <3>1. last_state_ = "SPEAKING"
        BY <2>3, <1>1 DEF EndSpeaking, Respond, CurrentState, Result, RefInv, OneWindow
      <3> QED
        BY <2>3, <3>1 DEF EndSpeaking, Protocol!End, Protocol!Insert, Insert,
                          Protocol!Reply, Reply
    <2>4. CASE Silence
      <3>1. last_state_ = "SILENCE" /\ audio_buffer_ = <<>>
        BY <2>4, <1>1 DEF Silence, Respond, CurrentState, Result, RefInv, OneWindow,
                          FrameTracksDetector
      <3> QED
        BY <2>4, <3>1 DEF Silence, Protocol!Silence, Protocol!Reply, Reply
    <2> QED
      BY <2>1, <2>2, <2>3, <2>4
  <1>4. received' = received + n
    BY <1>1, <1>2
  <1> QED
    BY <1>2, <1>3, <1>4 DEF Protocol!Next

\* For messages of at most one window a client sees the protocol of VadProtocol:
\* bracketed replies, and in VAD_END the audio of all of them since VAD_BEGIN.
THEOREM SessionImplementsProtocol ==
  ASSUME SmallMessages
  PROVE  SessionSpec => ImplementsProtocol
  <1>1. Init => RefInv /\ Protocol!Init
    BY IteratorAssumption
    DEF Init, IterInit, RefInv, FrameTracksDetector, States, OneWindow, Protocol!Init,
        Protocol!Reply, Reply
  <1>2. RefInv /\ [SessionNext]_sessionVars => RefInv'
    BY FrameTracksDetectorStep, OneWindowStep DEF RefInv
  <1>3. RefInv /\ [SessionNext]_sessionVars => [Protocol!Next]_(Protocol!protocolVars)
    <2> SUFFICES ASSUME RefInv, [SessionNext]_sessionVars
                 PROVE  [Protocol!Next]_(Protocol!protocolVars)
      OBVIOUS
    <2>1. CASE \/ \E n \in ChunkBytes : ProcessAudio(n)
               \/ ProcessWindow
               \/ UNCHANGED sessionVars
      BY <2>1 DEF ProcessAudio, ProcessWindow, sessionVars, replyVars,
                  Protocol!protocolVars
    <2>2. CASE StartSpeaking \/ Speaking \/ EndSpeaking \/ Silence
      BY <2>2, ReplyRefines
    <2> QED
      BY <2>1, <2>2 DEF SessionNext
  <1> QED
    BY <1>1, <1>2, <1>3, PTL DEF SessionSpec, ImplementsProtocol, Protocol!Spec

-----------------------------------------------------------------------------
(* The detector inside the session, and the session's types.                 *)

\* A session uses its detector as a stream: what holds of every use of VadIterator
\* holds of it.
THEOREM SessionIsStream == SessionSpec => Spec
  <1>1. Init => IterInit
    BY DEF Init
  <1>2. [SessionNext]_sessionVars => [Next]_iterVars
    BY DEF SessionNext, sessionVars, ProcessAudio, ProcessWindow, StartSpeaking, Speaking,
           EndSpeaking, Silence, Respond, Next
  <1> QED
    BY <1>1, <1>2, PTL DEF SessionSpec, Spec

\* So a segment of a session's stream ends after MinSilence samples without speech, as
\* soon as that is due and not before.
THEOREM SessionSegmentsEnd ==
  ASSUME NoWrap, MaxSpeech = {}
  PROVE  SessionSpec => []EndsWhenDue /\ SilenceBeforeEnd
  <1>1. Spec => []EndsWhenDue
    BY SpeechEndsWhenDue
  <1>2. Spec => SilenceBeforeEnd
    BY SegmentsEndInSilence
  <1> QED
    BY <1>1, <1>2, SessionIsStream, PTL

\* A window takes Window samples and leaves the mode alone.
LEMMA PredictListens ==
  ASSUME Predict
  PROVE  heard' = heard + Window /\ mode' = mode
  <1>1. PICK p \in Classes : Infer(p)
    BY DEF Predict, SpeechWindow, CutAtPause, CutHere, UnsureWindow, IdleWindow,
           PauseWindow, EndOfSpeech, Classes
  <1> QED
    BY <1>1 DEF Infer

\* buffer_ and the samples heard never exceed what was sent; the replies are well
\* formed.
BufferBounded ==
  /\ mode = "stream"
  /\ received \in Nat /\ chunk \in Chunk
  /\ pc \in {"idle", "windows"}
  /\ buffer_ \in Nat /\ heard + buffer_ <= MaxSamples
  /\ result \in States
  /\ last_state_ \in {"SILENCE", "SPEAKING"}
  /\ audio_buffer_ \in Seq(Chunk)
  /\ reply.vad_state \in {"none", "SILENCE", "VAD_BEGIN", "SPEAKING", "VAD_END"}
  /\ reply.vad_audio \in Seq(Chunk)
  /\ begins \in Nat /\ ends \in Nat

\* A message adds what it sends and a window moves samples from buffer_ to the detector.
LEMMA BufferBoundedStep ==
  ASSUME TypeOK, BufferBounded, [SessionNext]_sessionVars
  PROVE  BufferBounded'
  <1>1. ASSUME NEW n \in ChunkBytes, ProcessAudio(n)
        PROVE  BufferBounded'
    <2>1. n \in Nat /\ Samples(n) \in Nat /\ heard \in Nat
      BY ChunkAssumption, IteratorAssumption DEF Samples, TypeOK
    <2>2. /\ buffer_' \in Nat /\ heard' + buffer_' <= MaxSamples /\ chunk' \in Chunk
      BY <1>1, <2>1 DEF ProcessAudio, BufferBounded, Chunk, iterVars
    <2> QED
      BY <1>1, <2>2 DEF ProcessAudio, BufferBounded, States, iterVars, replyVars
  <1>2. CASE ProcessWindow
    <2>1. heard' = heard + Window /\ mode' = mode
      BY <1>2, PredictListens DEF ProcessWindow
    <2>2. heard \in Nat /\ buffer_ \in Nat /\ buffer_ >= Window /\ buffer_' = buffer_ - Window
      BY <1>2, IteratorAssumption DEF ProcessWindow, BufferBounded, TypeOK
    <2>3. buffer_' \in Nat /\ heard' + buffer_' <= MaxSamples
      BY <2>1, <2>2, IteratorAssumption DEF BufferBounded
    <2>4. result' \in States
      BY <1>2 DEF ProcessWindow, FrameState, BufferBounded, States
    <2> QED
      BY <1>2, <2>1, <2>3, <2>4 DEF ProcessWindow, BufferBounded, replyVars
  <1>3. CASE StartSpeaking \/ Speaking \/ EndSpeaking \/ Silence
    <2>1. /\ received' = chunk.to /\ pc' = "idle"
          /\ UNCHANGED <<iterVars, engineVars, chunk>>
      BY <1>3 DEF StartSpeaking, Speaking, EndSpeaking, Silence, Respond
    <2>2. /\ received' \in Nat /\ <<>> \in Seq(Chunk)
          /\ Insert(<<>>, chunk) \in Seq(Chunk) /\ Insert(audio_buffer_, chunk) \in Seq(Chunk)
      <3>1. chunk \in Chunk /\ audio_buffer_ \in Seq(Chunk) /\ <<>> \in Seq(Chunk)
        BY DEF BufferBounded
      <3>2. received' \in Nat
        BY <2>1, <3>1 DEF Chunk
      <3> QED
        BY <3>1, <3>2, InsertType
    <2>3. /\ last_state_' \in {"SILENCE", "SPEAKING"} /\ audio_buffer_' \in Seq(Chunk)
          /\ reply'.vad_state \in {"SILENCE", "VAD_BEGIN", "SPEAKING", "VAD_END"}
          /\ reply'.vad_audio \in Seq(Chunk)
      <3>1. \A state, audio : /\ Reply(state, audio).vad_state = state
                              /\ Reply(state, audio).vad_audio = audio
        BY DEF Reply
      <3>2. PICK state \in {"SILENCE", "VAD_BEGIN", "SPEAKING", "VAD_END"},
                 audio \in Seq(Chunk) : reply' = Reply(state, audio)
        BY <1>3, <2>2 DEF StartSpeaking, Speaking, EndSpeaking, Silence
      <3>3. last_state_' \in {"SILENCE", "SPEAKING"} /\ audio_buffer_' \in Seq(Chunk)
        BY <1>3, <2>2 DEF StartSpeaking, Speaking, EndSpeaking, Silence
      <3> QED
        BY <3>1, <3>2, <3>3
    <2>4. begins' \in Nat /\ ends' \in Nat
      BY <1>3 DEF StartSpeaking, Speaking, EndSpeaking, Silence, BufferBounded
    <2> QED
      BY <2>1, <2>2, <2>3, <2>4 DEF BufferBounded, iterVars, engineVars
  <1>4. CASE UNCHANGED sessionVars
    BY <1>4 DEF BufferBounded, sessionVars, iterVars, engineVars, replyVars
  <1> QED
    BY <1>1, <1>2, <1>3, <1>4 DEF SessionNext

\* Every field of a session and of its detector keeps to its type, for messages of
\* every size and streams of any length.
THEOREM SessionTypes == SessionSpec => []SessionTypeOK
  <1>1. Init => BufferBounded
    BY IteratorAssumption
    DEF Init, IterInit, BufferBounded, States, Chunk, Reply
  <1>2. TypeOK /\ BufferBounded /\ [SessionNext]_sessionVars => BufferBounded'
    BY BufferBoundedStep
  <1>3. TypeOK /\ BufferBounded => SessionTypeOK
    <2>1. ASSUME TypeOK, BufferBounded PROVE buffer_ \in 0 .. MaxSamples
      BY <2>1, IteratorAssumption DEF TypeOK, BufferBounded
    <2> QED
      BY <2>1 DEF BufferBounded, SessionTypeOK, States
  <1> QED
    BY <1>1, <1>2, <1>3, SessionIsStream, TypeCorrect, PTL DEF SessionSpec

-----------------------------------------------------------------------------
(* Every segment is reported.                                                *)

\* Without a limit a window records a segment exactly when it ends speech.
LEMMA PredictRecords ==
  ASSUME MaxSpeech = {}, TypeOK, Predict
  PROVE  /\ Len(speeches) \in Nat
         /\ triggered \in BOOLEAN /\ triggered' \in BOOLEAN
         /\ triggered /\ ~triggered' => Len(speeches') = Len(speeches) + 1
         /\ ~(triggered /\ ~triggered') => Len(speeches') = Len(speeches)
  <1>1. ~TooLong /\ Len(speeches) \in Nat /\ triggered \in BOOLEAN
    BY DEF TooLong, TypeOK
  <1>2. CASE SpeechWindow \/ UnsureWindow \/ IdleWindow \/ PauseWindow
    <2>1. speeches' = speeches /\ (triggered => triggered') /\ triggered' \in BOOLEAN
      BY <1>1, <1>2 DEF SpeechWindow, UnsureWindow, IdleWindow, PauseWindow
    <2> QED
      BY <1>1, <2>1
  <1>3. CASE EndOfSpeech
    <2>1. triggered /\ triggered' = FALSE /\ Push(S32(PauseStart))
      BY <1>3 DEF EndOfSpeech, Release
    <2>2. Len(speeches') = Len(speeches) + 1
      BY <2>1 DEF Push, TypeOK
    <2> QED
      BY <1>1, <2>1, <2>2
  <1> QED
    BY <1>1, <1>2, <1>3 DEF Predict, CutAtPause, CutHere

\* What is reported when the pending result is: a start or an end is one behind.
Reported ==
  LET open == IF triggered THEN 1 ELSE 0 IN
  /\ ends = Len(speeches) - (IF pc = "windows" /\ result = "END_SPEAKING" THEN 1 ELSE 0)
  /\ begins = Len(speeches) + open
                - (IF pc = "windows" /\ result = "START_SPEAKING" THEN 1 ELSE 0)

\* With one window per call the pending result is the only one, so that no segment's
\* start or end goes uncounted.
LEMMA ReportedStep ==
  ASSUME SmallMessages, MaxSpeech = {}, TypeOK, RefInv, Reported, [SessionNext]_sessionVars
  PROVE  Reported'
  <1>0. Len(speeches) \in Nat /\ triggered \in BOOLEAN
    BY DEF TypeOK
  <1>1. ASSUME NEW n \in ChunkBytes, ProcessAudio(n)
        PROVE  Reported'
    BY <1>1 DEF ProcessAudio, Reported, iterVars, replyVars
  <1>2. CASE ProcessWindow
    <2>1. /\ pc = "windows" /\ pc' = "windows" /\ result = "SILENCE" /\ result' = FrameState
          /\ ends' = ends /\ begins' = begins
      BY <1>2 DEF ProcessWindow, replyVars, RefInv, OneWindow
    <2>2. /\ triggered \in BOOLEAN /\ triggered' \in BOOLEAN
          /\ triggered /\ ~triggered' => Len(speeches') = Len(speeches) + 1
          /\ ~(triggered /\ ~triggered') => Len(speeches') = Len(speeches)
      BY <1>2, PredictRecords DEF ProcessWindow
    <2>3. ends = Len(speeches) /\ begins = Len(speeches) + (IF triggered THEN 1 ELSE 0)
      BY <1>0, <2>1 DEF Reported
    <2>4. CASE triggered /\ ~triggered'
      BY <1>0, <2>1, <2>2, <2>3, <2>4 DEF Reported, FrameState
    <2>5. CASE ~triggered /\ triggered'
      BY <1>0, <2>1, <2>2, <2>3, <2>5 DEF Reported, FrameState
    <2>6. CASE triggered = triggered'
      BY <1>0, <2>1, <2>2, <2>3, <2>6 DEF Reported, FrameState
    <2> QED
      BY <2>2, <2>4, <2>5, <2>6
  <1>3. CASE StartSpeaking \/ Speaking \/ EndSpeaking \/ Silence
    <2>1. /\ pc = "windows" /\ pc' = "idle"
          /\ speeches' = speeches /\ triggered' = triggered
          /\ result \in States
      BY <1>3 DEF StartSpeaking, Speaking, EndSpeaking, Silence, Respond, iterVars,
                  RefInv, FrameTracksDetector
    <2>2. CurrentState = Result
      BY <2>1 DEF CurrentState, Result, RefInv, OneWindow, FrameTracksDetector
    <2>3. /\ CurrentState = "START_SPEAKING" <=> result = "START_SPEAKING"
          /\ CurrentState = "END_SPEAKING" <=> result = "END_SPEAKING"
      BY <2>1, <2>2 DEF Result, States
    <2>4. CASE StartSpeaking
      <3>1. /\ result = "START_SPEAKING" /\ begins' = begins + 1 /\ ends' = ends
        BY <2>3, <2>4 DEF StartSpeaking, Respond
      <3> QED
        BY <1>0, <2>1, <3>1 DEF Reported
    <2>5. CASE EndSpeaking
      <3>1. /\ result = "END_SPEAKING" /\ begins' = begins /\ ends' = ends + 1
        BY <2>3, <2>5 DEF EndSpeaking, Respond
      <3> QED
        BY <1>0, <2>1, <3>1 DEF Reported
    <2>6. CASE Speaking \/ Silence
      <3>1. /\ result \notin {"START_SPEAKING", "END_SPEAKING"}
            /\ begins' = begins /\ ends' = ends
        BY <2>3, <2>6 DEF Speaking, Silence, Respond
      <3> QED
        BY <1>0, <2>1, <3>1 DEF Reported
    <2> QED
      BY <1>3, <2>4, <2>5, <2>6
  <1>4. CASE UNCHANGED sessionVars
    BY <1>4 DEF Reported, sessionVars, iterVars, engineVars, replyVars
  <1> QED
    BY <1>1, <1>2, <1>3, <1>4 DEF SessionNext

\* A client that sends at most one window per message has had one VAD_BEGIN for every
\* segment opened and one VAD_END for every segment recorded, even after the sample
\* counter has wrapped around.
THEOREM SegmentsAreReported ==
  ASSUME SmallMessages, MaxSpeech = {}
  PROVE  SessionSpec => []EverySegmentReported
  <1>1. Init => RefInv /\ Reported
    BY IteratorAssumption
    DEF Init, IterInit, RefInv, FrameTracksDetector, States, OneWindow, Reported
  <1>2. TypeOK /\ RefInv /\ Reported /\ [SessionNext]_sessionVars => RefInv' /\ Reported'
    BY FrameTracksDetectorStep, OneWindowStep, ReportedStep DEF RefInv
  <1>3. TypeOK /\ Reported => EverySegmentReported
    <2>1. ASSUME TypeOK, Reported, pc = "idle"
          PROVE  /\ ends = Len(speeches)
                 /\ begins = Len(speeches) + (IF triggered THEN 1 ELSE 0)
      <3>1. Len(speeches) \in Nat
        BY <2>1 DEF TypeOK
      <3> QED
        BY <2>1, <3>1 DEF Reported
    <2> QED
      BY <2>1 DEF EverySegmentReported
  <1> QED
    BY <1>1, <1>2, <1>3, SessionIsStream, TypeCorrect, PTL DEF SessionSpec

-----------------------------------------------------------------------------
(* Which audio the replies carry.                                            *)

\* Messages of whole 16-bit samples: no byte is ever dropped between them.
EvenMessages == \A n \in ChunkBytes : n = 2 * Samples(n)

\* Bytes and samples run in step: what is buffered or heard is what was received.
InStep ==
  /\ pc = "idle" => buffer_ < Window /\ received = 2 * (heard + buffer_)
  /\ pc = "windows" =>
       /\ chunk.from = received /\ received <= chunk.to
       /\ chunk.to = 2 * (heard + buffer_)
       /\ received < 2 * (heard + Window)
       /\ result # "SILENCE" => received < 2 * heard

\* The audio of speech not yet reported as ended is without gaps from a to the latest
\* message, and a lies less than a window after the start of the speech it is for:
\* the open segment, or the one that has just ended.
AudioFrom(a) ==
  /\ last_state_ = "SPEAKING" => audio_buffer_ = <<[from |-> a, to |-> received]>> /\ a <= received
  /\ last_state_ = "SILENCE" => audio_buffer_ = <<>> /\ a = received
  /\ triggered => a - 2 * current_speech.start < 2 * Window
  /\ pc = "windows" /\ result = "END_SPEAKING" =>
       speeches # <<>> /\ a - 2 * speeches[Len(speeches)].start < 2 * Window

\* A start that is still to be reported lies in the current message, or less than a
\* window before it.
StartsHere ==
  pc = "windows" /\ result = "START_SPEAKING" =>
    received - 2 * current_speech.start < 2 * Window

Carried ==
  /\ InStep /\ StartsHere
  /\ \E a \in Nat : AudioFrom(a)

\* Where a window puts the start of a segment it opens, reopens or records.
LEMMA PredictPositions ==
  ASSUME NoWrap, IInv, Predict
  PROVE  /\ ~triggered /\ triggered' => current_speech'.start = heard
         /\ triggered /\ triggered' => current_speech'.start >= current_speech.start
         /\ triggered /\ ~triggered' =>
              /\ speeches' # <<>>
              /\ speeches'[Len(speeches')].start = current_speech.start
         /\ ~triggered /\ ~triggered' => speeches' = speeches
  <1>1. /\ current_speech \in Segment /\ current_speech.start \in Int
        /\ speeches \in Seq(Segment) /\ triggered \in BOOLEAN
    BY Types
  <1>2. ASSUME NEW end, Push(end)
        PROVE  speeches' # <<>> /\ speeches'[Len(speeches')].start = current_speech.start
    <2>1. [current_speech EXCEPT !.end = end].start = current_speech.start
      BY <1>1 DEF Segment
    <2> QED
      BY <1>1, <1>2, <2>1 DEF Push
  <1>3. CASE SpeechWindow
    <2>1. WindowStart = heard
      BY <1>3, WindowStartFacts DEF SpeechWindow, Classes
    <2>2. triggered' = TRUE /\ current_speech' = IF triggered THEN current_speech
                                 ELSE [current_speech EXCEPT !.start = heard]
      BY <1>3, <2>1 DEF SpeechWindow
    <2> QED
      BY <1>1, <2>2 DEF Segment
  <1>4. ASSUME NEW p \in Classes, CutAtPause(p)
        PROVE  /\ triggered /\ speeches' # <<>>
               /\ speeches'[Len(speeches')].start = current_speech.start
               /\ triggered' => current_speech'.start >= current_speech.start
    <2>1. triggered /\ prev_end > 0 /\ Push(prev_end)
      BY <1>4 DEF CutAtPause, TooLong
    <2>2. CASE triggered' = FALSE
      BY <1>2, <2>1, <2>2
    <2>3. CASE /\ next_start >= prev_end
               /\ current_speech' = [NoSpeech EXCEPT !.start = next_start]
      <3>1. current_speech'.start = next_start
        BY <2>3 DEF NoSpeech
      <3>2. current_speech.start < prev_end /\ prev_end \in Int /\ next_start \in Int
        BY <2>1, Types DEF IInv, Pauses
      <3> QED
        BY <1>1, <1>2, <2>1, <2>3, <3>1, <3>2
    <2> QED
      BY <1>4, <2>2, <2>3 DEF CutAtPause
  <1>5. ASSUME NEW p \in Classes, CutHere(p)
        PROVE  /\ triggered /\ speeches' # <<>> /\ triggered' = FALSE
               /\ speeches'[Len(speeches')].start = current_speech.start
    <2>1. triggered /\ triggered' = FALSE /\ Push(S32(current_sample'))
      BY <1>5 DEF CutHere, TooLong
    <2> QED
      BY <1>2, <2>1
  <1>6. CASE UnsureWindow \/ IdleWindow
    BY <1>1, <1>6 DEF UnsureWindow, IdleWindow
  <1>7. CASE PauseWindow
    <2>1. triggered /\ triggered' = triggered /\ current_speech'.start = current_speech.start
      BY <1>1, <1>7 DEF PauseWindow, Segment
    <2> QED
      BY <1>1, <2>1
  <1>8. CASE EndOfSpeech
    <2>1. triggered /\ triggered' = FALSE /\ Push(S32(PauseStart))
      BY <1>8 DEF EndOfSpeech, Release
    <2> QED
      BY <1>2, <2>1
  <1> QED
    BY <1>3, <1>4, <1>5, <1>6, <1>7, <1>8 DEF Predict

\* The facts about numbers that the proofs below need.
LEMMA CarriedTypes ==
  ASSUME IInv, BufferBounded
  PROVE  /\ heard \in Nat /\ buffer_ \in Nat /\ received \in Nat
         /\ Window \in Nat /\ Window > 0
         /\ chunk \in Chunk /\ chunk.from \in Nat /\ chunk.to \in Nat
         /\ current_speech.start \in Int /\ triggered \in BOOLEAN
         /\ triggered => current_speech.start + Window <= heard
         /\ Len(speeches) \in Nat
         /\ speeches # <<>> => /\ speeches[Len(speeches)].start \in Int
                               /\ speeches[Len(speeches)].end \in Int
                               /\ speeches[Len(speeches)].end <= heard
  <1>1. heard \in Nat /\ voiced \in Int
    BY IteratorAssumption, Types DEF IInv, TypeOK
  <1>2. chunk \in Chunk /\ chunk.from \in Nat /\ chunk.to \in Nat
    BY DEF BufferBounded, Chunk
  <1>3. triggered => current_speech.start + Window <= heard
    BY <1>1, Types DEF IInv, OpenSegment, Clock
  <1>4. speeches # <<>> => Len(speeches) \in DOMAIN speeches
    BY Types
  <1>5. speeches # <<>> => /\ speeches[Len(speeches)].start \in Int
                           /\ speeches[Len(speeches)].end \in Int
                           /\ speeches[Len(speeches)].end <= heard
    BY <1>4, Types DEF IInv, Recorded, BufferBounded
  <1> QED
    BY <1>1, <1>2, <1>3, <1>5, Types, IteratorAssumption DEF BufferBounded

\* A message continues the byte stream where the last one ended, and starts no audio.
LEMMA ProcessAudioCarries ==
  ASSUME EvenMessages, IInv, BufferBounded, FrameTracksDetector, Carried,
         NEW n \in ChunkBytes, ProcessAudio(n)
  PROVE  Carried'
  <1>1. n \in Nat /\ Samples(n) \in Nat /\ n = 2 * Samples(n)
    BY ChunkAssumption DEF Samples, EvenMessages
  <1>2. /\ pc = "idle" /\ pc' = "windows" /\ result' = "SILENCE" /\ received' = received
        /\ chunk' = [from |-> received, to |-> received + n]
        /\ buffer_' = buffer_ + Samples(n)
        /\ heard' = heard /\ triggered' = triggered /\ current_speech' = current_speech
        /\ last_state_' = last_state_ /\ audio_buffer_' = audio_buffer_
    BY DEF ProcessAudio, iterVars, replyVars
  <1>3. /\ received' < 2 * (heard' + Window) /\ received' <= chunk'.to
        /\ chunk'.to = 2 * (heard' + buffer_') /\ chunk'.from = received'
    <2>1. received = 2 * (heard + buffer_) /\ buffer_ < Window
      BY <1>2 DEF Carried, InStep
    <2>2. PICK k \in Nat : k = Samples(n) /\ n = 2 * k
      BY <1>1
    <2>3. heard \in Nat /\ buffer_ \in Nat /\ received \in Nat /\ Window \in Nat
      BY CarriedTypes
    <2>4. received < 2 * (heard + Window) /\ received + n = 2 * (heard + (buffer_ + k))
          /\ received <= received + n
      BY <2>1, <2>2, <2>3
    <2> QED
      BY <1>2, <2>2, <2>4
  <1>4. PICK a \in Nat : AudioFrom(a)
    BY DEF Carried
  <1>5. AudioFrom(a)'
    BY <1>2, <1>4 DEF AudioFrom
  <1>6. InStep' /\ StartsHere'
    BY <1>2, <1>3 DEF InStep, StartsHere
  <1> QED
    BY <1>5, <1>6 DEF Carried

\* A window of the message: a segment it opens starts within the window that ends in it.
LEMMA ProcessWindowCarries ==
  ASSUME NoWrap, IInv, IInv', BufferBounded, BufferBounded', FrameTracksDetector, Carried,
         ProcessWindow
  PROVE  Carried'
  <1>1. /\ pc = "windows" /\ pc' = "windows" /\ received' = received /\ chunk' = chunk
        /\ last_state_' = last_state_ /\ audio_buffer_' = audio_buffer_
        /\ buffer_' = buffer_ - Window /\ result' = FrameState /\ Predict
    BY DEF ProcessWindow, replyVars
  <1>2. heard' = heard + Window
    BY <1>1, PredictListens
  <1>3. /\ ~triggered /\ triggered' => current_speech'.start = heard
        /\ triggered /\ triggered' => current_speech'.start >= current_speech.start
        /\ triggered /\ ~triggered' =>
             /\ speeches' # <<>>
             /\ speeches'[Len(speeches')].start = current_speech.start
        /\ ~triggered /\ ~triggered' => speeches' = speeches
    BY <1>1, PredictPositions
  <1>4. /\ heard \in Nat /\ buffer_ \in Nat /\ received \in Nat /\ Window \in Nat /\ Window > 0
        /\ current_speech.start \in Int /\ triggered \in BOOLEAN
    BY CarriedTypes
  <1>5. current_speech'.start \in Int /\ triggered' \in BOOLEAN
    BY Types DEF IInv, TypeOK, Segment, Ints
  <1>6. received < 2 * (heard + Window) /\ chunk.to = 2 * (heard + buffer_)
        /\ chunk.from = received /\ received <= chunk.to
    BY <1>1 DEF Carried, InStep
  <1>7. InStep'
    <2>1. /\ chunk'.to = 2 * (heard' + buffer_') /\ received' < 2 * heard'
          /\ received' < 2 * (heard' + Window)
      BY <1>1, <1>2, <1>4, <1>6
    <2> QED
      BY <1>1, <1>6, <2>1 DEF InStep
  <1>8. StartsHere'
    <2>1. result' = "START_SPEAKING" => ~triggered /\ triggered'
      BY <1>1 DEF FrameState, FrameTracksDetector
    <2>2. received - 2 * heard < 2 * Window
      BY <1>4, <1>6
    <2> QED
      BY <1>1, <1>3, <2>1, <2>2 DEF StartsHere
  <1>9. PICK a \in Nat : AudioFrom(a)
    BY DEF Carried
  <1>10. a <= received
    BY <1>4, <1>9 DEF AudioFrom, BufferBounded
  <1>11. triggered' => a - 2 * current_speech'.start < 2 * Window
    <2>1. CASE ~triggered
      BY <1>3, <1>4, <1>6, <1>10, <2>1
    <2>2. CASE triggered
      <3>1. a - 2 * current_speech.start < 2 * Window
        BY <1>9, <2>2 DEF AudioFrom
      <3> QED
        BY <1>3, <1>4, <1>5, <2>2, <3>1
    <2> QED
      BY <2>1, <2>2
  <1>12. result' = "END_SPEAKING" =>
           speeches' # <<>> /\ a - 2 * speeches'[Len(speeches')].start < 2 * Window
    <2>1. CASE triggered /\ ~triggered'
      BY <1>3, <1>9, <2>1 DEF AudioFrom
    <2>2. CASE ~(triggered /\ ~triggered') /\ result' = "END_SPEAKING"
      <3>1. result = "END_SPEAKING" /\ ~triggered /\ ~triggered'
        BY <1>1, <2>2 DEF FrameState, FrameTracksDetector
      <3> QED
        BY <1>1, <1>3, <1>9, <3>1 DEF AudioFrom
    <2> QED
      BY <2>1, <2>2
  <1>13. AudioFrom(a)'
    BY <1>1, <1>9, <1>11, <1>12 DEF AudioFrom
  <1> QED
    BY <1>7, <1>8, <1>13 DEF Carried

\* A reply hands over the audio so far, or starts it anew with its own message.
LEMMA ReplyCarries ==
  ASSUME IInv, BufferBounded, FrameTracksDetector, Carried,
         StartSpeaking \/ Speaking \/ EndSpeaking \/ Silence
  PROVE  Carried' /\ EndCarriesSegment' /\ BeginIsPrompt'
  <1>1. /\ pc = "windows" /\ pc' = "idle" /\ received' = chunk.to /\ chunk' = chunk
        /\ buffer_ < Window /\ buffer_' = buffer_
        /\ heard' = heard /\ triggered' = triggered /\ current_speech' = current_speech
        /\ speeches' = speeches
    BY DEF StartSpeaking, Speaking, EndSpeaking, Silence, Respond, iterVars, engineVars
  <1>2. /\ heard \in Nat /\ buffer_ \in Nat /\ received \in Nat
        /\ Window \in Nat /\ Window > 0
        /\ chunk \in Chunk /\ chunk.from \in Nat /\ chunk.to \in Nat
        /\ current_speech.start \in Int /\ triggered \in BOOLEAN
        /\ triggered => current_speech.start + Window <= heard
        /\ speeches # <<>> => /\ speeches[Len(speeches)].start \in Int
                              /\ speeches[Len(speeches)].end \in Int
                              /\ speeches[Len(speeches)].end <= heard
    BY CarriedTypes
  <1>3. /\ chunk.from = received /\ chunk.to = 2 * (heard + buffer_) /\ received <= chunk.to
        /\ result # "SILENCE" => received < 2 * heard
    BY <1>1 DEF Carried, InStep
  <1>4. chunk = [from |-> received, to |-> chunk.to] /\ 2 * heard <= chunk.to
        /\ received <= chunk.to
    <2>1. 2 * heard <= chunk.to
      BY <1>2, <1>3
    <2> QED
      BY <1>2, <1>3, <2>1 DEF Chunk
  <1>5. PICK a \in Nat : AudioFrom(a)
    BY DEF Carried
  <1>6. a <= received
    BY <1>2, <1>5 DEF AudioFrom, BufferBounded
  <1>7. PICK from \in Nat, to \in Nat : from = received /\ to = chunk.to
    BY <1>2
  <1>8. InStep' /\ StartsHere'
    BY <1>1, <1>3 DEF InStep, StartsHere
  <1>9. result \in States /\ last_state_ \in {"SILENCE", "SPEAKING"}
    BY DEF BufferBounded
  <1>10. CASE StartSpeaking
    <2>1. /\ reply' = Reply("VAD_BEGIN", Insert(<<>>, chunk))
          /\ audio_buffer_' = Insert(<<>>, chunk)
          /\ last_state_' = "SPEAKING" /\ CurrentState = "START_SPEAKING"
      BY <1>10 DEF StartSpeaking, Respond
    <2>2. triggered /\ result # "SILENCE"
      BY <1>1, <1>9, <2>1 DEF CurrentState, Result, FrameTracksDetector, States
    <2>3. received - 2 * current_speech.start < 2 * Window
      <3>1. CASE result = "START_SPEAKING"
        BY <1>1, <3>1 DEF Carried, StartsHere
      <3>2. CASE result # "START_SPEAKING"
        <4>1. last_state_ = "SILENCE"
          BY <2>1, <3>2 DEF CurrentState, Result
        <4> QED
          BY <1>5, <2>2, <4>1 DEF AudioFrom
      <3> QED
        BY <3>1, <3>2
    <2>4. received < chunk.to /\ chunk.from # chunk.to
      BY <1>2, <1>3, <1>4, <2>2
    <2>5. audio_buffer_' = <<[from |-> received, to |-> chunk.to]>>
      BY <1>2, <1>4, <2>1, <2>4, InsertFirst
    <2>6. AudioFrom(from)'
      BY <1>1, <1>4, <1>7, <2>1, <2>3, <2>5 DEF AudioFrom
    <2>7. /\ chunk.from < 2 * (current_speech.start + Window)
          /\ 2 * (current_speech.start + Window) <= chunk.to
      <3>1. \A start \in Int, at, window, x, y \in Nat :
              /\ start + window <= at /\ 2 * at <= y /\ x - 2 * start < 2 * window
              => x < 2 * (start + window) /\ 2 * (start + window) <= y
        OBVIOUS
      <3> QED
        BY <1>2, <1>3, <1>4, <2>2, <2>3, <3>1
    <2>8. reply'.vad_state = "VAD_BEGIN"
      BY <2>1 DEF Reply
    <2>9. EndCarriesSegment' /\ BeginIsPrompt'
      BY <1>1, <2>7, <2>8 DEF EndCarriesSegment, BeginIsPrompt
    <2> QED
      BY <1>2, <1>8, <2>6, <2>9 DEF Carried
  <1>11. CASE Speaking
    <2>1. /\ reply' = Reply("SPEAKING", Insert(<<>>, chunk))
          /\ audio_buffer_' = Insert(audio_buffer_, chunk)
          /\ last_state_' = "SPEAKING" /\ CurrentState = "SPEAKING"
      BY <1>11 DEF Speaking, Respond
    <2>2. triggered /\ last_state_ = "SPEAKING"
      BY <1>1, <1>9, <2>1 DEF CurrentState, Result, FrameTracksDetector, States
    <2>3. audio_buffer_' = <<[from |-> a, to |-> chunk.to]>>
      <3>1. audio_buffer_ = <<[from |-> a, to |-> received]>>
        BY <1>5, <2>2 DEF AudioFrom
      <3> QED
        BY <1>2, <1>4, <2>1, <3>1, InsertContinues
    <2>4. a - 2 * current_speech.start < 2 * Window /\ a <= chunk.to
      BY <1>2, <1>4, <1>5, <1>6, <2>2 DEF AudioFrom
    <2>5. AudioFrom(a)'
      BY <1>1, <2>1, <2>3, <2>4 DEF AudioFrom
    <2>6. reply'.vad_state = "SPEAKING"
      BY <2>1 DEF Reply
    <2> QED
      BY <1>8, <2>5, <2>6 DEF Carried, EndCarriesSegment, BeginIsPrompt
  <1>12. CASE EndSpeaking
    <2>1. /\ reply' = Reply("VAD_END", Insert(audio_buffer_, chunk))
          /\ audio_buffer_' = <<>>
          /\ last_state_' = "SILENCE" /\ CurrentState = "END_SPEAKING"
      BY <1>12 DEF EndSpeaking, Respond
    <2>2. result = "END_SPEAKING" /\ ~triggered
      BY <1>1, <1>9, <2>1 DEF CurrentState, Result, FrameTracksDetector, States
    <2>3. speeches # <<>> /\ a - 2 * speeches[Len(speeches)].start < 2 * Window
      BY <1>1, <1>5, <2>2 DEF AudioFrom
    <2>4. chunk.from # chunk.to
      BY <1>2, <1>3, <1>4, <2>2
    <2>5. Insert(audio_buffer_, chunk) = <<[from |-> a, to |-> chunk.to]>>
      <3>1. CASE last_state_ = "SPEAKING"
        <4>1. audio_buffer_ = <<[from |-> a, to |-> received]>>
          BY <1>5, <3>1 DEF AudioFrom
        <4> QED
          BY <1>2, <1>4, <4>1, InsertContinues
      <3>2. CASE last_state_ = "SILENCE"
        <4>1. audio_buffer_ = <<>> /\ a = received
          BY <1>5, <3>2 DEF AudioFrom
        <4> QED
          BY <1>2, <1>4, <2>4, <4>1, InsertFirst
      <3> QED
        BY <1>9, <3>1, <3>2
    <2>6. 2 * speeches[Len(speeches)].end <= chunk.to
      BY <1>2, <1>4, <2>3
    <2>7. /\ reply'.vad_audio = <<[from |-> a, to |-> chunk.to]>>
          /\ reply'.vad_state = "VAD_END"
      BY <2>1, <2>5 DEF Reply
    <2>8. /\ Len(reply'.vad_audio) = 1
          /\ reply'.vad_audio[1].from = a /\ reply'.vad_audio[1].to = chunk.to
      BY <2>7
    <2>9. EndCarriesSegment' /\ BeginIsPrompt'
      BY <1>1, <1>2, <2>3, <2>6, <2>7, <2>8 DEF EndCarriesSegment, BeginIsPrompt
    <2>10. AudioFrom(to)'
      BY <1>1, <1>7, <2>1, <2>2 DEF AudioFrom
    <2> QED
      BY <1>2, <1>8, <2>9, <2>10 DEF Carried
  <1>13. CASE Silence
    <2>1. /\ reply' = Reply("SILENCE", <<>>)
          /\ audio_buffer_' = <<>>
          /\ last_state_' = "SILENCE" /\ CurrentState = "SILENCE"
      BY <1>13 DEF Silence, Respond
    <2>2. ~triggered
      BY <1>1, <1>9, <2>1 DEF CurrentState, Result, FrameTracksDetector, States
    <2>3. AudioFrom(to)'
      BY <1>1, <1>7, <2>1, <2>2 DEF AudioFrom
    <2>4. reply'.vad_state = "SILENCE"
      BY <2>1 DEF Reply
    <2> QED
      BY <1>2, <1>8, <2>3, <2>4 DEF Carried, EndCarriesSegment, BeginIsPrompt
  <1> QED
    BY <1>10, <1>11, <1>12, <1>13

\* Every step of the session keeps to the interval of the segment.
LEMMA CarriedStep ==
  ASSUME NoWrap, EvenMessages, IInv, IInv', BufferBounded, BufferBounded',
         FrameTracksDetector, Carried, EndCarriesSegment, BeginIsPrompt,
         [SessionNext]_sessionVars
  PROVE  Carried' /\ EndCarriesSegment' /\ BeginIsPrompt'
  <1>1. ASSUME NEW n \in ChunkBytes, ProcessAudio(n)
        PROVE  Carried' /\ EndCarriesSegment' /\ BeginIsPrompt'
    <2>1. pc' = "windows"
      BY <1>1 DEF ProcessAudio
    <2> QED
      BY <1>1, <2>1, ProcessAudioCarries DEF EndCarriesSegment, BeginIsPrompt
  <1>2. CASE ProcessWindow
    <2>1. pc' = "windows"
      BY <1>2 DEF ProcessWindow
    <2> QED
      BY <1>2, <2>1, ProcessWindowCarries DEF EndCarriesSegment, BeginIsPrompt
  <1>3. CASE UNCHANGED sessionVars
    BY <1>3 DEF sessionVars, iterVars, engineVars, replyVars, Carried, InStep, StartsHere,
                AudioFrom, EndCarriesSegment, BeginIsPrompt
  <1> QED
    BY <1>1, <1>2, <1>3, ReplyCarries DEF SessionNext

\* What a VAD_BEGIN and a VAD_END are about and carry, for messages of every size in
\* whole samples, below 2^31 samples.
LEMMA CarriedHolds ==
  ASSUME NoWrap, EvenMessages
  PROVE  SessionSpec => [](EndCarriesSegment /\ BeginIsPrompt)
  <1>1. Init => BufferBounded
    BY IteratorAssumption DEF Init, IterInit, BufferBounded, States, Chunk, Reply
  <1>2. TypeOK /\ BufferBounded /\ [SessionNext]_sessionVars => BufferBounded'
    BY BufferBoundedStep
  <1>3. Init => FrameTracksDetector
    BY DEF Init, IterInit, FrameTracksDetector, States
  <1>4. FrameTracksDetector /\ [SessionNext]_sessionVars => FrameTracksDetector'
    BY FrameTracksDetectorStep
  <1>5. Init => Carried /\ EndCarriesSegment /\ BeginIsPrompt
    <2>1. ASSUME Init PROVE AudioFrom(0) /\ InStep /\ StartsHere
      BY <2>1, IteratorAssumption DEF Init, IterInit, AudioFrom, InStep, StartsHere
    <2> QED
      BY <2>1 DEF Carried, Init, Reply, EndCarriesSegment, BeginIsPrompt
  <1>6. /\ IInv /\ IInv' /\ BufferBounded /\ BufferBounded'
        /\ FrameTracksDetector /\ Carried /\ EndCarriesSegment /\ BeginIsPrompt
        /\ [SessionNext]_sessionVars
        => Carried' /\ EndCarriesSegment' /\ BeginIsPrompt'
    BY CarriedStep
  <1> QED
    BY <1>1, <1>2, <1>3, <1>4, <1>5, <1>6, SessionIsStream, TypeCorrect, Invariant, PTL
    DEF SessionSpec

\* VAD_END carries gap-free audio that reaches the end of the segment it is for and
\* starts less than one window after its start, however many windows and changes of
\* speech one message contains.
THEOREM EndCarries ==
  ASSUME NoWrap, EvenMessages
  PROVE  SessionSpec => []EndCarriesSegment
  <1>1. EndCarriesSegment /\ BeginIsPrompt => EndCarriesSegment
    OBVIOUS
  <1> QED
    BY <1>1, CarriedHolds, PTL

\* VAD_BEGIN is sent by the message in which its segment's first window completes: that
\* window's last byte is in the message, and the messages before it end earlier.
THEOREM BeginPrompt ==
  ASSUME NoWrap, EvenMessages
  PROVE  SessionSpec => []BeginIsPrompt
  <1>1. EndCarriesSegment /\ BeginIsPrompt => BeginIsPrompt
    OBVIOUS
  <1> QED
    BY <1>1, CarriedHolds, PTL
=============================================================================
