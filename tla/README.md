# TLA+ models and proofs for cpp_service

`cpp_service` is a WebSocket service for voice activity detection (VAD). A client
streams 16 kHz, 16-bit PCM audio; the service answers every message with the state
of the speech in the stream (`SILENCE`, `VAD_BEGIN`, `SPEAKING`, `VAD_END`) and, with
`VAD_END`, the audio of the whole speech segment. This directory holds TLA+ models of
its components, the configurations with which TLC checks them, and theorems about them
checked by TLAPS. Paths below are relative to the repository's root.

    tlc -workers 2 -config MCVadIterator.cfg MCVadIterator.tla
    tlc -workers 2 -config MCVadIteratorStuck.cfg VadIterator.tla
    tlapm VadIteratorProofs.tla


## 1. The system

    client --frame--> websocketpp --on_message--> task_queue_ --pop--> worker_loop
                       (main thread)              (SafeQueue)         (worker thread)
                                                                        | process_audio
    client <--reply--- websocketpp <------------send----------------- Session
                                                                        | process_frame
                                                                   SileroVadEngine
                                                                        | predict
                                                                     VadIterator --> ONNX

| component | state | operations | what makes it correct |
|---|---|---|---|
| `VadIterator` (`src/vad_iterator.cpp`) | `triggered`, `temp_end`, `prev_end`, `next_start`, `current_sample`, `current_speech`, `speeches` | `predict` per window of 512 samples, `process` for a whole recording, `reset` | segments are non-empty, ordered, disjoint; no speech is lost; a segment ends after enough silence, not before and not later; no bookkeeping of one segment leaks into the next |
| `SileroVadEngine` (`include/vad_engine.h`) | `buffer_` of samples | `process_frame` per message: cut into windows, one result per message | the state is that of the latest window; a message with no window reports the previous state |
| `Session` (`src/session.cpp`) | `last_state_`, `audio_buffer_`, metadata | `process_audio` per message; `update_metadata` | replies bracket speech; `VAD_END` carries the segment's audio; the session never disagrees with the detector |
| `AudioServer` (`src/server.cpp`) | `sessions_`, `task_queue_`, `running_`, worker thread | `run`, `stop`, `on_open`, `on_close`, `on_message`, `worker_loop` | every accepted frame is answered once, in order, on its own connection, with the metadata of its time; a closed client's backlog delays nobody; a failure ends the process |
| `SafeQueue` (`include/safe_queue.h`) | `queue_`, `mutex_`, `cond_` | `push`, `pop` | atomic, first in first out, no lost wakeup |
| `SherpaVadDetector` (`src/sherpa_vad_detector.cpp`) | `state_`, `recognition_duration_`, `silence_duration_`, `margin_buffer_`, `fixed_buffer_` | `process_frame` per message, `process_internal` per frame of 20 ms | its durations measure speech and silence; in a session it keeps the same protocol as the first engine. No caller constructs it |
| `base64.h` | none | `encode`, `decode` | `decode(encode(x)) = x`; text cut short gives all its whole bytes |
| `wav.h` | the file and `data_` | `WavReader::Open`, `WavWriter::Write` | what is written is read back, as far as the width holds it; chunks before the samples are skipped exactly. Nothing includes it |
| `json.hpp` | a tree of values | construction, access, insertion, erasure, comparison, `patch`, `diff`, `merge_patch`, destruction | a call that throws changes nothing or, `update()`, tears no member; iterators survive `erase`; the order is total; `patch` undoes `diff` |
| the use of JSON in `server.cpp`, `session.cpp` | none | `on_message`, `build_vad_response` | a frame is taken whole or not at all; a reply has the shape clients read |
| websocketpp, ONNX Runtime, the model file | - | - | third party |
| `test_vad.cpp`, `test/*.py`, `test/vad.go` | - | - | tests and clients |

Interaction. The main thread runs all WebSocket handlers inside `srv_.run()`. They push
tasks (connection, audio, metadata) to `task_queue_` and insert and erase `Session`s in
`sessions_` under `session_mutex_`. The only worker thread pops a task, looks up its
session under the mutex, uses the session after it has released it (a `shared_ptr`
keeps it alive), and calls `send` on the connection. `running_` is shared without
synchronisation. A session's engine and detector are touched by the worker only.

What is hard here: the order of pauses, resumptions and cuts inside the detector;
messages whose sizes have nothing to do with its windows; several state changes inside
one message; closes and failures at any point between the worker's lookup, its work and
its `send`; failure of `run()` while the worker sleeps; counters that wrap on a
connection that lives for days; two durations that rise and fall frame by frame; edits of
a JSON document that fail half-way or move what an iterator or an index designates. `PROJECT.json` lists each of these hazards with its line
and with the properties aimed at it.


## 2. Modules

| module | models | extends |
|---|---|---|
| `VadIterator` | `VadIterator` | |
| `SpeechHistory` | `VadIterator` with a history of every window of speech | `VadIterator` |
| `VadReplies` | the audio intervals and replies the next two share | |
| `VadProtocol` | abstract: what a client may rely on | `VadReplies` |
| `VadSession` | `Session` + `SileroVadEngine` on top of `VadIterator` | `VadIterator`, `VadReplies` |
| `SherpaVad` | `SherpaVadDetector` | |
| `SherpaSession` | `Session` + `SherpaVadDetector`, checked against `VadProtocol` too | `SherpaVad`, `VadReplies` |
| `FifoQueue` | abstract: what `SafeQueue` promises | |
| `AudioService` | abstract: what `AudioServer` promises its clients | |
| `SafeQueue` | `SafeQueue<T>` down to mutex and condition variable | |
| `AudioServer` | `AudioServer`, `main()` | |
| `Base64` | `base64.h`, as operators | |
| `Wav` | `wav.h` | |
| `Codecs` | the two of them run, and their properties | `Base64`, `Wav` |
| `JsonValue` | `basic_json`: values and the operations on one level of a value | |
| `JsonTree` | comparison, `update`, pointers, `patch`, `diff`, `merge_patch` | `JsonValue` |
| `ServerMessages` | `on_message()` and `build_vad_response()` as users of JSON | `JsonValue` |
| `JsonProgram` | a program with two values that erases while it iterates; what else it does is one step | `ServerMessages` |
| `JsonDocument` | that program with all its calls, and destruction | `JsonTree`, `JsonProgram` |
| `VadIteratorProofs` | theorems | `SpeechHistory`, `TLAPS` |
| `SafeQueueProofs`, `AudioServerProofs` | theorems | the module each is named after, `TLAPS` |
| `VadSessionProofs` | theorems; a session inherits those of its detector | `VadSession`, `VadIteratorProofs` |
| `SherpaProofs` | theorems | `SherpaSession`, `TLAPS` |
| `CodecsProofs` | theorems about the two halves of `Codecs` | `Codecs`, `TLAPS` |
| `JsonProofs` | theorems about `JsonProgram` and `ServerMessages` | `JsonProgram`, `TLAPS` |
| `SharedLemmas` | lemmas that several of these cite | `VadReplies`, `FiniteSetsExt`, `TLAPS` |
| `MC*` | values for constants | the module each is named after; `MCVadIterator`: `SpeechHistory` |

### VadIterator

Variables have the code's names. One call of `predict()` is one step; the branches of
the function are separate actions (`SpeechWindow`, `CutAtPause`, `CutHere`,
`UnsureWindow`, `IdleWindow`, `PauseWindow`, `EndOfSpeech`), each a conjunction of `Infer`
(the counter and the inference, lines 85-122) and of its branch. `process()` is
`ProcessBegin`, a step per window and `ProcessEnd`; `mode` keeps an object that runs
`process()` from being used as a stream within it.

The neural network is external: any window may have any of the three classes of
probability the code tells apart. Positions are sample counts in the code's widths;
`U32` and `S32` are the conversions between `unsigned int` and `int`, with
`2 * Half` for 2^32. `heard`, `voiced` and `quiet` are history variables: they count
the samples heard, those up to the latest speech window, and those up to the first silent
window of the running pause, without any wrapping, and only properties read them.

`SpeechHistory` adds one more history variable, `spoken`: where every window of speech ended,
not only the latest. A cut loses speech when it restarts the segment after speech it has
already passed, and the latest window alone does not show that (`Resumption`'s guard, line 127,
is what prevents it). It is a module of its own because such a history doubles
the states with each window, which the sessions built on `VadIterator` need not carry.

Not in the model: the model's tensors and the audio itself.

### VadSession

`process_audio()` is a sequence of steps: `ProcessAudio(n)` (bytes to samples, appended to
the engine's buffer), `ProcessWindow` per complete window, one of `StartSpeaking`,
`Speaking`, `EndSpeaking`, `Silence` for the branch that builds the reply. Audio
is named by its place in the byte stream of the connection, so that "the audio of the
segment" is an interval and a gap, a duplicate or a leak from another segment shows as a
second interval or a wrong bound. The metadata that replies carry is in `AudioServer`, the
JSON they are made of in `ServerMessages`.

`VadProtocol` is what `VadSession` implements when no message is longer than a window,
with `phase <- last_state_` and `segment <- audio_buffer_`.

The clients under `test/` send 640-byte messages, 320 samples, below the window of 512.

### AudioServer

`main` is where the main thread is; `worker` is the worker's next step, so that any
handler can come between two of them: `Check` (`while (running_)`), `Pop`, `Lookup`
(lines 113-117), `Process` (lines 119-133), `Send` (lines 135-142). `running_` is a data
race, so `Check` may read the value that `stop()` has just overwritten. Failures
that the code can meet are actions: `listen()` throwing (`Listen`), a `Session` whose
model cannot be loaded (`OnOpenThrows`), JSON that cannot be parsed or converted
(`OnMessageIgnored`), `send()` on a connection that is not open (`Send`), an exception of
the inference on the worker thread (`ProcessThrows`).

websocketpp is modelled from its use: `on_open` and `on_close` are called once per
connection, a connection leaves the open state before `on_close` runs, and messages
come only while it is open.

`AudioService` is what a client may rely on, without threads, queue or sessions: each
connection's frames are answered in their order, a reply carries what its frame names and
otherwise what the reply before it carried, and after the connection is gone nothing comes.
`AudioServer` implements it with `serving` for the part of `main` that clients can tell
apart; a connection is gone when it starts to close, `on_close` and what the worker still
does for it being invisible; a frame is answered by the `send()` that arrives.

### SafeQueue

One step per lock, unlock, wait, notify and access to the queue; `pop()` reads the front
(`Front`, line 18) and removes it (`Remove`, line 19) in two. The mutex promises no
order, `notify_one()` wakes any one sleeper, sleepers may wake for no reason. The
server has one producer and one consumer; the class is written for any number, so
the run has two of each. `FifoQueue` is its abstract specification: `push()` and `pop()`
each take effect at one instant. `AudioServer` uses the queue that way.


### SherpaVad, SherpaSession

`IVadEngine` has two implementations and `Session` holds either through one pointer;
`session.cpp` constructs the first. `SherpaVad` is the second, one action per case of
`process_internal()`'s switch (`StillInactive`, `Recognise`, `VoiceBegin`, `VoiceOngoing`,
`VoiceEnd`), on one frame of 20 ms whose probability reaches the threshold or not.
`SherpaSession` is the session that would hold it: `ProcessAudio` appends the message,
`ProcessFrame` takes a frame and lets `Report` pick the message's result among the frames'
(lines 98-115), `Respond` builds the reply. It is checked against the same `VadProtocol` as
`VadSession`. `since`, the frames since the latest `set_state()`, is a history variable.

### Base64, Wav, Codecs

`Base64` has `encode` and `decode` as operators on sequences of bytes and of indices into
the alphabet. `Wav` has `Open()` as a sequence of steps on a file of chunks: the header,
one step per skipped chunk, the size, the samples. A file's length, the positions of its
chunks and what `fread()` gives past its end are computed, so that a chunk skipped
wrongly reads other bytes. `WavWriter`'s floats are numbers with a fraction, in units of
`1/Parts`; `static_cast` drops it (`Truncated`), and where the result does not fit the
width, which is undefined, or the loop passes the end of the data, the sample is any of
`Outcomes`. `Codecs` runs both: an input that grows item by item, a file
that is opened.

### JsonValue, JsonTree, JsonDocument, ServerMessages

`json.hpp` (nlohmann, 3.10.5) is vendored, but it is most of the code in the repository
and every frame and reply passes through it. Its operations are operators that give an
outcome: the value left behind, the number of the exception thrown or 0, the iterator
returned. The checks of an operation are listed in the code's order (`Checked`), so
that of two errors the first is thrown. `JsonDocument` is a program with two values,
`doc` and `other`, that calls them in any order. Two things take several steps: a loop
that erases while it iterates (`Loop*` in `JsonProgram`), and `json_value::destroy()`, one
round of its loop at a time (`Destroy*`).

`JsonProgram` is the part of this that needs no recursion over documents, and so the part
the provers can reason about: the loop, with one step `Elsewhere` for whatever happens to the two
values between two loops. `JsonDocument`'s calls are such steps: they are made outside the loop,
leave its variables alone, and leave values that are `Sound`, which `TypeOK` checks.

`ServerMessages` uses these operators as the service does: `on_message()` gets a task out
of a frame, with implicit conversions that may throw half-way, and
`build_vad_response()` nests initializer lists, whose shape is deduced from what is in
them. `AudioServer` has the same handler with frames that make a task (`OnMessage`) and
frames that do not (`OnMessageIgnored`); `TakenWhole` says which are which.


## 3. What TLC checks

| run | shows | distinct states |
|---|---|---|
| `MCVadIterator.cfg` | the service's parameters, and with them a limit that cuts long speech: `SegmentsSound`, `IdleIsClean`, `SpeechCovered` | 1.9 M |
| `MCVadSession.cfg` | messages up to one window, integers that wrap: `EverySegmentReported`, `SilenceBeforeEnd`, and `VadSession` implements `VadProtocol` | 4.1 M |
| `MCVadSessionLarge.cfg` | messages up to six windows: `SessionAgreesWithDetector`, `EndCarriesSegment`, `BeginIsPrompt`, `EndsWhenDue` | 2.7 M |
| `MCAudioServer.cfg` | `RepliesCarryMeta`, `LateWorkBounded`, `AudioServer` implements `AudioService`, and the liveness properties `AcceptedIsAnswered`, `StopEndsOrStarves` | 716 k |
| `MCSafeQueue.cfg` | `NoLostWakeup`, `EveryItemTaken`, and `SafeQueue` implements `FifoQueue` | 10.6 k |
| `MCSherpaSession.cfg` | `SilenceIsWorstSurplus`, `OnsetMeasuresSpeech`, `SessionAgreesWithDetector`, and `SherpaSession` implements `VadProtocol` | 286 k |
| `MCCodecs.cfg` | `RoundTrip`, `DecodesTheBits`; `FindsTheSamples`, `OpenReturns` | 17.4 k |
| `MCJson.cfg` | `ThrowChangesNothing`, `SweepIsExact`, `EachRoundDestroysOne`, `PatchOfDiff`, `MergePatchSettles`, `OrderIsTotal`; `FramesTakenWhole`, `RepliesReadable` | 23 k |

`SilenceIsWorstSurplus` says what an accumulator with a floor adds up to: speech ends at the
first moment at which some stretch of the latest frames has `StopMs` more silence than
speech. `PatchOfDiff`, `MergePatchSettles` and `OrderIsTotal` are checked of every pair of
documents the calls reach, the third also against every document of `Others` in between.

Four runs end in a counterexample, each against a sentence of the repository about itself
(quoted in `PROJECT.json`, "findings"):

| run | statement | what the code does |
|---|---|---|
| `MCVadIteratorStuck.cfg` | `SilenceEndsSpeech` | a sound of up to `min_speech_samples` before the first silent window opens a segment that no amount of silence closes: line 177 keeps it open, and every later silent window takes the same path. The session then reports `SPEAKING` and buffers the silence for as long as the client sends it |
| `MCVadSessionDropped.cfg` | `EverySegmentReported` | when one message holds the end of a segment and the start of the next, the later overwrites the earlier in `result.state`; the client gets no `VAD_END`, and the segment's audio is discarded when the reply is `VAD_BEGIN` |
| `MCVadSessionOnset.cfg` | `EndIsComplete` | the audio of `VAD_END` starts with the message that completed the onset window, up to a window later than the segment it reports |
| `MCAudioServerStop.cfg` | `FailureIsReported` | when `run()` throws, `~AudioServer` joins a worker that sleeps in `pop()` for good, and `main()` never reports the error |

### Bounds

- `MaxSamples`. `MCVadIterator.cfg` has the service's durations (silence 1600, speech 4000
  samples) with windows of 1024 samples instead of 512, because the history of all
  speech doubles the states with each window; the windows get coarser, the orders of speech,
  pauses and cuts do not get fewer. 15 windows make room for two complete segments, of
  six or seven windows each with the pause that ends it, and a third one begun; with the limit
  of 0.5 s a cut takes seven windows and one after two resumptions eight. After a segment
  ends the detector's state is its initial one but for the counter and the recorded segments
  (`IdleIsClean`), so that longer streams repeat what two segments show; the theorems below
  have no bound but the width of the integers.
- `VadSession` uses a window of 2 samples, a silence of 2 (4 in the small run) and a speech
  of 4. The shortest reported segment then takes four windows (large run) or five
  (small): 13 windows (large) and 12 (small) make room for two segments and a third begun,
  and in the small run for a pause that starts where the counter is 0 again and ends its
  segment. What matters to the session is how message
  boundaries fall in windows: `ChunkBytes` has empty messages, a message of an odd size (its
  last byte is dropped, and two of them complete a window), of exactly a window, and of
  several windows and a half.
- `Half`. TLC's integers have 32 bits themselves; `Half = 2^29` where nothing wraps.
  `MCVadSession.cfg` has `Half = 8`: `current_sample` wraps at 16 samples, positions turn
  negative from 8 on, both within the run.
- `AudioServer`: two connections (one to be answered, one to close or to have a
  backlog), two frames each, naming none, some or all of two metadata fields.
  `MaxFrames` bounds frames that arrive; the queue is bounded by it only.
- `SafeQueue`: two threads on either side are the least at which a consumer can take an
  item another was woken for; `MaxItems` = 2 lets each producer come back.
- `SherpaVad`: a frame of 2 samples with the code's 20 ms; 50 ms of speech and 80 of silence,
  so that three frames recognise speech and four end it and a stretch of either may be
  interrupted; 13 frames are a whole utterance and the start of another. Messages are of at
  least one frame (a shorter one is answered `SILENCE` in the middle of speech, line 70) and
  shorter than speech that ends and starts again.
- `Codecs`: `MaxInput` = 4 items is a whole group and every incomplete one, on encode
  and decode; the items are the boundaries of every mask and shift. The files have up to
  two chunks before the samples. Recordings are in quarters (`Parts` = 4), on both sides of zero,
  at and beyond the bounds of a `char` and beyond those of an `int16_t`; numbers beyond an `int`
  are beyond TLC's integers too and left to the theorem. `num_samples` is that of a
  channel, or twice that, past the end of the data.
- `JsonDocument`: `MaxNodes` = 3 values in `doc`, besides the larger documents of `Others`,
  makes room for a container in a container with a leaf, or for two leaves, which is where a wrong
  index or iterator shows; three is also what the order of removals and a skipped element
  need. `Others` has a value of every type, numbers equal across types, containers that
  differ in a key, an element or their length, and frames for `on_message()`. `Half` = 2:
  unsigned 2 and 3 are beyond `number_integer_t`. Calls that take nothing from `other` are
  made while it is null (`Alone`), which leaves out only repetitions.

Deadlock checking is off where the system may stop: `AudioServer` may exit, be terminated, or
hang in `join()`, which `StopEndsOrStarves` and `FailureIsReported` speak about; a client of
`SherpaSession` may stop sending; `Codecs` ends when a file is read. TLC's other models
can always take a step or run into a bound's guard with another action left.

### Fairness

`AudioServer`: weak fairness of the main thread's own steps and of the worker's steps: the
operating system schedules both. Clients, closes, failing opens and failing inferences are
not fair: they may never happen. `SafeQueue`: weak fairness of each thread inside `push()`
and of each consumer in `pop()`, which it calls again and again as `worker_loop()`
does; calling `push()` and waking spuriously are not fair. A `std::mutex` promises
nobody its turn, so `EveryItemTaken` speaks of items that are in the queue: a producer
may wait for the mutex for ever while consumers wake spuriously for ever.
`Codecs`: weak fairness of `Open()`, a sequential function that nothing stops.
The safety specifications of the other modules need no fairness: every statement about
them is an invariant or an action property.

### Statements that are narrower than they look

- `EndsWhenDue` is checked without a speech limit. With one, `CutAtPause` forgets the
  pause that is running (lines 147-149) while the restarted segment goes on, so the pause is
  measured anew and the segment ends later.
- `IdleIsClean`, `SegmentsSound` and `SpeechCovered` speak of positions that have not wrapped. After
  2^31 samples (37 hours of one connection) `current_speech.start` is negative while
  `triggered` holds; of what wraps, `MCVadSession.cfg` checks the session's properties and
  `SilenceBeforeEnd`.
- `SilenceBeforeEnd` speaks of segments closed by `predict()` without a limit; `process()`
  closes the last one at the end of the recording, and a limit closes on its own terms.
- `SherpaSession`'s `SessionAgreesWithDetector` and `ImplementsProtocol` hold for the
  messages described under Bounds. With longer ones a later `START` overwrites an `END`, as in
  the first engine (`MCVadSessionDropped.cfg`).
- `FindsTheSamples` is about complete files of a width the reader knows. A 24-bit `WavWriter`
  declares samples it does not write. Of a recording only what survives the writer's casts
  comes back: not a fraction, and nothing in particular of a float outside the width; and
  what was written as 1 comes back as 1/32768, since the reader scales and the writer does not.
  The file's own integers are those a float holds (`Exact`): others are rounded by the reader.
- `OpenReturns` is about files with a complete `data` chunk and even sizes before it. On
  a file without one, or where a pad byte shifts the headers, the loop of `wav.h:77` never
  ends: at the end of the file `fread()` leaves the header as it was.
- `OrderIsTotal` leaves out unsigned numbers from 2^63 on, which comparison with a signed
  number casts to negative ones (`json.hpp:3375`): there 2^64 - 1 equals -1.
- `ThrowChangesNothing` lets two calls that throw change a part: `update()`, of which it says
  that each member is what it was or what the other object has, at any depth, and none is
  lost; and writing through a pointer, which may have made members on its way.


## 4. What is proved

Every safety invariant that a passing run checks is proved for all values of the constants,
those of `JsonDocument` that recurse over a document excepted, and so are the four
refinements. The tables give the
assumptions beyond the modules' own `ASSUME`s, which TLC evaluates on every run. All of them
hold in at least one run, so no theorem is about nothing.

### VadIteratorProofs

| theorem | statement | assuming |
|---|---|---|
| `TypeCorrect` | `Spec => []TypeOK` | - |
| `SegmentsAreSound` | `Spec => []SegmentsSound` | `NoWrap` |
| `IdleStateIsClean` | `Spec => []IdleIsClean` | `NoWrap` |
| `SpeechIsCovered` | `HistorySpec => []SpeechCovered` | `NoWrap` |
| `SegmentsEndInSilence` | `Spec => SilenceBeforeEnd` | `NoWrap`, `MaxSpeech = {}` |
| `SpeechEndsWhenDue` | `Spec => []EndsWhenDue` | `NoWrap`, `MaxSpeech = {}` |

`NoWrap` is `MaxSamples + Window < Half`: less than 2^31 samples, 37 hours of audio.
`MaxSpeech = {}` is the service's own setting (no limit).

None of these invariants is inductive. `SegmentsSound`, for one, needs to know that the
`prev_end` at which `CutAtPause` closes a segment lies after the segment's start and not
after `next_start`, where the next one begins. The strengthening `IInv` has six parts:
`TypeOK`; `Clock` (`current_sample` is `heard`, nothing has wrapped); `Idle` (no segment, no
bookkeeping); `OpenSegment` (where the open segment's start lies); `Pauses` (how
`temp_end`, `prev_end` and `next_start` are ordered in it); `Recorded` (segments are sound and
before the clock). `Invariant` proves `Spec => []IInv`, one step per action
and under it one per part. `SpeechCovered`, about all the speech of a `SpeechHistory`, needs
`HInv`: with `IInv`, that the history is in the past (`Past`) and that no speech lies between
the pause at which a cut would close the segment and the resumption at which it would
restart it (`CutsClean`), which is what line 127 keeps true. `EndsWhenDue` needs besides that a running pause began where
the latest silence did (`PauseFromQuiet`).

### VadSessionProofs

| theorem | statement | assuming |
|---|---|---|
| `SessionIsStream` | `SessionSpec => Spec` | - |
| `SessionTypes` | `SessionSpec => []SessionTypeOK` | - |
| `SessionAgrees` | `SessionSpec => []SessionAgreesWithDetector` | - |
| `SessionImplementsProtocol` | `SessionSpec => ImplementsProtocol` | `SmallMessages` |
| `SegmentsAreReported` | `SessionSpec => []EverySegmentReported` | `SmallMessages`, `MaxSpeech = {}` |
| `SessionSegmentsEnd` | `SessionSpec => []EndsWhenDue /\ SilenceBeforeEnd` | `NoWrap`, `MaxSpeech = {}` |
| `EndCarries` | `SessionSpec => []EndCarriesSegment` | `NoWrap`, `EvenMessages` |
| `BeginPrompt` | `SessionSpec => []BeginIsPrompt` | `NoWrap`, `EvenMessages` |

`SessionIsStream` says that a session uses its detector as `VadIterator` allows, so that
every theorem of `VadIteratorProofs` holds inside a session. `SmallMessages` (no message
has more samples than a window) is what the clients under `test/` do; without it
`EverySegmentReported` is false (`MCVadSessionDropped.cfg`), and so is the protocol.
The other theorems cover messages of every size.
`EvenMessages` (whole 16-bit samples) is needed because each odd message loses a byte, after
which positions in the byte stream and in the detector drift apart; `MCVadSessionLarge.cfg`
has even messages, `MCVadSession.cfg` odd ones too.

`SessionAgrees` needs, between the windows of a call, what `result` says about `triggered` at
the start of the call and now; the protocol also that at most one window completes per call,
so that no result is overwritten (`RefInv`). `EverySegmentReported` is proved with the counter
wrapping. `EndCarriesSegment` rests on `Carried`: what was received is what is buffered or
heard (`InStep`), and the audio of speech not yet ended is one interval from less than a
window after its segment's start up to the latest message (`AudioFrom`).

### SherpaProofs

| theorem | statement | assuming |
|---|---|---|
| `Types` | `Spec => []TypeOK` | - |
| `SilenceMeasured` | `Spec => []SilenceIsWorstSurplus` | - |
| `OnsetMeasured` | `Spec => []OnsetMeasuresSpeech` | - |
| `SessionAgrees` | `Spec => []SessionAgreesWithDetector` | `WholeFrames` |
| `SessionImplementsProtocol` | `Spec => ImplementsProtocol` | `WholeFrames`, `ShortMessages` |

`WholeFrames`: every message completes a frame (a shorter one is answered `SILENCE` in the
middle of speech, line 70). `ShortMessages`: no message has room for an end of speech and a new
start. `DurationsMeasure` is the inductive part: in Activity, `silence_duration_` is the
greatest surplus of silent over active frames of any stretch that ends now (a new frame
lengthens every stretch by one and adds the empty one, which is the clamp at 0 of lines 185-196); in
Inactivity, `recognition_duration_` is never more than the active frames since the
latest change amount to, nor less than that minus the decay.

### AudioServerProofs

| theorem | statement |
|---|---|
| `Types` | `Spec => []TypeOK` |
| `InOrder` | `Spec => []RepliesInOrder` |
| `MetaInForce` | `Spec => []RepliesCarryMeta` |
| `LateWork` | `Spec => []LateWorkBounded` |
| `NoFrameLost` | `Spec => []NothingLost`: a frame accepted on a live connection is answered, in the queue, or in the worker's hands |
| `Refinement` | `Spec => ImplementsService` |

For any number of connections, frames and metadata fields. The invariant follows every accepted
frame: the queue holds the frames of a connection in order and after the one in the
worker's hands, none of them is answered (`InFlightUnanswered`, `InFlightInOrder`), a live
connection's are all there (`NothingLost`), and its session's metadata are those in force
after the frames processed (`MetaCurrent`). `NothingLost` is what `RepliesInOrder` needs to be
inductive: without it the queue could skip a frame. `NoFrameLost` is no property of a run,
as `AcceptedIsAnswered` says more there; it is the safety half of that liveness property.
Nor is `RepliesInOrder`, which `ImplementsService` implies.

The refinement has one lemma per kind of visible step (`MainRefines`, `ConnectionRefines`,
`AcceptRefines`, `AnswerRefines`); all other steps stutter. `AnswerRefines` is where
the invariant is needed: the task in the worker's hands is the first unanswered frame of its
connection because none before it is lost, and what its session holds by then is what the
previous reply carried, with the names of this frame (`MetaIsNamed`).

### SafeQueueProofs

| theorem | statement |
|---|---|
| `TypesAndMutex` | `Spec => []TypeOK` |
| `NoWakeupLost` | `Spec => []NoLostWakeup` |
| `Refinement` | `Spec => ImplementsFifo` |

For any finite number of producers and consumers. `NoLostWakeup` compares the number of
items with the number of threads that are yet to look or to notify, so its proof adds up
cardinalities, per step of a thread. `ArgumentHeld`, `TakesFromSome` and `RemovesWhatItRead` tie what
a thread holds, what `wait()` saw and what `front()` gave to its program counter; the refinement maps `push()` to the insertion
and `pop()` to the removal and every other step to a stutter.

### CodecsProofs

| theorem | statement |
|---|---|
| `BytesRoundTrip` | `Spec => []RoundTrip`, inputs of any length |
| `BitsDecoded` | `Spec => []DecodesTheBits`, texts of any length, cut short or not |
| `SamplesAreFound` | `Spec => []FindsTheSamples`, any number of chunks and samples, any floats (`Parts`, `Outcomes`) |
| `OpenAdvances` | `Spec => [][Advances]_wavVars`: on a sound file each round of the loop moves the position on, and never past the first data chunk's header |

`Items` are bytes (`CodecsAssumption`); files have at least a byte per sample and a
channel, and data chunks of whole samples that a float holds as they are (`WavAssumption`).
A recording is under no assumption but its types: `WrittenHas` says what the file has of it,
`TruncatedIsWhole` that the cast gives the integer next to a float towards zero. `FlattenSeq` and `FoldSet` are defined by
recursive functions, which the provers know as an unspecified choice: `FlattenJoins`, `StartAddsUp`
and `SamplesOfChunk` show that a function with the equation exists and what it gives.
Over them, base64 is a matter of groups (`SextetsAreCharacters`, `BytesComeBack`, `OctetBits`
for one group; `EncodeShape`, `DecodeShape` for all) and the file of chunk positions
(`NextStart`, `StartsIncrease`, `HeaderOfChunk`). `ReaderInv` then says where `Open()` is: at a chunk
not after the first data chunk, then at its samples with their size in bytes. `OpenAdvances` follows
from it and is the safety half of `OpenReturns`: a position that grows and has a bound stops.

The library's induction theorems take an operator as parameter, which no installed prover
can instantiate. Where an induction is needed (`Max` of a set, `FlattenSeq`, folds) it is done
with sets: `LeastNatural`, a non-empty set of naturals has a least element, applied to the set of
counterexamples.

### JsonProofs

| theorem | statement |
|---|---|
| `Sweep` | `ProgramSpec => []SweepIsExact` |
| `Frames` | `ProgramSpec => []FramesTakenWhole` |
| `Replies` | `ProgramSpec => []RepliesReadable` |

For values of any size and depth. `Frames` and `Replies` follow from `EveryFrameTakenWhole` and
`EveryReplyReadable`, which hold for every argument, not only the program's two values: an
initializer list of pairs with distinct names is an object of them (`PairsAreObject`), and
a list of a text and anything is no object, as text is no array (`PairIsArray`).

`SweepIsExact` is not inductive: of `doc = null` it says nothing about the iterator, and of
`doc` not that it is a value. `LoopInv` adds both, and `Loop` proves it. Its hard step is erasing from an object,
whose iterator is a place in the order of the keys: the keys' places are 1 to
their number, in order (`KeysInOrder`, by counting: an injection between finite sets of one
size is onto), and without one of them those behind move up by one (`KeysWithout`), so that the
next item is where the erased one was (`WithoutOne`).

### Only model-checked

- The liveness properties `AcceptedIsAnswered`, `StopEndsOrStarves`, `EveryItemTaken` and
  `OpenReturns`: liveness under fairness is out of the prover's reach.
- `JsonDocument`'s `TypeOK`, `PatchOfDiff`, `MergePatchSettles`, `OrderIsTotal`,
  `ThrowChangesNothing` and `EachRoundDestroysOne`: they speak of a whole document or of the
  operations of `JsonTree`, which recurse over it with `RECURSIVE` operators, and the prover has
  no induction over such data. Nor can a theorem say that `JsonDocument` implements
  `JsonProgram`, for the same reason; see section 2 for why it does.


## 5. What is not modelled

- Of `json.hpp`: `parse()`, `accept()`, `dump()`, the binary formats, `json_pointer` and the
  iterators are forwarding functions here and live in `nlohmann/detail`, which the
  repository does not have. `json_pointer`'s walk and the order of types are modelled as
  external, from what the code here needs of them; a pointer is the sequence of its tokens, so
  escaping is left out. Also left out: the allocator and exceptions it throws, conversions
  to types other than text, the constructor from a `basic_json` of another kind,
  `flatten()`, and `set_parents()`, which does nothing without `JSON_DIAGNOSTICS`.
  Floats are exact; comparing an integer beyond 2^53 with a float rounds in the code.
- websocketpp, ONNX Runtime and the model: third party, outside the repository but for ONNX
  Runtime's headers, which declare an interface and no behaviour of their own. They appear
  as the choices described above.
- base64 and JSON within the service: in `AudioServer` and `VadSession` audio and text
  pass through unchanged, except for what does not decode, which is a frame of other audio
  or one that is ignored. `Codecs` and `ServerMessages` say what is lost by that: nothing
  on what the clients send.
- `reset()` of either engine and `VadResult`'s `timestamp` and `probability`: no caller.
- Messages shorter than a frame for `SherpaVadDetector` (see Bounds), and its `threshold_`: line 128
  compares with a fixed 0.5, whatever the constructor was given.
- A failed `Open()` in `WavReader`'s constructor: the destructor then deletes a pointer that
  was never set, which is undefined.
- The memory a connection takes: `speeches` and `audio_buffer_` grow without a limit in the
  code, and process_frame() copies the former for every message. No property bounds them,
  because nothing in the code does.

Seen while reading, and left to the reader: `session.h:15` says that `process_audio()`
returns an empty string when the state has not changed, but every branch builds a reply
(the `SILENCE` and `SPEAKING` replies of `VadProtocol`); `wav.h:229` says that `WavWriter`'s `num_samples_` is
the "total float points in data_", but lines 195 and 203 multiply it by the channels, as the
samples of one channel: a caller with two channels who believes the comment makes `Write()`
read past the end of `data_` (`Stored`); nor does `Write()` scale by the 32768 that `Open()`
divides by, so that 16-bit audio that is read and handed to a writer becomes zeros; `session.cpp:72` calls its input a
byte stream, but each call drops an odd last byte, so that a stream cut at odd offsets is
misread from the second cut on (`Samples`). Not a matter of behaviour: `session.cpp:60` and `:64` define
`build_speaking_response` and `build_silence_response`, which `session.h` does not declare,
so the file as committed does not compile; README.md:106 calls the end state
`END_SPEAKING` where the code sends `VAD_END`; the comment at `sherpa_vad_detector.cpp:115`
says that `VadIterator` collects 320 samples up to 512, which it does not (the engine's
buffer does); `sherpa_vad_detector.cpp:151` counts 10 ms per frame where `test/vad.go:18`
counts 20, under a header (`sherpa_vad_detector.h:18`) that calls the logic the same; the
residue of 10 ms that line 151 may leave in `recognition_duration_` never decays, so it shortens
a later onset by at most that; `json.hpp:4324` says of the parent of a value to be added that it
cannot be primitive, but `add` at `/k/x` where `k` holds text gets there and the
assertion ends the process (`AssertionFails`; the service never calls `patch()`).


## 6. Plan

The order puts the detector first, because every reply depends on it, then what
is built on it, then the threads.

1. done: `VadIterator`, its runs and its theorems
2. done: `VadSession` over it, `VadProtocol`, agreement and refinement proved
3. done: `SafeQueue`, `FifoQueue`, refinement checked
4. done: `AudioServer`, safety and liveness checked
5. done: `SherpaVad` in a session, against the same `VadProtocol`
6. done: `Base64`, `Wav`, `Codecs`
7. done: `JsonValue`, `JsonTree`, `JsonDocument`, `ServerMessages`
8. done: proofs for `SafeQueue` (mutex, no lost wakeup, refinement) and `AudioServer`
9. done: proofs for `VadSession` (types, reports, audio) and `SherpaSession`
10. done: proofs for `Base64` and `Wav`
11. done: proofs for `JsonValue` and `ServerMessages`: any frame is taken whole or not at all,
    any reply is readable, any document is swept exactly
12. done: `AudioService`, which `AudioServer` implements, and the proof of it
