-------------------------- MODULE AudioServerProofs --------------------------
(***************************************************************************)
(* Theorems about AudioServer for any number of connections, frames and    *)
(* metadata: replies in order, with the metadata in force, and bounded     *)
(* work for closed connections. They rest on one inductive invariant,      *)
(* IInv, which follows every accepted frame from task_queue_ through the   *)
(* worker's hands to its reply.                                            *)
(***************************************************************************)
EXTENDS AudioServer, SharedLemmas, TLAPS

\* The connections on which a reply still reaches the client.
Live(c) == main = "running" /\ conn[c] = "open"

\* The worker has popped task and not yet dealt with it.
InHand == worker \in {"lookup", "process", "send"}

\* Connections open, and frames come, only while main runs the handlers; run() starts
\* the worker.
Quiet ==
  /\ main = "init" => worker = "none"
  /\ main \in {"init", "listening"} => \A c \in Conns : conn[c] = "new"
  /\ \A c \in Conns : conn[c] = "new" =>
       accepted[c] = <<>> /\ replies[c] = <<>> /\ meta[c] = FirstMeta(c)

\* sessions_ follows the connections: on_open adds before a frame can come, and
\* on_close removes for good.
SessionsFollow ==
  \A c \in Conns : /\ conn[c] = "open" => c \in sessions_
                   /\ conn[c] = "closed" => c \notin sessions_

\* What the worker holds: process and send work on the same task.
HandSound ==
  /\ InHand => task \in Tasks
  /\ worker = "send" =>
       /\ resp \in Tasks /\ resp.conn = task.conn /\ resp.frame = task.frame
       /\ resp.meta = meta[resp.conn]

\* Accepted frames are numbered upwards, each by its own connection.
AcceptedSound ==
  \A c \in Conns :
    /\ \A i \in DOMAIN accepted[c] : /\ accepted[c][i].conn = c
                                     /\ accepted[c][i].frame <= frames[c]
    /\ \A i, j \in DOMAIN accepted[c] :
         i < j => accepted[c][i].frame < accepted[c][j].frame

\* A task in flight was accepted, and is not answered yet.
Unanswered(t) ==
  \E k \in DOMAIN accepted[t.conn] :
    k > Len(replies[t.conn]) /\ accepted[t.conn][k] = t
InFlightUnanswered ==
  /\ \A i \in DOMAIN task_queue_ : Unanswered(task_queue_[i])
  /\ InHand => Unanswered(task)

\* Tasks of one connection are in flight in the order of its frames.
InFlightInOrder ==
  /\ \A i, j \in DOMAIN task_queue_ :
       i < j /\ task_queue_[i].conn = task_queue_[j].conn =>
         task_queue_[i].frame < task_queue_[j].frame
  /\ InHand => \A i \in DOMAIN task_queue_ :
       task_queue_[i].conn = task.conn => task.frame < task_queue_[i].frame

\* No accepted frame of a live connection is lost on the way.
InFlight(t) == (InHand /\ task = t) \/ \E i \in DOMAIN task_queue_ : task_queue_[i] = t
NothingLost ==
  \A c \in Conns : Live(c) =>
    \A k \in DOMAIN accepted[c] : k > Len(replies[c]) => InFlight(accepted[c][k])

\* The metadata of a live connection's session are those of the frames processed.
Processed(c) == Len(replies[c]) + IF worker = "send" /\ resp.conn = c THEN 1 ELSE 0
MetaCurrent ==
  \A c \in Conns : Live(c) =>
    \A f \in Fields : meta[c][f] = Latest(c, Processed(c), f)

\* Once a closed connection has cost the worker a task, it is not at another.
LateOnce ==
  \A c \in Conns :
    /\ late[c] <= 1
    /\ late[c] = 1 => conn[c] = "closed" /\ ~(worker = "process" /\ task.conn = c)

\* What follows the frames, and what only the threads.
FlightInv ==
  /\ HandSound /\ AcceptedSound /\ InFlightUnanswered /\ InFlightInOrder /\ NothingLost
  /\ RepliesInOrder /\ MetaCurrent /\ RepliesCarryMeta

IInv == TypeOK /\ Quiet /\ SessionsFollow /\ FlightInv /\ LateOnce

-----------------------------------------------------------------------------
\* One more accepted frame: its own field counts if given, else the latest before it.
LEMMA LatestOfNext ==
  ASSUME NEW c \in Conns, NEW k \in Nat, NEW f
  PROVE  Latest(c, k + 1, f) = IF accepted[c][k + 1].meta[f] # NoName
                              THEN accepted[c][k + 1].meta[f] ELSE Latest(c, k, f)
<1> DEFINE Given(n) == {i \in 1 .. n : accepted[c][i].meta[f] # NoName}
<1>1. CASE accepted[c][k + 1].meta[f] # NoName
  <2>1. k + 1 \in Given(k + 1) /\ Given(k + 1) \subseteq 1 .. k + 1
    BY <1>1
  <2>2. Max(Given(k + 1)) = k + 1
    <3> HIDE DEF Given
    <3>1. QED
      BY <2>1, MaxIsGreatest
  <2>3. QED
    BY <1>1, <2>1, <2>2 DEF Latest
<1>2. CASE accepted[c][k + 1].meta[f] = NoName
  <2>1. Given(k + 1) = Given(k)
    BY <1>2
  <2>2. QED
    BY <1>2, <2>1 DEF Latest
<1>3. QED
  BY <1>1, <1>2

\* A frame accepted later does not change what was in force before it.
LEMMA LatestStays ==
  ASSUME NEW c \in Conns, NEW k \in Nat, NEW f,
         \A i \in 1 .. k : accepted'[c][i] = accepted[c][i]
  PROVE  Latest(c, k, f)' = Latest(c, k, f)
<1> DEFINE Given == {i \in 1 .. k : accepted[c][i].meta[f] # NoName}
<1>1. Given = {i \in 1 .. k : accepted'[c][i].meta[f] # NoName}
  OBVIOUS
<1>2. CASE Given = {}
  BY <1>1, <1>2 DEF Latest
<1>3. CASE Given # {}
  <2>1. Max(Given) \in 1 .. k
    <3>1. /\ Given \subseteq Int /\ Given \subseteq 1 .. k
            /\ k \in Int /\ \A x \in Given : x <= k
      OBVIOUS
    <3>2. Max(Given) \in Given
      <4> HIDE DEF Given
      <4> QED
        BY <1>3, <3>1, MaxOfBounded, Zenon
    <3>3. QED
      BY <3>1, <3>2
  <2>2. accepted'[c][Max(Given)] = accepted[c][Max(Given)]
    BY <2>1
  <2>3. QED
    BY <1>1, <1>3, <2>2 DEF Latest
<1>4. QED
  BY <1>2, <1>3

-----------------------------------------------------------------------------
\* A step that moves no task and sends no reply keeps what is known of the frames,
\* as long as it takes the task in hand away only from a connection that is not live,
\* and makes live only a connection that is still fresh.
LEMMA FlightStays ==
  ASSUME TypeOK, FlightInv,
         UNCHANGED <<accepted, task_queue_, task, resp, meta, replies>>,
         \A c \in Conns : frames'[c] \in Nat /\ frames'[c] >= frames[c],
         worker' = "send" <=> worker = "send",
         InHand' => InHand,
         InHand /\ ~InHand' => ~Live(task.conn)',
         \A c \in Conns : Live(c)' =>
           \/ Live(c)
           \/ accepted[c] = <<>> /\ replies[c] = <<>> /\ meta[c] = FirstMeta(c)
  PROVE  FlightInv'
<1> USE DEF FlightInv
<1>1. HandSound'
  BY DEF HandSound
<1>2. AcceptedSound'
  <2> SUFFICES ASSUME NEW c \in Conns, NEW i \in DOMAIN accepted[c]
               PROVE  accepted[c][i].frame <= frames'[c]
    BY DEF AcceptedSound
  <2>1. accepted[c][i] \in Tasks
    BY DEF TypeOK
  <2>2. accepted[c][i].frame \in Nat /\ frames[c] \in Int
    BY <2>1 DEF TypeOK, Tasks
  <2>3. QED
    BY <2>2 DEF AcceptedSound
<1>3. InFlightUnanswered'
  BY DEF InFlightUnanswered, Unanswered
<1>4. InFlightInOrder'
  BY DEF InFlightInOrder
<1>5. NothingLost'
  <2> SUFFICES ASSUME NEW c \in Conns, Live(c)', NEW k \in DOMAIN accepted[c],
                      k > Len(replies[c])
               PROVE  InFlight(accepted[c][k])'
    BY DEF NothingLost
  <2>1. Live(c)
    OBVIOUS
  <2>2. InFlight(accepted[c][k])
    BY <2>1 DEF NothingLost
  <2>3. accepted[c][k].conn = c
    BY DEF AcceptedSound
  <2>4. QED
    BY <2>2, <2>3 DEF InFlight
<1>6. RepliesInOrder'
  BY DEF RepliesInOrder
<1>7. \A c \in Conns, k \in Nat : \A f : Latest(c, k, f)' = Latest(c, k, f)
  BY DEF Latest
<1>8. RepliesCarryMeta'
  <2> SUFFICES ASSUME NEW c \in Conns, NEW i \in DOMAIN replies[c], NEW f \in Fields
               PROVE  replies[c][i].meta[f] = Latest(c, i, f)'
    BY DEF RepliesCarryMeta
  <2>1. i \in Nat
    BY DEF TypeOK
  <2>2. QED
    BY <1>7, <2>1 DEF RepliesCarryMeta
<1>9. MetaCurrent'
  <2> SUFFICES ASSUME NEW c \in Conns, Live(c)', NEW f \in Fields
               PROVE  meta[c][f] = Latest(c, Processed(c), f)'
    BY DEF MetaCurrent
  <2>1. Processed(c)' = Processed(c)
    BY DEF Processed
  <2>2. Processed(c) \in Nat
    BY DEF Processed, TypeOK
  <2>3. Latest(c, Processed(c), f)' = Latest(c, Processed(c), f)
    BY <1>7, <2>1, <2>2
  <2>4. CASE Live(c)
    BY <2>3, <2>4 DEF MetaCurrent
  <2>5. CASE accepted[c] = <<>> /\ replies[c] = <<>> /\ meta[c] = FirstMeta(c)
    <3>1. Processed(c) = 0
      <4>1. worker = "send" => resp.conn # c
        BY <2>5 DEF InFlightUnanswered, Unanswered, HandSound, InHand
      <4>2. QED
        BY <2>5, <4>1 DEF Processed
    <3>2. Latest(c, 0, f) = FirstMeta(c)[f]
      BY DEF Latest
    <3>3. QED
      BY <2>3, <2>5, <3>1, <3>2
  <2>6. QED
    BY <2>4, <2>5
<1>10. QED
  BY <1>1, <1>2, <1>3, <1>4, <1>5, <1>6, <1>8, <1>9

\* On a live connection the worker holds the very frame whose reply is due.
LEMMA HandIsNext ==
  ASSUME TypeOK, FlightInv, InHand, Live(task.conn)
  PROVE  /\ task \in Tasks
         /\ Len(replies[task.conn]) + 1 \in DOMAIN accepted[task.conn]
         /\ accepted[task.conn][Len(replies[task.conn]) + 1] = task
<1> DEFINE c == task.conn
           next == Len(replies[c]) + 1
<1>1. task \in Tasks /\ c \in Conns
  BY DEF FlightInv, HandSound, Tasks
<1>2. /\ accepted[c] \in Seq(Tasks) /\ Len(accepted[c]) \in Nat
      /\ DOMAIN accepted[c] = 1 .. Len(accepted[c]) /\ Len(replies[c]) \in Nat
  BY <1>1 DEF TypeOK
<1>3. PICK k \in DOMAIN accepted[c] : k > Len(replies[c]) /\ accepted[c][k] = task
  BY DEF FlightInv, InFlightUnanswered, Unanswered
<1>4. next \in DOMAIN accepted[c] /\ next <= k
  BY <1>2, <1>3
<1>5. InFlight(accepted[c][next])
  BY <1>1, <1>2, <1>4 DEF FlightInv, NothingLost
<1>6. accepted[c][next].conn = c /\ accepted[c][next] \in Tasks
  BY <1>1, <1>2, <1>4 DEF FlightInv, AcceptedSound
<1>7. accepted[c][next].frame \in Nat /\ task.frame \in Nat
  BY <1>1, <1>6 DEF Tasks
<1>8. next < k => accepted[c][next].frame < task.frame
  BY <1>1, <1>3, <1>4 DEF FlightInv, AcceptedSound
<1>9. accepted[c][next] = task \/ task.frame < accepted[c][next].frame
  BY <1>5, <1>6 DEF InFlight, FlightInv, InFlightInOrder
<1>10. k \in Nat /\ next \in Nat
  BY <1>2, <1>3
<1>11. CASE accepted[c][next] = task
  BY <1>1, <1>4, <1>11
<1>12. CASE task.frame < accepted[c][next].frame
  <2>1. next = k
    BY <1>4, <1>7, <1>8, <1>10, <1>12
  <2>2. QED
    BY <1>1, <1>3, <1>4, <2>1
<1>13. QED
  BY <1>9, <1>11, <1>12

-----------------------------------------------------------------------------
\* At the start there are no connections, and so nothing in flight.
LEMMA InitIInv == Init => IInv
<1> SUFFICES ASSUME Init PROVE IInv
  OBVIOUS
<1> USE ServerAssumption DEF Init
<1>2. TypeOK
  <2>1. \A c \in Conns : FirstMeta(c) \in AnyMeta
    BY DEF FirstMeta, NoMeta, AnyMeta
  <2>2. meta \in [Conns -> AnyMeta]
    BY <2>1
  <2>3. /\ conn \in [Conns -> {"new", "open", "closing", "closed"}]
        /\ frames \in [Conns -> 0 .. MaxFrames] /\ late \in [Conns -> Nat]
    OBVIOUS
  <2>4. accepted \in [Conns -> Seq(Tasks)] /\ replies \in [Conns -> Seq(Tasks)]
    OBVIOUS
  <2>5. running_ \in BOOLEAN /\ sessions_ \in SUBSET Conns
    BY Zenon
  <2>6. /\ main = "init"
        /\ task_queue_ \in Seq(Tasks) /\ worker = "none"
        /\ task \in Tasks \cup {NoTask} /\ resp \in Tasks \cup {NoTask}
    OBVIOUS
  <2>7. QED
    BY <2>2, <2>3, <2>4, <2>5, <2>6, Zenon DEF TypeOK
<1>3. Quiet /\ SessionsFollow /\ LateOnce
  BY DEF Quiet, SessionsFollow, LateOnce
<1>4. HandSound /\ AcceptedSound /\ InFlightUnanswered /\ InFlightInOrder /\ NothingLost
  BY DEF HandSound, AcceptedSound, InFlightUnanswered, InFlightInOrder, NothingLost, InHand
<1>5. RepliesInOrder /\ MetaCurrent /\ RepliesCarryMeta
  BY DEF RepliesInOrder, MetaCurrent, Live, RepliesCarryMeta
<1>6. QED
  BY <1>2, <1>3, <1>4, <1>5 DEF IInv, FlightInv

\* run() starts the worker, which holds nothing yet.
LEMMA StartStep == ASSUME IInv, Start PROVE IInv'
<1> USE DEF IInv, Start, connVars, workVars
<1>1. TypeOK'
  BY DEF TypeOK
<1>2. Quiet' /\ SessionsFollow'
  BY DEF Quiet, SessionsFollow
<1>3. LateOnce'
  BY DEF LateOnce
<1>4. ~InHand' /\ \A c \in Conns : ~Live(c)'
  BY DEF InHand, Live
<1>5. worker = "none" /\ ~InHand
  BY DEF Quiet, InHand
<1>6. FlightInv'
  BY <1>4, <1>5, FlightStays DEF TypeOK, InHand, Live
<1>7. QED
  BY <1>1, <1>2, <1>3, <1>6

\* When listen() succeeds every connection is still fresh.
LEMMA ListenStep == ASSUME IInv, Listen PROVE IInv'
<1> USE DEF IInv, Listen, connVars, workVars, workerVars
<1>1. TypeOK'
  BY DEF TypeOK
<1>2. Quiet' /\ SessionsFollow'
  BY DEF Quiet, SessionsFollow
<1>3. LateOnce'
  BY DEF LateOnce
<1>4. FlightInv'
  BY FlightStays DEF TypeOK, InHand, Live, Quiet
<1>5. QED
  BY <1>1, <1>2, <1>3, <1>4

\* on_open makes a fresh connection live, with its session in place.
LEMMA OnOpenStep == ASSUME IInv, NEW c \in Conns, OnOpen(c) PROVE IInv'
<1> USE DEF IInv, OnOpen, mainVars, workVars, workerVars
<1>1. TypeOK'
  BY DEF TypeOK
<1>2. Quiet' /\ SessionsFollow'
  BY DEF Quiet, SessionsFollow, TypeOK
<1>3. LateOnce'
  BY DEF LateOnce, TypeOK
<1>4. FlightInv'
  BY FlightStays DEF TypeOK, InHand, Live, Quiet
<1>5. QED
  BY <1>1, <1>2, <1>3, <1>4

\* An exception out of a handler only moves main: no connection is live any more.
LEMMA OnOpenThrowsStep == ASSUME IInv, NEW c \in Conns, OnOpenThrows(c) PROVE IInv'
<1> USE DEF IInv, OnOpenThrows, connVars, workVars, workerVars
<1>1. TypeOK'
  BY DEF TypeOK
<1>2. Quiet' /\ SessionsFollow'
  BY DEF Quiet, SessionsFollow
<1>3. LateOnce'
  BY DEF LateOnce
<1>4. FlightInv'
  BY FlightStays DEF TypeOK, InHand, Live
<1>5. QED
  BY <1>1, <1>2, <1>3, <1>4

\* A connection that starts to close is live no more; its session stays for now.
LEMMA DisconnectStep == ASSUME IInv, NEW c \in Conns, Disconnect(c) PROVE IInv'
<1> USE DEF IInv, Disconnect, mainVars, workVars, workerVars
<1>1. TypeOK'
  BY DEF TypeOK
<1>2. Quiet' /\ SessionsFollow'
  BY DEF Quiet, SessionsFollow, TypeOK
<1>3. LateOnce'
  BY DEF LateOnce, TypeOK
<1>4. FlightInv'
  BY FlightStays DEF TypeOK, InHand, Live
<1>5. QED
  BY <1>1, <1>2, <1>3, <1>4

\* on_close erases the session, whatever the worker does with the Session meanwhile.
LEMMA OnCloseStep == ASSUME IInv, NEW c \in Conns, OnClose(c) PROVE IInv'
<1> USE DEF IInv, OnClose, mainVars, workVars, workerVars
<1>1. TypeOK'
  BY DEF TypeOK
<1>2. Quiet' /\ SessionsFollow'
  BY DEF Quiet, SessionsFollow, TypeOK
<1>3. LateOnce'
  BY DEF LateOnce, TypeOK
<1>4. FlightInv'
  BY FlightStays DEF TypeOK, InHand, Live
<1>5. QED
  BY <1>1, <1>2, <1>3, <1>4

\* A frame that makes no task only counts.
LEMMA OnMessageIgnoredStep == ASSUME IInv, NEW c \in Conns, OnMessageIgnored(c) PROVE IInv'
<1> USE DEF IInv, OnMessageIgnored, mainVars, workVars, workerVars
<1>1. TypeOK'
  BY ServerAssumption DEF TypeOK
<1>2. Quiet' /\ SessionsFollow'
  BY DEF Quiet, SessionsFollow
<1>3. LateOnce'
  BY DEF LateOnce
<1>4. \A d \in Conns : frames'[d] \in Nat /\ frames'[d] >= frames[d]
  BY ServerAssumption DEF TypeOK
<1>5. FlightInv'
  BY <1>4, FlightStays DEF TypeOK, InHand, Live
<1>6. QED
  BY <1>1, <1>2, <1>3, <1>5

\* stop() and join() concern main alone.
LEMMA StopJoinStep == ASSUME IInv, Stop \/ Join PROVE IInv'
<1> USE DEF IInv, Stop, Join, connVars, workVars, workerVars
<1>1. TypeOK'
  BY DEF TypeOK
<1>2. Quiet' /\ SessionsFollow'
  BY DEF Quiet, SessionsFollow
<1>3. LateOnce'
  BY DEF LateOnce
<1>4. FlightInv'
  BY FlightStays DEF TypeOK, InHand, Live
<1>5. QED
  BY <1>1, <1>2, <1>3, <1>4

\* A failing inference ends the worker and the process together.
LEMMA ProcessThrowsStep == ASSUME IInv, ProcessThrows PROVE IInv'
<1> USE DEF IInv, ProcessThrows, connVars, workVars
<1>1. TypeOK'
  BY DEF TypeOK
<1>2. Quiet' /\ SessionsFollow'
  BY DEF Quiet, SessionsFollow
<1>3. LateOnce'
  BY DEF LateOnce
<1>4. FlightInv'
  BY FlightStays DEF TypeOK, InHand, Live
<1>5. QED
  BY <1>1, <1>2, <1>3, <1>4

\* The worker's loop test, with nothing in hand.
LEMMA CheckStep == ASSUME IInv, Check PROVE IInv'
<1> USE DEF IInv, Check, mainVars, connVars, workVars
<1>1. TypeOK'
  BY DEF TypeOK
<1>2. Quiet' /\ SessionsFollow'
  BY DEF Quiet, SessionsFollow
<1>3. LateOnce'
  BY DEF LateOnce
<1>4. FlightInv'
  BY FlightStays DEF TypeOK, InHand, Live
<1>5. QED
  BY <1>1, <1>2, <1>3, <1>4

\* The worker drops a task only when its session is gone, and so its connection closed.
LEMMA LookupStep == ASSUME IInv, Lookup PROVE IInv'
<1> USE DEF IInv, Lookup, mainVars, connVars, workVars
<1>1. task \in Tasks /\ task.conn \in Conns
  BY DEF FlightInv, HandSound, InHand, Tasks
<1>2. TypeOK'
  BY DEF TypeOK
<1>3. Quiet' /\ SessionsFollow'
  BY DEF Quiet, SessionsFollow
<1>4. LateOnce'
  BY DEF LateOnce, SessionsFollow
<1>5. FlightInv'
  BY <1>1, FlightStays DEF TypeOK, InHand, Live, SessionsFollow
<1>6. QED
  BY <1>2, <1>3, <1>4, <1>5

-----------------------------------------------------------------------------
\* Queues and histories as functions on 1 .. Len.
LEMMA SequenceFacts ==
  ASSUME TypeOK
  PROVE  /\ task_queue_ \in Seq(Tasks) /\ Len(task_queue_) \in Nat
         /\ DOMAIN task_queue_ = 1 .. Len(task_queue_)
         /\ \A i \in DOMAIN task_queue_ : task_queue_[i] \in Tasks
         /\ \A c \in Conns :
              /\ accepted[c] \in Seq(Tasks) /\ Len(accepted[c]) \in Nat
              /\ DOMAIN accepted[c] = 1 .. Len(accepted[c])
              /\ \A i \in DOMAIN accepted[c] : accepted[c][i] \in Tasks
              /\ replies[c] \in Seq(Tasks) /\ Len(replies[c]) \in Nat
              /\ DOMAIN replies[c] = 1 .. Len(replies[c])
              /\ \A i \in DOMAIN replies[c] : replies[c][i] \in Tasks
BY DEF TypeOK

\* on_message adds one task, the newest of its connection, to the history and to the
\* queue, and leaves what came before as it was.
LEMMA OnMessageStep ==
  ASSUME IInv, NEW c \in Conns, NEW m \in Metas \cup {NoMeta}, OnMessage(c, m)
  PROVE  IInv'
<1> USE DEF IInv, FlightInv, mainVars, workVars, workerVars
<1>0. PICK t : t = Task(c, frames[c] + 1, m)
  OBVIOUS
<1>1. /\ main = "running" /\ conn[c] = "open" /\ UNCHANGED <<main, running_, conn, sessions_>>
      /\ UNCHANGED <<worker, task, resp, meta, replies, late>>
      /\ frames' = [frames EXCEPT ![c] = @ + 1] /\ frames[c] < MaxFrames
      /\ accepted' = [accepted EXCEPT ![c] = Append(@, t)]
      /\ task_queue_' = Append(task_queue_, t)
  BY <1>0 DEF OnMessage, Enqueue
<1>2. frames \in [Conns -> 0 .. MaxFrames] /\ frames[c] + 1 \in 1 .. MaxFrames
  BY <1>1, ServerAssumption DEF TypeOK
<1>3. t \in Tasks /\ t.conn = c /\ t.frame = frames[c] + 1
  <2>1. m \in AnyMeta
    BY ServerAssumption DEF NoMeta, AnyMeta
  <2>2. QED
    BY <1>0, <1>2, <2>1 DEF Task, Tasks
<1>4. /\ accepted'[c] = Append(accepted[c], t) /\ Len(accepted'[c]) = Len(accepted[c]) + 1
      /\ accepted'[c][Len(accepted[c]) + 1] = t
      /\ \A d \in Conns : d # c => accepted'[d] = accepted[d]
      /\ \A d \in Conns : \A i \in 1 .. Len(accepted[d]) : accepted'[d][i] = accepted[d][i]
      /\ \A d \in Conns : Len(accepted'[d]) \in Nat /\ Len(accepted'[d]) >= Len(accepted[d])
      /\ \A d \in Conns : DOMAIN accepted'[d] = 1 .. Len(accepted'[d])
  BY <1>1, <1>3, SequenceFacts DEF TypeOK
<1>5. /\ Len(task_queue_') = Len(task_queue_) + 1 /\ DOMAIN task_queue_' = 1 .. Len(task_queue_) + 1
      /\ task_queue_'[Len(task_queue_) + 1] = t
      /\ \A i \in 1 .. Len(task_queue_) : task_queue_'[i] = task_queue_[i]
  BY <1>1, <1>3, SequenceFacts
<1>6. frames'[c] = frames[c] + 1 /\ \A d \in Conns : d # c => frames'[d] = frames[d]
  BY <1>1, <1>2
<1>7. \A d \in Conns : Len(replies[d]) <= Len(accepted[d])
  BY DEF RepliesInOrder
<1>8. TypeOK'
  <2>1. accepted' \in [Conns -> Seq(Tasks)] /\ task_queue_' \in Seq(Tasks)
    BY <1>1, <1>3, SequenceFacts DEF TypeOK
  <2>2. frames' \in [Conns -> 0 .. MaxFrames]
    BY <1>1, <1>2
  <2>3. QED
    BY <1>1, <2>1, <2>2 DEF TypeOK
<1>9. Quiet' /\ SessionsFollow' /\ LateOnce' /\ HandSound'
  BY <1>1, <1>4 DEF Quiet, SessionsFollow, LateOnce, HandSound, InHand
<1>10. AcceptedSound'
  <2>1. ASSUME NEW d \in Conns, NEW i \in DOMAIN accepted'[d]
        PROVE  accepted'[d][i].conn = d /\ accepted'[d][i].frame <= frames'[d]
    <3>1. CASE i \in 1 .. Len(accepted[d])
      <4>1. accepted[d][i].conn = d /\ accepted[d][i].frame <= frames[d]
        BY <3>1, SequenceFacts DEF AcceptedSound
      <4>2. accepted[d][i].frame \in Nat
        BY <3>1, SequenceFacts DEF Tasks
      <4>3. frames[d] \in Int
        BY <1>2
      <4>4. QED
        BY <1>4, <1>6, <3>1, <4>1, <4>2, <4>3
    <3>2. CASE i \notin 1 .. Len(accepted[d])
      <4>1. d = c /\ i = Len(accepted[c]) + 1
        BY <1>4, <3>2, SequenceFacts
      <4>2. QED
        BY <1>2, <1>3, <1>4, <1>6, <4>1
    <3>3. QED
      BY <3>1, <3>2
  <2>2. ASSUME NEW d \in Conns, NEW i \in DOMAIN accepted'[d], NEW j \in DOMAIN accepted'[d],
               i < j
        PROVE  accepted'[d][i].frame < accepted'[d][j].frame
    <3>1. i \in 1 .. Len(accepted[d])
      BY <1>4, <2>2, SequenceFacts
    <3>2. CASE j \in 1 .. Len(accepted[d])
      BY <1>4, <2>2, <3>1, <3>2, SequenceFacts DEF AcceptedSound
    <3>3. CASE j \notin 1 .. Len(accepted[d])
      <4>1. d = c /\ j = Len(accepted[c]) + 1
        BY <1>4, <3>3, SequenceFacts
      <4>2. accepted[c][i].frame <= frames[c] /\ accepted[c][i].frame \in Nat
        BY <3>1, <4>1, SequenceFacts DEF AcceptedSound, Tasks
      <4>3. QED
        BY <1>2, <1>3, <1>4, <3>1, <4>1, <4>2
    <3>4. QED
      BY <3>2, <3>3
  <2>3. QED
    BY <2>1, <2>2 DEF AcceptedSound
<1>11. \A u \in Tasks : Unanswered(u) => Unanswered(u)' /\ (u.conn = c => u.frame <= frames[c])
  <2> SUFFICES ASSUME NEW u \in Tasks, Unanswered(u)
               PROVE  Unanswered(u)' /\ (u.conn = c => u.frame <= frames[c])
    OBVIOUS
  <2>1. u.conn \in Conns
    BY DEF Tasks
  <2>2. PICK k \in 1 .. Len(accepted[u.conn]) :
             k > Len(replies[u.conn]) /\ accepted[u.conn][k] = u
    BY <2>1, SequenceFacts DEF Unanswered
  <2>3. k \in DOMAIN accepted'[u.conn] /\ accepted'[u.conn][k] = u
    BY <1>4, <2>1, <2>2, SequenceFacts
  <2>4. Unanswered(u)'
    BY <1>1, <2>2, <2>3 DEF Unanswered
  <2>5. QED
    BY <2>1, <2>2, <2>4, SequenceFacts DEF AcceptedSound
<1>12. InFlightUnanswered'
  <2>1. Unanswered(t)'
    <3>1. Len(accepted[c]) + 1 \in DOMAIN accepted'[c]
      BY <1>4, SequenceFacts
    <3>2. Len(accepted[c]) + 1 > Len(replies[c])
      BY <1>7, SequenceFacts
    <3>3. QED
      BY <1>1, <1>3, <1>4, <3>1, <3>2 DEF Unanswered
  <2>2. ASSUME NEW i \in DOMAIN task_queue_' PROVE Unanswered(task_queue_[i])'
    <3>1. PICK u \in Tasks : u = task_queue_'[i] /\ (u = t \/ Unanswered(u))
      BY <1>3, <1>5, SequenceFacts DEF InFlightUnanswered
    <3>2. Unanswered(u)'
      BY <1>11, <2>1, <3>1
    <3>3. QED
      BY <3>1, <3>2 DEF Unanswered
  <2>3. InHand => Unanswered(task)'
    <3>1. InHand => \E u \in Tasks : u = task /\ Unanswered(u)
      BY DEF InFlightUnanswered, HandSound
    <3>2. QED
      BY <1>1, <1>11, <3>1 DEF Unanswered
  <2>4. InHand' => InHand
    BY <1>1 DEF InHand
  <2>5. QED
    BY <2>2, <2>3, <2>4 DEF InFlightUnanswered
<1>13. InFlightInOrder'
  <2>1. ASSUME NEW u \in Tasks, Unanswered(u), u.conn = c PROVE u.frame < t.frame
    <3>1. u.frame \in Nat /\ u.frame <= frames[c]
      BY <1>11, <2>1 DEF Tasks
    <3>2. QED
      BY <1>2, <1>3, <3>1
  <2>2. ASSUME NEW i \in DOMAIN task_queue_', NEW j \in DOMAIN task_queue_', i < j,
               task_queue_'[i].conn = task_queue_'[j].conn
        PROVE  task_queue_'[i].frame < task_queue_'[j].frame
    <3>1. i \in 1 .. Len(task_queue_)
      BY <1>5, <2>2, SequenceFacts
    <3>2. CASE j \in 1 .. Len(task_queue_)
      BY <1>5, <2>2, <3>1, <3>2, SequenceFacts DEF InFlightInOrder
    <3>3. CASE j \notin 1 .. Len(task_queue_)
      <4>1. j = Len(task_queue_) + 1
        BY <1>5, <3>3, SequenceFacts
      <4>2. task_queue_[i] \in Tasks /\ Unanswered(task_queue_[i])
        BY <3>1, SequenceFacts DEF InFlightUnanswered
      <4>3. QED
        BY <1>3, <1>5, <2>1, <2>2, <3>1, <4>1, <4>2
    <3>4. QED
      BY <3>2, <3>3
  <2>3. ASSUME InHand, NEW i \in DOMAIN task_queue_', task_queue_'[i].conn = task.conn
        PROVE  task.frame < task_queue_'[i].frame
    <3>1. CASE i \in 1 .. Len(task_queue_)
      BY <1>5, <2>3, <3>1, SequenceFacts DEF InFlightInOrder
    <3>2. CASE i \notin 1 .. Len(task_queue_)
      <4>1. i = Len(task_queue_) + 1
        BY <1>5, <3>2, SequenceFacts
      <4>2. task \in Tasks /\ Unanswered(task)
        BY <2>3 DEF HandSound, InFlightUnanswered
      <4>3. QED
        BY <1>3, <1>5, <2>1, <2>3, <4>1, <4>2
    <3>3. QED
      BY <3>1, <3>2
  <2>4. QED
    BY <1>1, <2>2, <2>3 DEF InFlightInOrder, InHand
<1>14. NothingLost'
  <2> SUFFICES ASSUME NEW d \in Conns, Live(d)', NEW k \in DOMAIN accepted'[d], k > Len(replies'[d])
               PROVE  InFlight(accepted[d][k])'
    BY DEF NothingLost
  <2>1. CASE k \in 1 .. Len(accepted[d])
    <3>1. InFlight(accepted[d][k])
      BY <1>1, <2>1, SequenceFacts DEF NothingLost, Live
    <3>2. accepted'[d][k] = accepted[d][k]
      BY <1>4, <2>1
    <3>3. CASE InHand /\ task = accepted[d][k]
      BY <1>1, <3>2, <3>3 DEF InFlight, InHand
    <3>4. CASE \E i \in DOMAIN task_queue_ : task_queue_[i] = accepted[d][k]
      <4>1. PICK i \in 1 .. Len(task_queue_) : task_queue_[i] = accepted[d][k]
        BY <3>4, SequenceFacts
      <4>2. i \in DOMAIN task_queue_' /\ task_queue_'[i] = accepted'[d][k]
        BY <1>5, <3>2, <4>1, SequenceFacts
      <4>3. QED
        BY <4>2 DEF InFlight
    <3>5. QED
      BY <3>1, <3>3, <3>4 DEF InFlight
  <2>2. CASE k \notin 1 .. Len(accepted[d])
    <3>1. d = c /\ k = Len(accepted[c]) + 1
      BY <1>4, <2>2, SequenceFacts
    <3>2. Len(task_queue_) + 1 \in DOMAIN task_queue_'
      BY <1>5, SequenceFacts
    <3>3. QED
      BY <1>4, <1>5, <3>1, <3>2 DEF InFlight
  <2>3. QED
    BY <2>1, <2>2
<1>15. RepliesInOrder'
  BY <1>1, <1>4, <1>7, SequenceFacts DEF RepliesInOrder
<1>16. \A d \in Conns : \A k \in 0 .. Len(accepted[d]) : \A f : Latest(d, k, f)' = Latest(d, k, f)
  <2> SUFFICES ASSUME NEW d \in Conns, NEW k \in 0 .. Len(accepted[d]), NEW f
               PROVE  Latest(d, k, f)' = Latest(d, k, f)
    OBVIOUS
  <2>1. k \in Nat /\ \A i \in 1 .. k : accepted'[d][i] = accepted[d][i]
    BY <1>4, SequenceFacts
  <2>2. QED
    BY <2>1, LatestStays
<1>17. RepliesCarryMeta'
  <2> SUFFICES ASSUME NEW d \in Conns, NEW i \in DOMAIN replies[d], NEW f \in Fields
               PROVE  replies[d][i].meta[f] = Latest(d, i, f)'
    BY <1>1 DEF RepliesCarryMeta
  <2>1. i \in 0 .. Len(accepted[d])
    BY <1>7, SequenceFacts
  <2>2. QED
    BY <1>16, <2>1 DEF RepliesCarryMeta
<1>18. MetaCurrent'
  <2> SUFFICES ASSUME NEW d \in Conns, Live(d)', NEW f \in Fields
               PROVE  meta[d][f] = Latest(d, Processed(d), f)'
    BY <1>1 DEF MetaCurrent
  <2>1. Processed(d)' = Processed(d)
    BY <1>1 DEF Processed
  <2>2. Processed(d) \in 0 .. Len(accepted[d])
    <3>1. CASE worker = "send" /\ resp.conn = d
      <4>1. PICK k \in DOMAIN accepted[d] : k > Len(replies[d])
        BY <3>1 DEF InFlightUnanswered, Unanswered, HandSound, InHand
      <4>2. Processed(d) = Len(replies[d]) + 1
        BY <3>1 DEF Processed
      <4>3. QED
        BY <4>1, <4>2, SequenceFacts
    <3>2. CASE ~(worker = "send" /\ resp.conn = d)
      <4>1. Len(replies[d]) \in Nat /\ Processed(d) = Len(replies[d]) + 0
        BY <3>2, SequenceFacts DEF Processed
      <4>2. QED
        BY <1>7, <4>1, SequenceFacts
    <3>3. QED
      BY <3>1, <3>2
  <2>3. Latest(d, Processed(d), f)' = Latest(d, Processed(d), f)
    BY <1>16, <2>1, <2>2
  <2>4. QED
    BY <1>1, <2>3 DEF MetaCurrent, Live
<1>19. QED
  BY <1>8, <1>9, <1>10, <1>12, <1>13, <1>14, <1>15, <1>17, <1>18

\* pop() moves the oldest task from the queue into the worker's hands.
LEMMA PopStep == ASSUME IInv, Pop PROVE IInv'
<1> USE DEF IInv, FlightInv, mainVars, connVars, workVars
<1>1. /\ worker = "pop" /\ task_queue_ # <<>> /\ worker' = "lookup"
      /\ task' = Head(task_queue_) /\ task_queue_' = Tail(task_queue_)
      /\ UNCHANGED <<main, running_, conn, sessions_, frames, accepted, resp>>
      /\ UNCHANGED <<meta, replies, late>>
  BY DEF Pop
<1>2. ~InHand /\ InHand' /\ \A c \in Conns : Live(c)' <=> Live(c)
  BY <1>1 DEF InHand, Live
<1>3. /\ Len(task_queue_) >= 1 /\ 1 \in DOMAIN task_queue_ /\ task' = task_queue_[1]
      /\ task' \in Tasks
      /\ task_queue_' \in Seq(Tasks) /\ Len(task_queue_') = Len(task_queue_) - 1
      /\ DOMAIN task_queue_' = 1 .. Len(task_queue_) - 1
      /\ \A i \in 1 .. Len(task_queue_) - 1 :
           i + 1 \in DOMAIN task_queue_ /\ task_queue_'[i] = task_queue_[i + 1]
  BY <1>1, SequenceFacts
<1>4. TypeOK'
  BY <1>1, <1>3 DEF TypeOK
<1>5. Quiet' /\ SessionsFollow' /\ LateOnce' /\ HandSound' /\ AcceptedSound' /\ RepliesInOrder'
  BY <1>1, <1>3 DEF Quiet, SessionsFollow, LateOnce, HandSound, AcceptedSound, RepliesInOrder
<1>6. InFlightUnanswered'
  <2>1. Unanswered(task)'
    BY <1>1, <1>3 DEF InFlightUnanswered, Unanswered
  <2>2. ASSUME NEW i \in DOMAIN task_queue_' PROVE Unanswered(task_queue_[i])'
    <3>1. i + 1 \in DOMAIN task_queue_ /\ task_queue_'[i] = task_queue_[i + 1]
      BY <1>3
    <3>2. Unanswered(task_queue_[i + 1])
      BY <3>1 DEF InFlightUnanswered
    <3>3. QED
      BY <1>1, <3>1, <3>2 DEF Unanswered
  <2>3. QED
    BY <2>1, <2>2 DEF InFlightUnanswered
<1>7. InFlightInOrder'
  <2>1. ASSUME NEW i \in DOMAIN task_queue_', NEW j \in DOMAIN task_queue_', i < j,
               task_queue_'[i].conn = task_queue_'[j].conn
        PROVE  task_queue_'[i].frame < task_queue_'[j].frame
    <3>1. i + 1 < j + 1 /\ i + 1 \in DOMAIN task_queue_ /\ j + 1 \in DOMAIN task_queue_
      BY <1>3, <2>1, SequenceFacts
    <3>2. QED
      BY <1>3, <2>1, <3>1 DEF InFlightInOrder
  <2>2. ASSUME NEW i \in DOMAIN task_queue_', task_queue_'[i].conn = task'.conn
        PROVE  task'.frame < task_queue_'[i].frame
    <3>1. 1 < i + 1 /\ i + 1 \in DOMAIN task_queue_
      BY <1>3, SequenceFacts
    <3>2. QED
      BY <1>3, <2>2, <3>1 DEF InFlightInOrder
  <2>3. QED
    BY <2>1, <2>2 DEF InFlightInOrder
<1>8. NothingLost'
  <2> SUFFICES ASSUME NEW c \in Conns, Live(c), NEW k \in DOMAIN accepted[c], k > Len(replies[c])
               PROVE  InFlight(accepted[c][k])'
    BY <1>1, <1>2 DEF NothingLost
  <2>1. PICK i \in DOMAIN task_queue_ : task_queue_[i] = accepted[c][k]
    BY <1>2 DEF NothingLost, InFlight
  <2>2. CASE i = 1
    BY <1>1, <1>2, <1>3, <2>1, <2>2 DEF InFlight
  <2>3. CASE i # 1
    <3>1. i - 1 \in DOMAIN task_queue_' /\ (i - 1) + 1 = i
      BY <1>3, <2>3, SequenceFacts
    <3>2. task_queue_'[i - 1] = accepted'[c][k]
      BY <1>1, <1>3, <2>1, <3>1
    <3>3. QED
      BY <3>1, <3>2 DEF InFlight
  <2>4. QED
    BY <2>2, <2>3
<1>9. \A c \in Conns, k \in Nat : \A f : Latest(c, k, f)' = Latest(c, k, f)
  BY <1>1 DEF Latest
<1>10. RepliesCarryMeta'
  <2> SUFFICES ASSUME NEW c \in Conns, NEW i \in DOMAIN replies[c], NEW f \in Fields
               PROVE  replies[c][i].meta[f] = Latest(c, i, f)'
    BY <1>1 DEF RepliesCarryMeta
  <2>1. i \in Nat
    BY SequenceFacts
  <2>2. QED
    BY <1>9, <2>1 DEF RepliesCarryMeta
<1>11. MetaCurrent'
  <2> SUFFICES ASSUME NEW c \in Conns, Live(c), NEW f \in Fields
               PROVE  meta[c][f] = Latest(c, Processed(c), f)'
    BY <1>1, <1>2 DEF MetaCurrent
  <2>1. Processed(c)' = Processed(c) /\ Processed(c) \in Nat
    BY <1>1, SequenceFacts DEF Processed
  <2>2. Latest(c, Processed(c), f)' = Latest(c, Processed(c), f)
    BY <1>9, <2>1
  <2>3. QED
    BY <2>2 DEF MetaCurrent
<1>12. QED
  BY <1>4, <1>5, <1>6, <1>7, <1>8, <1>10, <1>11

\* Processing the frame that is due brings the session's metadata up to it.
LEMMA ProcessStep == ASSUME IInv, Process PROVE IInv'
<1> USE DEF IInv, FlightInv, mainVars, connVars
<1>1. /\ worker = "process" /\ worker' = "send"
      /\ meta' = [meta EXCEPT ![task.conn] = Updated(@, task.meta)]
      /\ resp' = Task(task.conn, task.frame, meta'[task.conn])
      /\ late' = IF conn[task.conn] = "closed" THEN [late EXCEPT ![task.conn] = @ + 1] ELSE late
      /\ UNCHANGED <<main, running_, conn, sessions_, frames, accepted>>
      /\ UNCHANGED <<task_queue_, task, replies>>
  BY DEF Process
<1>2. InHand /\ InHand' /\ \A c \in Conns : Live(c)' <=> Live(c)
  BY <1>1 DEF InHand, Live
<1>3. task \in Tasks /\ task.conn \in Conns /\ task.frame \in Nat /\ task.meta \in AnyMeta
  BY <1>2 DEF HandSound, Tasks
<1>4. Updated(meta[task.conn], task.meta) \in AnyMeta
  <2>1. meta[task.conn] \in AnyMeta
    BY <1>3 DEF TypeOK
  <2>2. QED
    BY <1>3, <2>1 DEF Updated, AnyMeta
<1>5. /\ meta' \in [Conns -> AnyMeta]
      /\ meta'[task.conn] = Updated(meta[task.conn], task.meta)
      /\ \A c \in Conns : c # task.conn => meta'[c] = meta[c]
  BY <1>1, <1>3, <1>4 DEF TypeOK
<1>6. /\ resp' \in Tasks /\ resp'.conn = task.conn /\ resp'.frame = task.frame
      /\ resp'.meta = meta'[task.conn]
  BY <1>1, <1>3, <1>5 DEF Task, Tasks
<1>7. TypeOK'
  <2>1. late' \in [Conns -> Nat]
    BY <1>1, <1>3 DEF TypeOK
  <2>2. QED
    BY <1>1, <1>5, <1>6, <2>1 DEF TypeOK
<1>8. Quiet'
  <2>1. conn[task.conn] # "new"
    BY <1>2, <1>3 DEF Quiet, InFlightUnanswered, Unanswered
  <2>2. QED
    BY <1>1, <1>5, <2>1 DEF Quiet
<1>9. SessionsFollow'
  BY <1>1 DEF SessionsFollow
<1>10. LateOnce'
  <2> SUFFICES ASSUME NEW c \in Conns
               PROVE  /\ late'[c] <= 1
                      /\ late'[c] = 1 => conn[c] = "closed"
    BY <1>1 DEF LateOnce
  <2>1. late[c] \in Nat /\ late[c] <= 1 /\ (late[c] = 1 => conn[c] = "closed" /\ c # task.conn)
    BY <1>1 DEF TypeOK, LateOnce
  <2>2. CASE c = task.conn /\ conn[c] = "closed"
    BY <1>1, <1>3, <2>1, <2>2 DEF TypeOK
  <2>3. CASE ~(c = task.conn /\ conn[c] = "closed")
    BY <1>1, <1>3, <2>1, <2>3 DEF TypeOK
  <2>4. QED
    BY <2>2, <2>3
<1>11. HandSound'
  BY <1>1, <1>3, <1>6 DEF HandSound
<1>12. AcceptedSound' /\ RepliesInOrder'
  BY <1>1 DEF AcceptedSound, RepliesInOrder
<1>13. InFlightUnanswered' /\ InFlightInOrder' /\ NothingLost'
  <2>1. InFlightUnanswered'
    BY <1>1, <1>2 DEF InFlightUnanswered, Unanswered
  <2>2. InFlightInOrder'
    BY <1>1, <1>2 DEF InFlightInOrder
  <2>3. NothingLost'
    BY <1>1, <1>2 DEF NothingLost, InFlight
  <2>4. QED
    BY <2>1, <2>2, <2>3
<1>14. \A c \in Conns, k \in Nat : \A f : Latest(c, k, f)' = Latest(c, k, f)
  BY <1>1 DEF Latest
<1>15. RepliesCarryMeta'
  <2> SUFFICES ASSUME NEW c \in Conns, NEW i \in DOMAIN replies[c], NEW f \in Fields
               PROVE  replies[c][i].meta[f] = Latest(c, i, f)'
    BY <1>1 DEF RepliesCarryMeta
  <2>1. i \in Nat
    BY SequenceFacts
  <2>2. QED
    BY <1>14, <2>1 DEF RepliesCarryMeta
<1>16. MetaCurrent'
  <2> SUFFICES ASSUME NEW c \in Conns, Live(c), NEW f \in Fields
               PROVE  meta'[c][f] = Latest(c, Processed(c), f)'
    BY <1>2 DEF MetaCurrent
  <2>1. Len(replies[c]) \in Nat /\ Processed(c) = Len(replies[c]) + 0
    BY <1>1, SequenceFacts DEF Processed
  <2>2. meta[c][f] = Latest(c, Len(replies[c]), f)
    BY <2>1 DEF MetaCurrent
  <2>3. CASE c = task.conn
    <3>1. Processed(c)' = Len(replies[c]) + 1
      BY <1>1, <1>6, <2>3 DEF Processed
    <3>2. accepted[c][Len(replies[c]) + 1] = task
      BY <1>2, <2>3, HandIsNext
    <3>3. meta'[c][f] = IF task.meta[f] # NoName THEN task.meta[f] ELSE meta[c][f]
      BY <1>5, <2>3 DEF Updated
    <3>4. meta'[c][f] = Latest(c, Len(replies[c]) + 1, f)
      BY <2>1, <2>2, <3>2, <3>3, LatestOfNext
    <3>5. Latest(c, Len(replies[c]) + 1, f)' = Latest(c, Len(replies[c]) + 1, f)
      BY <1>1 DEF Latest
    <3>6. Latest(c, Processed(c), f)' = Latest(c, Len(replies[c]) + 1, f)'
      BY <1>1, <3>1 DEF Latest
    <3>7. QED
      BY <3>4, <3>5, <3>6
  <2>4. CASE c # task.conn
    <3>1. Processed(c)' = Len(replies[c]) + 0
      BY <1>1, <1>6, <2>4 DEF Processed
    <3>2. Latest(c, Processed(c), f)' = Latest(c, Len(replies[c]), f)
      BY <1>1, <2>1, <3>1 DEF Latest
    <3>3. QED
      BY <1>5, <2>2, <2>4, <3>2
  <2>5. QED
    BY <2>3, <2>4
<1>17. QED
  BY <1>7, <1>8, <1>9, <1>10, <1>11, <1>12, <1>13, <1>15, <1>16

\* send() on a connection that is not live reaches nobody.
LEMMA SendToNobodyStep ==
  ASSUME IInv, Send, ~Live(resp.conn) PROVE IInv'
<1> USE DEF IInv, FlightInv, mainVars, connVars
<1>1. /\ worker = "send" /\ worker' = "check"
      /\ UNCHANGED <<main, running_, conn, sessions_, frames, accepted, late>>
      /\ UNCHANGED <<task_queue_, task, resp, meta, replies>>
  BY DEF Send, Live
<1>2. InHand /\ ~InHand' /\ \A c \in Conns : Live(c)' <=> Live(c)
  BY <1>1 DEF InHand, Live
<1>3. task \in Tasks /\ resp.conn = task.conn /\ task.conn \in Conns
  BY <1>1, <1>2 DEF HandSound, Tasks
<1>4. TypeOK' /\ Quiet' /\ SessionsFollow' /\ LateOnce'
  BY <1>1 DEF TypeOK, Quiet, SessionsFollow, LateOnce
<1>5. HandSound' /\ AcceptedSound' /\ RepliesInOrder'
  BY <1>1, <1>2 DEF HandSound, AcceptedSound, RepliesInOrder
<1>6. InFlightUnanswered' /\ InFlightInOrder'
  BY <1>1, <1>2 DEF InFlightUnanswered, Unanswered, InFlightInOrder
<1>7. NothingLost'
  <2> SUFFICES ASSUME NEW c \in Conns, Live(c), NEW k \in DOMAIN accepted[c], k > Len(replies[c])
               PROVE  InFlight(accepted[c][k])'
    BY <1>1, <1>2 DEF NothingLost
  <2>1. accepted[c][k].conn = c /\ c # task.conn
    BY <1>3 DEF AcceptedSound
  <2>2. InFlight(accepted[c][k])
    BY DEF NothingLost
  <2>3. QED
    BY <1>1, <2>1, <2>2 DEF InFlight
<1>8. \A c \in Conns, k \in Nat : \A f : Latest(c, k, f)' = Latest(c, k, f)
  BY <1>1 DEF Latest
<1>9. RepliesCarryMeta'
  <2> SUFFICES ASSUME NEW c \in Conns, NEW i \in DOMAIN replies[c], NEW f \in Fields
               PROVE  replies[c][i].meta[f] = Latest(c, i, f)'
    BY <1>1 DEF RepliesCarryMeta
  <2>1. i \in Nat
    BY SequenceFacts
  <2>2. QED
    BY <1>8, <2>1 DEF RepliesCarryMeta
<1>10. MetaCurrent'
  <2> SUFFICES ASSUME NEW c \in Conns, Live(c), NEW f \in Fields
               PROVE  meta[c][f] = Latest(c, Processed(c), f)'
    BY <1>1, <1>2 DEF MetaCurrent
  <2>1. resp.conn # c
    OBVIOUS
  <2>2. Processed(c)' = Processed(c) /\ Processed(c) \in Nat
    BY <1>1, <2>1, SequenceFacts DEF Processed
  <2>3. Latest(c, Processed(c), f)' = Latest(c, Processed(c), f)
    BY <1>8, <2>2
  <2>4. QED
    BY <2>3 DEF MetaCurrent
<1>11. QED
  BY <1>4, <1>5, <1>6, <1>7, <1>9, <1>10

\* On a live connection the reply that is sent is the one due, with the metadata in
\* force at its frame.
LEMMA SendStep ==
  ASSUME IInv, Send, Live(resp.conn) PROVE IInv'
<1> USE DEF IInv, FlightInv, mainVars, connVars
<1>0. PICK c \in Conns : c = resp.conn
  BY DEF Send, HandSound, Tasks
<1>1. /\ worker = "send" /\ worker' = "check" /\ Live(c)
      /\ UNCHANGED <<main, running_, conn, sessions_, frames, accepted, late>>
      /\ UNCHANGED <<task_queue_, task, resp, meta>>
      /\ replies' = [replies EXCEPT ![c] = Append(@, resp)]
  BY <1>0 DEF Send, Live
<1>2. InHand /\ ~InHand' /\ \A d \in Conns : Live(d)' <=> Live(d)
  BY <1>1 DEF InHand, Live
<1>3. /\ task \in Tasks /\ resp \in Tasks /\ resp.conn = c /\ task.conn = c
      /\ resp.frame = task.frame /\ resp.meta = meta[c]
  BY <1>0, <1>1, <1>2 DEF HandSound
<1>4. Len(replies[c]) + 1 \in DOMAIN accepted[c] /\ accepted[c][Len(replies[c]) + 1] = task
  BY <1>1, <1>2, <1>3, HandIsNext
<1>5. /\ Len(replies'[c]) = Len(replies[c]) + 1 /\ replies'[c][Len(replies[c]) + 1] = resp
      /\ \A d \in Conns : d # c => replies'[d] = replies[d]
      /\ \A d \in Conns : \A i \in 1 .. Len(replies[d]) : replies'[d][i] = replies[d][i]
      /\ \A d \in Conns : DOMAIN replies'[d] = 1 .. Len(replies'[d])
      /\ \A d \in Conns : Len(replies'[d]) \in Nat
  BY <1>1, <1>3, SequenceFacts DEF TypeOK
<1>6. TypeOK'
  <2>1. replies' \in [Conns -> Seq(Tasks)]
    BY <1>1, <1>3, SequenceFacts DEF TypeOK
  <2>2. QED
    BY <1>1, <2>1 DEF TypeOK
<1>7. Quiet' /\ SessionsFollow' /\ LateOnce' /\ HandSound' /\ AcceptedSound'
  <2>1. conn[c] = "open" /\ main = "running"
    BY <1>1 DEF Live
  <2>2. Quiet'
    BY <1>1, <1>5, <2>1 DEF Quiet
  <2>3. QED
    BY <1>1, <1>2, <2>2 DEF SessionsFollow, LateOnce, HandSound, AcceptedSound
<1>8. InFlightUnanswered'
  <2> SUFFICES ASSUME NEW i \in DOMAIN task_queue_ PROVE Unanswered(task_queue_[i])'
    BY <1>1, <1>2 DEF InFlightUnanswered
  <2>1. task_queue_[i] \in Tasks /\ task_queue_[i].conn \in Conns
    BY SequenceFacts DEF Tasks
  <2>2. PICK k \in DOMAIN accepted[task_queue_[i].conn] :
             /\ k > Len(replies[task_queue_[i].conn])
             /\ accepted[task_queue_[i].conn][k] = task_queue_[i]
    BY DEF InFlightUnanswered, Unanswered
  <2>3. CASE task_queue_[i].conn = c
    <3>1. task.frame < task_queue_[i].frame
      BY <1>2, <1>3, <2>3 DEF InFlightInOrder
    <3>2. task.frame \in Nat
      BY <1>3 DEF Tasks
    <3>3. k # Len(replies[c]) + 1
      BY <1>4, <2>2, <2>3, <3>1, <3>2
    <3>4. k > Len(replies'[c])
      BY <1>5, <2>2, <2>3, <3>3, SequenceFacts
    <3>5. QED
      BY <1>1, <2>2, <2>3, <3>4 DEF Unanswered
  <2>4. CASE task_queue_[i].conn # c
    BY <1>1, <1>5, <2>1, <2>2, <2>4 DEF Unanswered
  <2>5. QED
    BY <2>3, <2>4
<1>9. InFlightInOrder'
  BY <1>1, <1>2 DEF InFlightInOrder
<1>10. NothingLost'
  <2> SUFFICES ASSUME NEW d \in Conns, Live(d), NEW k \in DOMAIN accepted[d], k > Len(replies'[d])
               PROVE  InFlight(accepted[d][k])'
    BY <1>1, <1>2 DEF NothingLost
  <2>1. k \in Nat /\ k > Len(replies[d])
    BY <1>5, SequenceFacts
  <2>2. InFlight(accepted[d][k])
    BY <2>1 DEF NothingLost
  <2>3. accepted[d][k] # task
    <3>1. CASE d = c
      <4>1. Len(replies[c]) + 1 < k
        BY <1>5, <2>1, <3>1, SequenceFacts
      <4>2. accepted[c][Len(replies[c]) + 1].frame < accepted[c][k].frame
        BY <1>4, <3>1, <4>1 DEF AcceptedSound
      <4>3. task.frame \in Nat
        BY <1>3 DEF Tasks
      <4>4. QED
        BY <1>4, <3>1, <4>2, <4>3
    <3>2. CASE d # c
      BY <1>3, <3>2 DEF AcceptedSound
    <3>3. QED
      BY <3>1, <3>2
  <2>4. QED
    BY <1>1, <2>2, <2>3 DEF InFlight
<1>11. RepliesInOrder'
  <2>1. ASSUME NEW d \in Conns PROVE Len(replies'[d]) <= Len(accepted[d])
    <3>1. CASE d = c
      BY <1>4, <1>5, <3>1, SequenceFacts
    <3>2. CASE d # c
      BY <1>5, <3>2 DEF RepliesInOrder
    <3>3. QED
      BY <3>1, <3>2
  <2>2. ASSUME NEW d \in Conns, NEW i \in DOMAIN replies'[d]
        PROVE  replies'[d][i].conn = d /\ replies'[d][i].frame = accepted[d][i].frame
    <3>1. CASE i \in 1 .. Len(replies[d])
      BY <1>5, <3>1, SequenceFacts DEF RepliesInOrder
    <3>2. CASE i \notin 1 .. Len(replies[d])
      <4>1. d = c /\ i = Len(replies[c]) + 1
        BY <1>5, <3>2, SequenceFacts
      <4>2. QED
        BY <1>3, <1>4, <1>5, <4>1
    <3>3. QED
      BY <3>1, <3>2
  <2>3. QED
    BY <1>1, <2>1, <2>2 DEF RepliesInOrder
<1>12. \A d \in Conns, k \in Nat : \A f : Latest(d, k, f)' = Latest(d, k, f)
  BY <1>1 DEF Latest
<1>13. \A f \in Fields : meta[c][f] = Latest(c, Len(replies[c]) + 1, f)
  <2>1. Processed(c) = Len(replies[c]) + 1
    BY <1>1, <1>3 DEF Processed
  <2>2. QED
    BY <1>1, <2>1 DEF MetaCurrent
<1>14. RepliesCarryMeta'
  <2> SUFFICES ASSUME NEW d \in Conns, NEW i \in DOMAIN replies'[d], NEW f \in Fields
               PROVE  replies'[d][i].meta[f] = Latest(d, i, f)'
    BY DEF RepliesCarryMeta
  <2>1. i \in Nat /\ Latest(d, i, f)' = Latest(d, i, f)
    BY <1>5, <1>12
  <2>2. CASE i \in 1 .. Len(replies[d])
    BY <1>5, <2>1, <2>2, SequenceFacts DEF RepliesCarryMeta
  <2>3. CASE i \notin 1 .. Len(replies[d])
    <3>1. d = c /\ i = Len(replies[c]) + 1
      BY <1>5, <2>3, SequenceFacts
    <3>2. QED
      BY <1>3, <1>5, <1>13, <2>1, <3>1
  <2>4. QED
    BY <2>2, <2>3
<1>15. MetaCurrent'
  <2> SUFFICES ASSUME NEW d \in Conns, Live(d), NEW f \in Fields
               PROVE  meta[d][f] = Latest(d, Processed(d), f)'
    BY <1>1, <1>2 DEF MetaCurrent
  <2>1. Processed(d)' = Processed(d)
    <3>1. CASE d = c
      BY <1>1, <1>3, <1>5, <3>1, SequenceFacts DEF Processed
    <3>2. CASE d # c
      BY <1>1, <1>3, <1>5, <3>2, SequenceFacts DEF Processed
    <3>3. QED
      BY <3>1, <3>2
  <2>2. Processed(d) \in Nat
    <3>1. Len(replies[d]) \in Nat
      BY SequenceFacts
    <3>2. Processed(d) = Len(replies[d]) + 1 \/ Processed(d) = Len(replies[d]) + 0
      BY DEF Processed
    <3>3. QED
      BY <3>1, <3>2
  <2>3. Latest(d, Processed(d), f)' = Latest(d, Processed(d), f)
    BY <1>12, <2>1, <2>2
  <2>4. QED
    BY <2>3 DEF MetaCurrent
<1>16. QED
  BY <1>6, <1>7, <1>8, <1>9, <1>10, <1>11, <1>14, <1>15

-----------------------------------------------------------------------------
\* Every step of either thread, and of the clients, keeps the invariant.
LEMMA NextStep == IInv /\ [Next]_serverVars => IInv'
<1> SUFFICES ASSUME IInv, [Next]_serverVars PROVE IInv'
  OBVIOUS
<1>1. CASE Main
  BY <1>1, StartStep, ListenStep, StopJoinStep DEF Main
<1>2. CASE Handler
  BY <1>2, OnOpenStep, OnOpenThrowsStep, DisconnectStep, OnCloseStep, OnMessageStep,
     OnMessageIgnoredStep DEF Handler
<1>3. CASE Worker
  BY <1>3, CheckStep, PopStep, LookupStep, ProcessStep, SendStep, SendToNobodyStep DEF Worker
<1>4. CASE ProcessThrows
  BY <1>4, ProcessThrowsStep
<1>5. CASE UNCHANGED serverVars
  <2> USE <1>5 DEF IInv, serverVars, mainVars, connVars, workerVars, workVars
  <2>1. TypeOK' /\ Quiet' /\ SessionsFollow' /\ LateOnce'
    BY DEF TypeOK, Quiet, SessionsFollow, LateOnce
  <2>2. FlightInv'
    BY FlightStays DEF TypeOK, InHand, Live
  <2>3. QED
    BY <2>1, <2>2
<1>6. QED
  BY <1>1, <1>2, <1>3, <1>4, <1>5 DEF Next

\* The inductive invariant holds throughout.
THEOREM Invariant == Spec => []IInv
BY InitIInv, NextStep, PTL DEF Spec

\* Every queue, history and local variable stays within its type.
THEOREM Types == Spec => []TypeOK
<1>1. IInv => TypeOK
  BY DEF IInv
<1>2. QED
  BY <1>1, Invariant, PTL

\* A client's replies answer its frames one by one and in order, whatever the other
\* clients, the closes and the failures around them.
THEOREM InOrder == Spec => []RepliesInOrder
<1>1. IInv => RepliesInOrder
  BY DEF IInv, FlightInv
<1>2. QED
  BY <1>1, Invariant, PTL

\* Each reply carries the metadata in force at its own frame.
THEOREM MetaInForce == Spec => []RepliesCarryMeta
<1>1. IInv => RepliesCarryMeta
  BY DEF IInv, FlightInv
<1>2. QED
  BY <1>1, Invariant, PTL

\* A closed connection costs at most the task already past the session lookup.
THEOREM LateWork == Spec => []LateWorkBounded
<1>1. IInv => LateWorkBounded
  BY DEF IInv, LateOnce, LateWorkBounded
<1>2. QED
  BY <1>1, Invariant, PTL

\* No accepted frame of a live connection is lost: its reply was sent, or its task is
\* in the queue or in the worker's hands.
THEOREM NoFrameLost == Spec => []NothingLost
<1>1. IInv => NothingLost
  BY DEF IInv, FlightInv
<1>2. QED
  BY <1>1, Invariant, PTL
-----------------------------------------------------------------------------
(* AudioServer implements AudioService.                                      *)

\* serving and conn as AudioService sees them.
Serving ==
  CASE main \in {"init", "listening"} -> "not yet"
    [] main = "running" -> "now"
    [] OTHER -> "no more"
Open == [c \in Conns |-> IF conn[c] \in {"closing", "closed"} THEN "gone" ELSE conn[c]]

\* A step that takes no frame, sends nothing and leaves every connection where it is can
\* only move main, and that is a step of the service or none.
LEMMA MainRefines ==
  ASSUME TypeOK, UNCHANGED <<conn, accepted, replies>>,
         main' = main \/ (main = "init" /\ main' = "listening")
           \/ (main = "listening" /\ main' \in {"running", "stopping"})
           \/ main' \in {"stopping", "joining", "exited", "terminated"}
  PROVE  [Service!Next]_(Service!serviceVars)
<1>1. Open' = Open
  BY DEF Open
<1>2. Serving' = Serving \/ (Serving = "not yet" /\ Serving' = "now")
        \/ (Serving # "no more" /\ Serving' = "no more")
  BY DEF Serving, TypeOK
<1>3. QED
  BY <1>1, <1>2 DEF Serving, Open, Service!Next, Service!Serve, Service!Fail, Service!serviceVars

\* A connection that opens or starts to close does so in the service; on_close comes after
\* the service has already counted it as gone.
LEMMA ConnectionRefines ==
  ASSUME TypeOK, NEW c \in Conns, OnOpen(c) \/ Disconnect(c) \/ OnClose(c)
  PROVE  [Service!Next]_(Service!serviceVars)
<1> USE DEF mainVars, workVars
<1>1. main = "running" /\ UNCHANGED <<main, accepted, replies>> /\ Serving = "now" /\ Serving' = Serving
  BY DEF OnOpen, Disconnect, OnClose, connVars, Serving
<1>2. conn \in [Conns -> {"new", "open", "closing", "closed"}]
  BY DEF TypeOK
<1>3. CASE OnOpen(c)
  <2>1. Open[c] = "new" /\ Open' = [Open EXCEPT ![c] = "open"]
    BY <1>2, <1>3 DEF OnOpen, Open
  <2>2. Service!Connect(c)
    BY <1>1, <2>1 DEF Service!Connect, Serving, Open
  <2>3. QED
    BY <2>2 DEF Service!Next
<1>4. CASE Disconnect(c)
  <2>1. Open[c] = "open" /\ Open' = [Open EXCEPT ![c] = "gone"]
    BY <1>2, <1>4 DEF Disconnect, Open
  <2>2. Service!Leave(c)
    BY <1>1, <2>1 DEF Service!Leave, Serving, Open
  <2>3. QED
    BY <2>2 DEF Service!Next
<1>5. CASE OnClose(c)
  <2>1. Open' = Open
    BY <1>2, <1>5 DEF OnClose, Open
  <2>2. QED
    BY <1>1, <2>1 DEF Service!serviceVars, Serving, Open
<1>6. QED
  BY <1>3, <1>4, <1>5

\* on_message takes the frame, whose number is above all taken before.
LEMMA AcceptRefines ==
  ASSUME IInv, NEW c \in Conns, NEW m \in Metas \cup {NoMeta}, OnMessage(c, m)
  PROVE  Service!Next
<1> DEFINE n == frames[c] + 1
<1>1. /\ main = "running" /\ conn[c] = "open" /\ frames[c] < MaxFrames
      /\ UNCHANGED <<main, conn, replies>>
      /\ accepted' = [accepted EXCEPT ![c] = Append(@, [conn |-> c, frame |-> n, meta |-> m])]
  BY DEF OnMessage, mainVars, workVars, Task
<1>2. frames[c] \in 0 .. MaxFrames /\ MaxFrames \in Nat /\ accepted[c] \in Seq(Tasks)
  BY ServerAssumption DEF IInv, TypeOK
<1>3. n \in 1 .. MaxFrames
  BY <1>1, <1>2
<1>4. ASSUME NEW i \in DOMAIN accepted[c] PROVE accepted[c][i].frame < n
  <2>1. accepted[c][i] \in Tasks
    BY <1>2
  <2>2. accepted[c][i].frame \in Nat
    BY <2>1 DEF Tasks
  <2>3. accepted[c][i].frame <= frames[c]
    BY DEF IInv, FlightInv, AcceptedSound
  <2>4. QED
    BY <1>2, <2>2, <2>3
<1>5. Serving = "now" /\ Serving' = Serving /\ Open[c] = "open" /\ Open' = Open
  BY <1>1 DEF Serving, Open
<1>6. Service!Accept(c, n, m)
  <2> HIDE DEF n
  <2> QED
    BY <1>1, <1>4, <1>5 DEF Service!Accept, Serving, Open
<1>7. QED
  BY <1>3, <1>6 DEF Service!Next

\* The metadata in force at the reply that is due are those of the reply before it, with
\* what its own frame names.
LEMMA MetaIsNamed ==
  ASSUME IInv, NEW c \in Conns, Len(replies[c]) + 1 \in DOMAIN accepted[c],
         NEW m \in AnyMeta, \A f \in Fields : m[f] = Latest(c, Len(replies[c]) + 1, f)
  PROVE  m = Service!Named(Service!Session(c), accepted[c][Len(replies[c]) + 1].meta)
<1> DEFINE k == Len(replies[c])
           given == accepted[c][k + 1].meta
           old == Service!Session(c)
<1>1. replies[c] \in Seq(Tasks) /\ k \in Nat
  BY DEF IInv, TypeOK
<1>2. ASSUME NEW f \in Fields PROVE old[f] = Latest(c, k, f)
  <2>1. CASE replies[c] = <<>>
    <3>1. k = 0 /\ Latest(c, 0, f) = FirstMeta(c)[f]
      BY <2>1 DEF Latest
    <3>2. old = FirstMeta(c)
      BY <2>1 DEF Service!Session, FirstMeta, NoMeta
    <3>3. QED
      BY <3>1, <3>2
  <2>2. CASE replies[c] # <<>>
    <3>1. k \in DOMAIN replies[c]
      BY <1>1, <2>2
    <3>2. replies[c][k].meta[f] = Latest(c, k, f)
      BY <3>1 DEF IInv, FlightInv, RepliesCarryMeta
    <3>3. QED
      BY <2>2, <3>2 DEF Service!Session
  <2>3. QED
    BY <2>1, <2>2
<1>3. ASSUME NEW f \in Fields
      PROVE  m[f] = IF given[f] # NoName THEN given[f] ELSE old[f]
  <2>1. Latest(c, k + 1, f) = IF given[f] # NoName THEN given[f] ELSE Latest(c, k, f)
    BY <1>1, LatestOfNext
  <2>2. QED
    BY <1>2, <2>1
<1>4. m = [f \in Fields |-> m[f]]
  BY DEF AnyMeta
<1>5. QED
  <2> HIDE DEF given, old
  <2>1. m = [f \in Fields |-> IF given[f] # NoName THEN given[f] ELSE old[f]]
    BY <1>3, <1>4
  <2>2. QED
    BY <2>1 DEF Service!Named, given, old

\* A reply that reaches the client is the service's answer.
LEMMA AnswerRefines ==
  ASSUME IInv, Send, Live(resp.conn)
  PROVE  Service!Next
<1>1. PICK c \in Conns : c = resp.conn
  BY DEF Send, IInv, FlightInv, HandSound, Tasks
<1> DEFINE next == Len(replies[c]) + 1
           due == accepted[c][next]
<1>2. /\ worker = "send" /\ main = "running" /\ conn[c] = "open"
      /\ UNCHANGED <<main, conn, accepted>>
      /\ replies' = [replies EXCEPT ![c] = Append(@, resp)]
  BY <1>1 DEF Send, Live, mainVars, connVars
<1>3. /\ InHand /\ resp \in Tasks /\ resp.conn = c /\ task.conn = c
      /\ resp.frame = task.frame /\ resp.meta = meta[c]
  BY <1>1, <1>2 DEF InHand, IInv, FlightInv, HandSound
<1>4. next \in DOMAIN accepted[c] /\ due = task
  BY <1>1, <1>3, HandIsNext DEF IInv
<1>5. Len(replies[c]) \in Nat /\ Len(accepted[c]) \in Nat /\ DOMAIN accepted[c] = 1 .. Len(accepted[c])
  BY DEF IInv, TypeOK
<1>6. Len(replies[c]) < Len(accepted[c])
  BY <1>4, <1>5
<1>7. resp.meta = Service!Named(Service!Session(c), due.meta)
  <2>1. Processed(c) = next
    BY <1>2, <1>3 DEF Processed
  <2>2. \A f \in Fields : resp.meta[f] = Latest(c, next, f)
    BY <1>1, <1>2, <1>3, <2>1 DEF IInv, FlightInv, MetaCurrent, Live
  <2>3. resp.meta \in AnyMeta
    BY <1>3 DEF Tasks
  <2>4. QED
    BY <1>4, <2>2, <2>3, MetaIsNamed
<1>8. resp = [conn |-> c, frame |-> due.frame, meta |-> Service!Named(Service!Session(c), due.meta)]
  BY <1>3, <1>4, <1>7 DEF Tasks
<1>9. Serving = "now" /\ Serving' = Serving /\ Open[c] = "open" /\ Open' = Open
  BY <1>2 DEF Serving, Open
<1>10. Service!Answer(c)
  BY <1>2, <1>6, <1>8, <1>9 DEF Service!Answer, Serving, Open
<1>11. QED
  BY <1>10 DEF Service!Next

\* Every step of the server is one of the service, or none: frames are taken by
\* on_message and answered by a send() that arrives, and the way of a task from one to
\* the other does not show.
LEMMA StepRefines == IInv /\ [Next]_serverVars => [Service!Next]_(Service!serviceVars)
<1> SUFFICES ASSUME IInv, [Next]_serverVars PROVE [Service!Next]_(Service!serviceVars)
  OBVIOUS
<1> USE DEF mainVars, connVars, workVars
<1>1. TypeOK
  BY DEF IInv
<1>2. CASE Main
  <2>1. UNCHANGED <<conn, accepted, replies>>
    BY <1>2 DEF Main, Start, Listen, Stop, Join
  <2>2. \/ main = "init" /\ main' = "listening"
        \/ main = "listening" /\ main' \in {"running", "stopping"}
        \/ main' \in {"joining", "exited"}
    BY <1>2 DEF Main, Start, Listen, Stop, Join
  <2>3. QED
    BY <1>1, <2>1, <2>2, MainRefines
<1>3. ASSUME NEW c \in Conns, OnOpen(c) \/ Disconnect(c) \/ OnClose(c)
      PROVE  [Service!Next]_(Service!serviceVars)
  BY <1>1, <1>3, ConnectionRefines
<1>4. ASSUME NEW c \in Conns, OnOpenThrows(c) \/ OnMessageIgnored(c)
      PROVE  [Service!Next]_(Service!serviceVars)
  <2>1. UNCHANGED <<conn, accepted, replies>> /\ (main' = "stopping" \/ main' = main)
    BY <1>4 DEF OnOpenThrows, OnMessageIgnored
  <2>2. QED
    BY <1>1, <2>1, MainRefines
<1>5. ASSUME NEW c \in Conns, NEW m \in Metas \cup {NoMeta}, OnMessage(c, m)
      PROVE  [Service!Next]_(Service!serviceVars)
  BY <1>5, AcceptRefines
<1>6. CASE Worker
  <2>1. CASE Send /\ Live(resp.conn)
    BY <2>1, AnswerRefines
  <2>2. CASE ~(Send /\ Live(resp.conn))
    <3>1. UNCHANGED <<main, conn, accepted, replies>>
      BY <1>6, <2>2 DEF Worker, Check, Pop, Lookup, Process, Send, Live
    <3>2. QED
      BY <1>1, <3>1, MainRefines
  <2>3. QED
    BY <2>1, <2>2
<1>7. CASE ProcessThrows
  <2>1. UNCHANGED <<conn, accepted, replies>> /\ main' = "terminated"
    BY <1>7 DEF ProcessThrows
  <2>2. QED
    BY <1>1, <2>1, MainRefines
<1>8. CASE UNCHANGED serverVars
  <2>1. UNCHANGED <<main, conn, accepted, replies>>
    BY <1>8 DEF serverVars
  <2>2. QED
    BY <1>1, <2>1, MainRefines
<1>9. QED
  BY <1>2, <1>3, <1>4, <1>5, <1>6, <1>7, <1>8 DEF Next, Handler

\* The server keeps what AudioService promises its clients, whatever the interleaving of
\* its threads, the closes and the failures.
THEOREM Refinement == Spec => ImplementsService
<1>1. Init => Service!Init
  BY DEF Init, Service!Init
<1>2. QED
  BY <1>1, StepRefines, Invariant, PTL DEF Spec, ImplementsService, Service!Spec
=============================================================================
