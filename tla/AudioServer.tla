----------------------------- MODULE AudioServer -----------------------------
(***************************************************************************)
(* AudioServer (include/server.h, src/server.cpp) and main(): the main     *)
(* thread starts the worker, then runs every WebSocket handler itself      *)
(* inside srv_.run(); the worker thread takes tasks off task_queue_, works *)
(* on the task's Session and sends the reply.                              *)
(*                                                                         *)
(* task_queue_ is FIFO with atomic operations: SafeQueue shows that it is. *)
(* sessions_ is read and written under session_mutex_ only, so a handler   *)
(* and the worker's lookup are one step each. A frame's audio is its       *)
(* number; VadSession models what process_audio() makes of it.             *)
(* websocketpp is external: a connection leaves "open" on its own, send()  *)
(* fails unless it is "open", and on_close runs later on the main thread.  *)
(***************************************************************************)
EXTENDS Integers, Sequences, FiniteSets, FiniteSetsExt

CONSTANTS
  Conns,      \* connections: each opens and closes at most once
  Fields,     \* metadata fields: "uid", "connect_session", "current_session"
  Names,      \* their values
  NoName,     \* the empty string
  Metas,      \* metadata a text frame may carry
  MaxFrames   \* bound: frames per connection

ASSUME ServerAssumption ==
  /\ NoName \notin Names \cup Conns
  /\ Metas \subseteq [Fields -> Names \cup {NoName}]
  /\ MaxFrames \in Nat

VARIABLES
  main,        \* main(): "init", "listening", "running", "stopping" (an exception
               \* is unwinding into ~AudioServer), "joining", "exited", "terminated"
  running_,
  conn,        \* websocketpp's state of each connection
  sessions_,   \* the connections sessions_ has an entry for
  meta,        \* id_, connect_session_ and current_session_ of their sessions
  task_queue_,
  worker,      \* worker_loop(): "none", or its next step, or "ended"
  task, resp,  \* its locals
  frames,      \* history: frames that arrived, per connection
  accepted,    \* history: the tasks made of them
  replies,     \* history: the replies sent, per connection
  late         \* history: tasks processed after on_close of their connection

mainVars == <<main, running_>>
connVars == <<conn, sessions_, frames, accepted>>
workerVars == <<worker, task, resp>>
workVars == <<meta, replies, late>>
serverVars == <<mainVars, connVars, task_queue_, workerVars, workVars>>

NoMeta == [f \in Fields |-> NoName]

\* on_open's generated id, "user_<n>": the connection itself stands for it.
FirstMeta(c) == [NoMeta EXCEPT !["uid"] = c]

Task(c, n, m) == [conn |-> c, frame |-> n, meta |-> m]
NoTask == <<>>

Init ==
  /\ main = "init" /\ running_ = FALSE
  /\ conn = [c \in Conns |-> "new"] /\ sessions_ = {}
  /\ meta = [c \in Conns |-> FirstMeta(c)]
  /\ task_queue_ = <<>>
  /\ worker = "none" /\ task = NoTask /\ resp = NoTask
  /\ frames = [c \in Conns |-> 0]
  /\ accepted = [c \in Conns |-> <<>>]
  /\ replies = [c \in Conns |-> <<>>]
  /\ late = [c \in Conns |-> 0]

-----------------------------------------------------------------------------
(* The main thread: run(), the handlers, and the way out.                    *)

\* run() up to listen().
Start ==
  /\ main = "init"
  /\ main' = "listening"
  /\ running_' = TRUE
  /\ worker' = "check"
  /\ UNCHANGED <<connVars, task_queue_, task, resp, workVars>>

\* listen() throws when the port is taken.
Listen ==
  /\ main = "listening"
  /\ main' \in {"running", "stopping"}
  /\ UNCHANGED <<running_, connVars, task_queue_, workerVars, workVars>>

OnOpen(c) ==
  /\ main = "running" /\ conn[c] = "new"
  /\ conn' = [conn EXCEPT ![c] = "open"]
  /\ sessions_' = sessions_ \cup {c}
  /\ UNCHANGED <<mainVars, frames, accepted, task_queue_, workerVars, workVars>>

\* Session's constructor throws when the model cannot be loaded; no handler of
\* websocketpp catches it, so srv_.run() and run() do not return normally.
OnOpenThrows(c) ==
  /\ main = "running" /\ conn[c] = "new"
  /\ main' = "stopping"
  /\ UNCHANGED <<running_, connVars, task_queue_, workerVars, workVars>>

\* The connection starts to close, from either side.
Disconnect(c) ==
  /\ main = "running" /\ conn[c] = "open"
  /\ conn' = [conn EXCEPT ![c] = "closing"]
  /\ UNCHANGED <<mainVars, sessions_, frames, accepted, task_queue_, workerVars, workVars>>

OnClose(c) ==
  /\ main = "running" /\ conn[c] = "closing"
  /\ conn' = [conn EXCEPT ![c] = "closed"]
  /\ sessions_' = sessions_ \ {c}
  /\ UNCHANGED <<mainVars, frames, accepted, task_queue_, workerVars, workVars>>

\* Mutant of Enqueue: push at the front.
EnqueueFirst(t) == task_queue_' = <<t>> \o task_queue_

Enqueue(t) == task_queue_' = Append(task_queue_, t)

\* on_message for a frame that makes a task: text with audio and the metadata m, or
\* binary, which has none.
OnMessage(c, m) ==
  /\ main = "running" /\ conn[c] = "open" /\ frames[c] < MaxFrames
  /\ frames' = [frames EXCEPT ![c] = @ + 1]
  /\ accepted' = [accepted EXCEPT ![c] = Append(@, Task(c, frames[c] + 1, m))]
  /\ Enqueue(Task(c, frames[c] + 1, m))
  /\ UNCHANGED <<mainVars, conn, sessions_, workerVars, workVars>>

\* on_message for text without audio, or on which parsing or a field's conversion
\* throws: the frame is gone, whatever part of the task was already filled in.
OnMessageIgnored(c) ==
  /\ main = "running" /\ conn[c] = "open" /\ frames[c] < MaxFrames
  /\ frames' = [frames EXCEPT ![c] = @ + 1]
  /\ UNCHANGED <<mainVars, conn, sessions_, accepted, task_queue_, workerVars, workVars>>

\* stop(), called by ~AudioServer.
Stop ==
  /\ main = "stopping" /\ running_
  /\ running_' = FALSE
  /\ main' = "joining"
  /\ UNCHANGED <<connVars, task_queue_, workerVars, workVars>>

\* join() returns; main()'s catch block reports the exception and main() returns.
Join ==
  /\ main = "joining" /\ worker = "ended"
  /\ main' = "exited"
  /\ UNCHANGED <<running_, connVars, task_queue_, workerVars, workVars>>

-----------------------------------------------------------------------------
(* The worker thread: worker_loop().                                         *)

\* while (running_): a plain bool that stop() writes concurrently, so that the
\* worker may still read TRUE afterwards.
Check ==
  /\ worker = "check"
  /\ \/ worker' = "pop"
     \/ ~running_ /\ worker' = "ended"
  /\ UNCHANGED <<mainVars, connVars, task_queue_, task, resp, workVars>>

\* pop() blocks while the queue is empty, and has no other way out.
Pop ==
  /\ worker = "pop" /\ task_queue_ # <<>>
  /\ task' = Head(task_queue_)
  /\ task_queue_' = Tail(task_queue_)
  /\ worker' = "lookup"
  /\ UNCHANGED <<mainVars, connVars, resp, workVars>>

\* Mutants of Lookup: process without a session; wait for the session.
LookupAlways ==
  /\ worker = "lookup"
  /\ worker' = "process"
  /\ UNCHANGED <<mainVars, connVars, task_queue_, task, resp, workVars>>
LookupWaits ==
  /\ worker = "lookup" /\ task.conn \in sessions_
  /\ worker' = "process"
  /\ UNCHANGED <<mainVars, connVars, task_queue_, task, resp, workVars>>

Lookup ==
  /\ worker = "lookup"
  /\ worker' = IF task.conn \in sessions_ THEN "process" ELSE "check"
  /\ UNCHANGED <<mainVars, connVars, task_queue_, task, resp, workVars>>

\* Mutants of Updated: empty fields overwrite; only the given fields are kept.
UpdatedByAll(old, new) == new
UpdatedToGiven(old, new) == [f \in {g \in Fields : new[g] # NoName} |-> new[f]]

\* Lines 121-130: non-empty fields replace the session's.
Updated(old, new) == [f \in Fields |-> IF new[f] # NoName THEN new[f] ELSE old[f]]

\* The worker holds a shared_ptr, so it goes on when on_close erases the session.
Process ==
  /\ worker = "process"
  /\ meta' = [meta EXCEPT ![task.conn] = Updated(@, task.meta)]
  /\ resp' = Task(task.conn, task.frame, meta'[task.conn])
  /\ late' = IF conn[task.conn] = "closed" THEN [late EXCEPT ![task.conn] = @ + 1] ELSE late
  /\ worker' = "send"
  /\ UNCHANGED <<mainVars, connVars, task_queue_, task, replies>>

\* The ONNX runtime throws: nothing on the worker's stack catches it.
ProcessThrows ==
  /\ worker = "process" /\ main # "exited"
  /\ worker' = "ended"
  /\ main' = "terminated"
  /\ UNCHANGED <<running_, connVars, task_queue_, task, resp, workVars>>

\* send() throws on a connection that is not open; that is caught. What is sent when
\* srv_.run() has ended is never written to the socket.
Send ==
  /\ worker = "send"
  /\ worker' = "check"
  /\ replies' = IF conn[resp.conn] = "open" /\ main = "running"
                THEN [replies EXCEPT ![resp.conn] = Append(@, resp)] ELSE replies
  /\ UNCHANGED <<mainVars, connVars, task_queue_, task, resp, meta, late>>

-----------------------------------------------------------------------------
Main == Start \/ Listen \/ Stop \/ Join

Handler ==
  \E c \in Conns :
    \/ OnOpen(c) \/ OnOpenThrows(c) \/ Disconnect(c) \/ OnClose(c)
    \/ \E m \in Metas \cup {NoMeta} : OnMessage(c, m)
    \/ OnMessageIgnored(c)

Worker == Check \/ Pop \/ Lookup \/ Process \/ Send

Next == Main \/ Handler \/ Worker \/ ProcessThrows

\* Both threads are scheduled; clients and failures come as they like.
Fairness == WF_serverVars(Main) /\ WF_serverVars(Worker)

Spec == Init /\ [][Next]_serverVars /\ Fairness

-----------------------------------------------------------------------------
AnyMeta == [Fields -> Names \cup Conns \cup {NoName}]
Tasks == [conn : Conns, frame : Nat, meta : AnyMeta]

TypeOK ==
  /\ main \in {"init", "listening", "running", "stopping", "joining", "exited", "terminated"}
  /\ running_ \in BOOLEAN
  /\ conn \in [Conns -> {"new", "open", "closing", "closed"}]
  /\ sessions_ \in SUBSET Conns
  /\ meta \in [Conns -> AnyMeta]
  /\ task_queue_ \in Seq(Tasks)
  /\ worker \in {"none", "check", "pop", "lookup", "process", "send", "ended"}
  /\ task \in Tasks \cup {NoTask} /\ resp \in Tasks \cup {NoTask}
  /\ frames \in [Conns -> 0 .. MaxFrames]
  /\ accepted \in [Conns -> Seq(Tasks)]
  /\ replies \in [Conns -> Seq(Tasks)]
  /\ late \in [Conns -> Nat]

\* A client's replies answer its accepted frames one by one, in order, from the
\* first, each on the connection it came from, whatever the other connections and
\* the handlers do meanwhile: none skipped, doubled or swapped.
RepliesInOrder ==
  \A c \in Conns :
    /\ Len(replies[c]) <= Len(accepted[c])
    /\ \A i \in DOMAIN replies[c] : /\ replies[c][i].conn = c
                                    /\ replies[c][i].frame = accepted[c][i].frame

\* The latest non-empty value of field f in c's first k accepted frames.
Latest(c, k, f) ==
  LET given == {i \in 1 .. k : accepted[c][i].meta[f] # NoName}
  IN IF given = {} THEN FirstMeta(c)[f] ELSE accepted[c][Max(given)].meta[f]

\* Every reply names the session its frame named, or the one the client named last
\* before it; never one that a later frame or another client named.
RepliesCarryMeta ==
  \A c \in Conns : \A i \in DOMAIN replies[c] : \A f \in Fields :
    replies[c][i].meta[f] = Latest(c, i, f)

\* The two threads, the queue and the locks between them keep what AudioService promises
\* (and with it RepliesInOrder): a frame is answered when its reply is sent, on a
\* connection that leaves the service as soon as it starts to close.
Service == INSTANCE AudioService WITH
  serving <- CASE main \in {"init", "listening"} -> "not yet"
               [] main = "running" -> "now"
               [] OTHER -> "no more",
  conn <- [c \in Conns |-> IF conn[c] \in {"closing", "closed"} THEN "gone" ELSE conn[c]],
  Frames <- 1 .. MaxFrames,
  Metas <- Metas \cup {NoMeta}
ImplementsService == Service!Spec

\* A closed connection costs the worker at most the task it had in hand: tasks still
\* queued are dropped, so that an abandoned backlog delays nobody.
LateWorkBounded == \A c \in Conns : late[c] <= 1

\* While its connection stays open and the server runs, every accepted frame is
\* answered, however many other connections send, close or leave a backlog.
AcceptedIsAnswered ==
  \A c \in Conns : \A k \in 1 .. MaxFrames :
    Len(accepted[c]) >= k ~>
      Len(replies[c]) >= k \/ conn[c] # "open" \/ main # "running"

\* Once stop() waits for the worker, the worker ends, or the process is terminated by
\* a failing inference, or everything stops for good in one way only: the worker
\* blocked on an empty queue that nobody will push to.
StopEndsOrStarves ==
  main = "joining" ~>
    main \in {"exited", "terminated"} \/ [](worker = "pop" /\ task_queue_ = <<>>)

\* main() catches what run() throws, reports it and returns.
FailureIsReported == main = "stopping" ~> main = "exited"
=============================================================================
