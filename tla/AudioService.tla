---------------------------- MODULE AudioService ----------------------------
(***************************************************************************)
(* What the service promises its clients, without threads or a queue: each *)
(* connection is a session of its own, whose frames are answered in their  *)
(* order, and a reply carries what its frame names and otherwise what the  *)
(* reply before it carried. How long an answer takes, and how the          *)
(* connections' answers are interleaved, is left open; once a connection   *)
(* or the service is gone, nothing is answered any more.                   *)
(***************************************************************************)
EXTENDS Integers, Sequences

CONSTANTS
  Conns, Fields, NoName,
  Frames,    \* numbers a frame may have
  Metas      \* what it may name

VARIABLES
  serving,   \* "not yet", "now", "no more"
  conn,      \* per connection: "new", "open", "gone"
  accepted,  \* per connection: the frames taken
  replies    \* per connection: their answers

serviceVars == <<serving, conn, accepted, replies>>

Init ==
  /\ serving = "not yet"
  /\ conn = [c \in Conns |-> "new"]
  /\ accepted = [c \in Conns |-> <<>>]
  /\ replies = [c \in Conns |-> <<>>]

Serve ==
  /\ serving = "not yet" /\ serving' = "now"
  /\ UNCHANGED <<conn, accepted, replies>>

Fail ==
  /\ serving # "no more" /\ serving' = "no more"
  /\ UNCHANGED <<conn, accepted, replies>>

Connect(c) ==
  /\ serving = "now" /\ conn[c] = "new"
  /\ conn' = [conn EXCEPT ![c] = "open"]
  /\ UNCHANGED <<serving, accepted, replies>>

Leave(c) ==
  /\ serving = "now" /\ conn[c] = "open"
  /\ conn' = [conn EXCEPT ![c] = "gone"]
  /\ UNCHANGED <<serving, accepted, replies>>

\* Frames are numbered as they come; those that are not taken leave a gap.
Accept(c, n, m) ==
  /\ serving = "now" /\ conn[c] = "open"
  /\ \A i \in DOMAIN accepted[c] : accepted[c][i].frame < n
  /\ accepted' = [accepted EXCEPT ![c] = Append(@, [conn |-> c, frame |-> n, meta |-> m])]
  /\ UNCHANGED <<serving, conn, replies>>

\* What the client has named so far, as of the latest reply; at first, only who it is.
Session(c) ==
  IF replies[c] = <<>> THEN [[f \in Fields |-> NoName] EXCEPT !["uid"] = c]
  ELSE replies[c][Len(replies[c])].meta

Named(old, given) == [f \in Fields |-> IF given[f] # NoName THEN given[f] ELSE old[f]]

Answer(c) ==
  LET due == accepted[c][Len(replies[c]) + 1]
  IN /\ serving = "now" /\ conn[c] = "open"
     /\ Len(replies[c]) < Len(accepted[c])
     /\ replies' = [replies EXCEPT ![c] =
          Append(@, [conn |-> c, frame |-> due.frame, meta |-> Named(Session(c), due.meta)])]
     /\ UNCHANGED <<serving, conn, accepted>>

Next ==
  \/ Serve \/ Fail
  \/ \E c \in Conns : Connect(c) \/ Leave(c) \/ Answer(c)
  \/ \E c \in Conns, n \in Frames, m \in Metas : Accept(c, n, m)

Spec == Init /\ [][Next]_serviceVars
=============================================================================
