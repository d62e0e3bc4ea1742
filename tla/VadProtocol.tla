---------------------------- MODULE VadProtocol ----------------------------
(***************************************************************************)
(* What a client may rely on: each message of audio is answered by one     *)
(* reply; replies bracket speech as VAD_BEGIN SPEAKING* VAD_END with       *)
(* SILENCE in between; and VAD_END carries exactly the audio of the        *)
(* replies since VAD_BEGIN and its own message. VadSession implements it   *)
(* (MCVadSession.cfg) for messages of at most one detector window.         *)
(***************************************************************************)
EXTENDS VadReplies

CONSTANT ChunkBytes   \* the message sizes a client uses

VARIABLES
  received,   \* bytes of the messages answered so far
  phase,      \* "SILENCE" or "SPEAKING"
  segment,    \* the audio of the replies since VAD_BEGIN
  reply       \* the latest reply

protocolVars == <<received, phase, segment, reply>>

Init ==
  /\ received = 0
  /\ phase = "SILENCE"
  /\ segment = <<>>
  /\ reply = Reply("none", <<>>)

Silence(c) ==
  /\ phase = "SILENCE"
  /\ reply' = Reply("SILENCE", <<>>)
  /\ UNCHANGED <<phase, segment>>

Begin(c) ==
  /\ phase = "SILENCE"
  /\ phase' = "SPEAKING"
  /\ segment' = Insert(<<>>, c)
  /\ reply' = Reply("VAD_BEGIN", Insert(<<>>, c))

Speaking(c) ==
  /\ phase = "SPEAKING"
  /\ segment' = Insert(segment, c)
  /\ reply' = Reply("SPEAKING", Insert(<<>>, c))
  /\ UNCHANGED phase

End(c) ==
  /\ phase = "SPEAKING"
  /\ phase' = "SILENCE"
  /\ segment' = <<>>
  /\ reply' = Reply("VAD_END", Insert(segment, c))

Next ==
  \E n \in ChunkBytes :
    LET c == [from |-> received, to |-> received + n] IN
      /\ received' = received + n
      /\ Silence(c) \/ Begin(c) \/ Speaking(c) \/ End(c)

Spec == Init /\ [][Next]_protocolVars
=============================================================================
