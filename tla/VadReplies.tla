----------------------------- MODULE VadReplies -----------------------------
(***************************************************************************)
(* Audio and replies, as VadSession and VadProtocol see them. Audio is     *)
(* named by its position in the connection's byte stream: a message is the *)
(* interval [from, to) of it, and a buffer the sequence of maximal         *)
(* intervals its bytes come from.                                          *)
(***************************************************************************)
EXTENDS Naturals, Sequences

Chunk == [from : Nat, to : Nat]

\* vector::insert(end): audio with the message c at its end.
Insert(audio, c) ==
  LET n == Len(audio) IN
    IF c.from = c.to THEN audio
    ELSE IF n > 0 /\ audio[n].to = c.from THEN [audio EXCEPT ![n].to = c.to]
    ELSE Append(audio, c)

\* build_vad_response(); uid and session names are AudioServer's metadata.
Reply(state, audio) == [vad_state |-> state, vad_audio |-> audio]
=============================================================================
