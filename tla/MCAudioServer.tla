---------------------------- MODULE MCAudioServer ----------------------------
(* Values for AudioServer's set-valued constants. *)
EXTENDS AudioServer

CONSTANTS c1, c2, a, b

TwoFields == {"uid", "current_session"}
\* Frames that name the user, or the user and the session.
NamesSome == {[NoMeta EXCEPT !["uid"] = a], [f \in Fields |-> a]}
NoMetas == {}
=============================================================================
