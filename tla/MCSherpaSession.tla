--------------------------- MODULE MCSherpaSession -------------------------
(* Values are plain numbers: see MCSherpaSession.cfg. *)
EXTENDS SherpaSession
=============================================================================
