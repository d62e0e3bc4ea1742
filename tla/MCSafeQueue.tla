----------------------------- MODULE MCSafeQueue -----------------------------
(* Thread names for SafeQueue. *)
EXTENDS SafeQueue
CONSTANTS p1, p2, w1, w2
=============================================================================
