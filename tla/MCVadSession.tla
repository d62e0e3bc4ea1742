---------------------------- MODULE MCVadSession ----------------------------
(* Values for VadSession's set-valued constants. *)
EXTENDS VadSession

NoLimit == {}
NoTail == {}
=============================================================================
