----------------------------- MODULE MCDupMarker -----------------------------
(* Model values of the DupMarker runs. *)
EXTENDS DupMarker

CONSTANTS c1, c2, c3, c4

MCCalls == {c1, c2, c3, c4}
MCApproved == {c3}
=============================================================================
