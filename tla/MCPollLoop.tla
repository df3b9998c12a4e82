----------------------------- MODULE MCPollLoop -----------------------------
(* Model values of the PollLoop runs. *)
EXTENDS PollLoop

CONSTANTS h1, h2, h3, h4

MCHandles == {h1, h2, h3, h4}
=============================================================================
