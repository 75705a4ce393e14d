------------------------------ MODULE MCPollHealth ------------------------------
(* Instances of PollHealth for TLC. *)
EXTENDS PollHealth
=============================================================================
