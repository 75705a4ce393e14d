---------------------------- MODULE MCPollOwnership ----------------------------
(* Instances of PollOwnership for TLC.                                       *)
EXTENDS PollOwnership, TLC

CONSTANTS d1, d2, a1, a2, c1, c2

(* Devices are interchangeable, and so are commands. *)
Symmetry == Permutations(Devices) \cup Permutations(Commands)
=============================================================================
