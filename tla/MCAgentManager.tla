---------------------------- MODULE MCAgentManager ----------------------------
(* Instances of AgentManager for TLC. *)
EXTENDS AgentManager, TLC

CONSTANTS k1, k2, q1, q2, r1, r2, r3

(* Providers, requests and goroutines are interchangeable. *)
Symmetry == Permutations(Keys) \cup Permutations(Requests) \cup Permutations(Runs)
=============================================================================
