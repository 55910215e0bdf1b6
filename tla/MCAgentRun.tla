----------------------------- MODULE MCAgentRun -----------------------------
(* AgentRun for TLC: the processes are model values. *)
EXTENDS AgentRun, TLC

CONSTANTS p1, p2

Symmetry == Permutations(Procs)
=============================================================================
