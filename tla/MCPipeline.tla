----------------------------- MODULE MCPipeline -----------------------------
(* Small instances of Pipeline for TLC. *)
EXTENDS Pipeline, TLC

\* Processes are interchangeable: used by the runs that check safety only.
Symmetry == Permutations(Procs)
=============================================================================
