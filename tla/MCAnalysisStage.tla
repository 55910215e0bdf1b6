-------------------------- MODULE MCAnalysisStage --------------------------
(* Small instances of AnalysisStage for TLC. *)
EXTENDS AnalysisStage

\* The limit is one of steps: a call is a call.
MCCalls == {[in |-> 1, out |-> 1]}
=============================================================================
