--------------------------- MODULE MCAnalysisPool ---------------------------
(* Small instances of AnalysisPool for TLC. *)
EXTENDS AnalysisPool

\* A long prompt, and a short one with an answer.  With prices 0 and 1 (what
\* prompts cost is below the unit) and the limits of pool_limits three of the
\* first reach the token limit, three of the second the dollar limit, and two of
\* each the step limit alone.
MCCalls == {[in |-> 5, out |-> 0], [in |-> 1, out |-> 1]}
=============================================================================
