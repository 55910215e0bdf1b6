SPECIFICATION Spec
CONSTANTS
    Procs = {p1, p2}
    Commands = {"process pdf", "analyze"}
    MaxClauses = 2
    Risks = {"high", "low"}
    Faults = {"no finding"}
INVARIANT
    HighRiskReported
