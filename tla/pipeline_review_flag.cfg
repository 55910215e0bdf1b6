SPECIFICATION Spec
CONSTANTS
    Procs = {p1}
    Commands = {"process pdf --review", "review", "resume", "summarize"}
    MaxClauses = 2
    Risks = {"high"}
    Faults = {"abort"}
INVARIANT
    RequestedReviewHappens
