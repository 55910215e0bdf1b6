SPECIFICATION FairSpec
CONSTANTS
    Procs = {p1}
    Commands = {"process pdf", "process --review pdf", "process pdf --review", "extract", "extract-clauses", "analyze", "review", "resume", "summarize"}
    MaxClauses = 3
    Risks = {"high"}
    Faults = {"abort", "no finding", "lost row"}
INVARIANTS
    ReportMatchesReview
PROPERTIES
    StatusForward
    ResumableStagesAdvance
