SPECIFICATION Spec
SYMMETRY Symmetry
CONSTANTS
    Procs = {p1, p2}
    Commands = {"process pdf", "process --review pdf", "process pdf --review", "extract", "extract-clauses", "analyze", "review", "resume", "summarize"}
    MaxClauses = 2
    Risks = {"high"}
    Faults = {"abort"}
INVARIANTS
    DataBehindStatus
    AnalysisBehindStatus
    ReviewGate
    DecisionsReported
    IInv
PROPERTY
    ImplementsWorkflow
