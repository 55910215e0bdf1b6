SPECIFICATION FairSpec
CONSTANTS
    p1 = p1
    p2 = p2
    Procs = {p1}
    AgentSteps = 4
    Faults = {"abort", "signal", "lost step", "lost finish", "failed row"}
    MaxCuts = 3
INVARIANTS
    CallsBounded
    NothingAskedTwice
    SubmissionsPassed
PROPERTY
    RunFinishes
