SPECIFICATION FairSpec
CONSTANTS
    NumClauses = 3
    Concurrency = 2
    AgentSteps = 2
    MaxTokens = 15
    MaxCost = 3
    MaxSteps = 4
    Calls <- MCCalls
    Retries = 1
    Condensing = 1
    InPrice = 0
    OutPrice = 1
    ModelKnown = TRUE
    Faults = {"llm error", "signal"}
INVARIANTS
    PoolInv
    StepOvershoot
    TokenOvershoot
    CostOvershoot
    TotalsComplete
    RowsTellTheOutcome
    HalfDoneBounded
PROPERTIES
    RunEnds
CHECK_DEADLOCK FALSE
