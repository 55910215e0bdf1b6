SPECIFICATION FairStageSpec
CONSTANTS
    NumClauses = 3
    Concurrency = 2
    AgentSteps = 2
    MaxTokens = 0
    MaxCost = 0
    MaxSteps = 3
    Calls <- MCCalls
    Retries = 0
    Condensing = 0
    InPrice = 0
    OutPrice = 0
    ModelKnown = TRUE
    Faults = {"llm error"}
    MaxCuts = 2
INVARIANTS
    StatusHonest
    StepsAcrossRuns
    LossBounded
PROPERTIES
    ImplementsStage
    PaidOnce
    AnalysisCompletes
