SPECIFICATION Spec
CONSTANTS
    MaxRetries = 2
    BaseDelay = 2
    MaxDuration = 7
    Errors = {"wrapped", "permanent"}
    AgentSteps = 5
    KeepRecent = 3
    Window = 10
    CompactAt = 8
    TruncateAt = 3
    Marker = 1
    Provider = "anthropic"
    PromptSize = 2
    ResultSizes = {1, 5}
    SummarySizes = {1, 3}
    MaxCalls = 2
INVARIANT
    ResultsDelivered
CHECK_DEADLOCK FALSE
