SPECIFICATION FairSpec
CONSTANTS
    MaxRetries = 2
    BaseDelay = 2
    MaxDuration = 7
    Errors = {"wrapped", "permanent"}
    AgentSteps = 5
    KeepRecent = 3
    Window = 10
    CompactAt = 8
    TruncateAt = 3
    Marker = 1
    Provider = "openai"
    PromptSize = 2
    ResultSizes = {1, 5}
    SummarySizes = {1, 3}
    MaxCalls = 2
INVARIANTS
    PairsKept
    RequestFits
    LastCallAnnounced
PROPERTIES
    RecentKept
    CallKept
    BackoffGrows
    ConversationEnds
CHECK_DEADLOCK FALSE
