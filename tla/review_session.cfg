SPECIFICATION FairSpec
CONSTANTS
    NumClauses = 3
    MaxLines = 4
    MaxSessions = 2
INVARIANTS
    DecisionsAsTyped
    InOrderOnce
PROPERTIES
    SessionEnds
    ImplementsReview
CHECK_DEADLOCK FALSE
