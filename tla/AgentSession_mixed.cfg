SPECIFICATION FairSpec
CONSTANTS
    c1 = c1
    c2 = c2
    Callers <- Two
    Scenarios <- Mixed
    MaxRetries = 2
    MaxSilent = 2
    NoOne = NoOne
INVARIANTS
    TypeOK
    SavedInOrder
    Agreement
    RetriesBounded
PROPERTIES
    CompactionKeepsRest
    PromptReturns
CHECK_DEADLOCK FALSE
