SPECIFICATION FairSpec
CONSTANTS
    c1 = c1
    c2 = c2
    Callers <- Two
    Scenarios <- Eager
    MaxRetries = 1
    MaxSilent = 1
    NoOne = NoOne
PROPERTIES
    EverySessionSettles
CHECK_DEADLOCK FALSE
