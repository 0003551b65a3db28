SPECIFICATION FairSpec
CONSTANT
    Scenarios <- OnlyThrowing
INVARIANTS
    IdleIsQuiet
