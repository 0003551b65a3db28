SPECIFICATION FairSpec
CONSTANT
    Scenarios <- All
INVARIANTS
    TypeOK
    MessagesKept
    TranscriptsAgree
    CallsPaired
    NoOpenCall
    EventsOfRunNest
PROPERTIES
    RunEnds
    SteeringMessagesInjected
