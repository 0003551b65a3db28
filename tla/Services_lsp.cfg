SPECIFICATION Services
CONSTANTS
    p1 = p1
    p2 = p2
    Procs <- Two
    Parts = {"lsp"}
    MaxFaults = 1
    Paths = {"theme", "retry"}
    Values = {"a", "b"}
    Asks <- AsksOfTwo
    MaxSets = 3
    OAuth = {"oauth"}
    Keys = {"key"}
    MaxToken = 2
    MaxAuthCalls = 4
    MaxClients = 2
    MaxEdits = 2
    MaxStops = 1
    Chunks <- CutChunks
    MaxOutput = 9
    MaxBytes = 2
    MaxLines = 2
    MaxPath = 6
    MaxSize = 2
    KeepRecentTokens = 3
    MaxTrace = 6
    Batch = 2
    MaxBadDisk = 2
    Modes = {"rpc", "interactive"}
    Patience = {TRUE, FALSE}
    MaxSessions = 3
    MaxFailures = 1
    TaskIds = {"x", "y"}
    NoTask = NoTask
INVARIANT FailureIsSilent
CHECK_DEADLOCK FALSE
