\* Of the client: an agent and its successor, two requests, and a listener before or behind one that waits.
\* Of the harness: two prompts with two other events among them, or one with three.
SPECIFICATION Clients
CONSTANTS
    Parts = {"tui", "schedule", "stdin", "rpc", "harness", "editing", "killing", "moving", "completing", "queueing", "demanding", "leaving"}
    Requests = {"q1", "q2"}
    Listeners = {"w", "ui"}
    Waiters = {"w"}
    MaxEnds = 1
    MaxStarts = 2
    MaxRuns = 2
    MaxWrites = 1
    MaxQueued = 2
    MaxReplies = 2
    MaxTools = 1
    MaxOperations = 1
    MaxThrows = 1
    MaxAborts = 1
    MaxEvents = 4
    Callers = {"patient"}
INVARIANTS
    ClientsTypeOK
    ScreenIsTrue
PROPERTIES
    InputIsTrue
    RecordIsKept
    WaitsEnd
CHECK_DEADLOCK FALSE
