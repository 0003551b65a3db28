SPECIFICATION Spec
CONSTANTS
    w1 = w1
    w2 = w2
    e1 = e1
    file = file
    link = link
    NoOp = NoOp
    Ops <- MCOps
    EditOps <- MCEditOps
    Paths <- MCPaths
    RealPath <- MCRealPath
    PathOf <- AllThroughLink
    Existing <- NoFiles
INVARIANT
    FileExclusive
