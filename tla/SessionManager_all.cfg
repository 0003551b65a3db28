SPECIFICATION Spec
CONSTANTS
    Files = {f1, f2}
    NoFile = NoFile
    Scenarios <- All
SYMMETRY FileNames
INVARIANTS
    TypeOK
    TreeIsSound
    ReopenIsSame
PROPERTIES
    AppendKeepsContext
    CompactionKeepsTail
    NothingLost
    BranchIsWhole
