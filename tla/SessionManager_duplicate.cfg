SPECIFICATION Spec
CONSTANTS
    Files = {f1}
    NoFile = NoFile
    Scenarios <- Alone
SYMMETRY FileNames
INVARIANTS
    NoDuplicates
