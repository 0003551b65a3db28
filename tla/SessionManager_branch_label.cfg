SPECIFICATION Spec
CONSTANTS
    Files = {f1, f2}
    NoFile = NoFile
    Scenarios <- Labelled
SYMMETRY FileNames
PROPERTIES
    BranchKeepsContext
