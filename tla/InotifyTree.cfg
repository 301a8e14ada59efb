CONSTANTS
    Dirs = {d1, d2}
    Root = root
    Outside = outside
    Names = {a, b}
    Synthetic = TRUE
    Settings <- MCSettings
SPECIFICATION FairSpec
INVARIANTS
    AllCovered
    ViewIsTree
    MarksOwned
PROPERTIES
    RemovedAll
    EventuallyCovered
