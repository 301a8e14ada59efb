SPECIFICATION Spec
CONSTANTS
    Dirs = {d1, d2}
    Files = {f1}
    DirNames = {1, 2}
    FileNames = {3}
    Recursive = TRUE
    CrossMoves = TRUE
    Reuse = FALSE
    Clock = {TRUE}
    Racing = {"mkdir", "create", "write", "remove", "rmdir", "rename"}
    Alone = {"renameDir", "move"}
    MaxOps = 5
INVARIANTS
    AllCovered
    ViewIsTree
PROPERTIES
    OneMove
CHECK_DEADLOCK FALSE
SYMMETRY Symmetry
