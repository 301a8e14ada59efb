SPECIFICATION Spec
CONSTANTS
    Dirs = {d1, d2}
    Files = {f1, f2, f3}
    DirNames = {1, 2}
    FileNames = {3, 4, 5}
    Reuse = TRUE
    Modes = {TRUE, FALSE}
    Clock = {TRUE}
    Settings <- MCSettings
    Racing = {"mkdir", "create", "write", "remove", "rmdir"}
    Alone = {"rename", "renameDir", "move"}
    MaxOps = 7
INVARIANTS
    FilesWatched
    AllCovered
    ViewIsTree
PROPERTIES
    NoDelete
CHECK_DEADLOCK FALSE
SYMMETRY Symmetry
