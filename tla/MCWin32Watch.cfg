SPECIFICATION FairSpec
CONSTANTS
    Objs = {o1, o2}
    Files = {f1, f2}
    Places <- SomePlaces
    CrossMoves = TRUE
    Extended = {o1}
    Reentrant = TRUE
    Reuse = FALSE
    ReadsFail = TRUE
    BufferSize = 3
    MaxOps = 3
INVARIANTS
    IoMemory
    ViewIsTree
PROPERTIES
    Reclaimed
CHECK_DEADLOCK FALSE
