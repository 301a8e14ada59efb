CONSTANTS
    Clients = {c1, c2}
    Worker = worker
    Objs = {o1, o2}
    Wds = {w1, w2}
    Cookies = {k1}
    Null = Null
    MaxBatch = 2
    CrossMoves = TRUE
    Synthetic = TRUE
SPECIFICATION FairSpec
INVARIANTS
    TypeOK
    RetainedAlive
    SingleOwner
    RealWatchesAgree
PROPERTIES
    Reclaimed
