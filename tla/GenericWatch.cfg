SPECIFICATION FairSpec
CONSTANTS
    Handles = {h1, h2}
    Dirs = {a}
    Keys = {k}
    MaxAdds = 2
INVARIANTS
    ScanAlive
    ListenersOwned
PROPERTIES
    CallsReturn
CHECK_DEADLOCK FALSE
