SPECIFICATION Spec
CONSTANTS
    Real <- MCReal
    LinkPaths <- MCLinkPaths
    Remote <- MCRemote
    Backends = {"inotify"}
    MaxAdds = 1
    MaxDepth = 11
INVARIANT
    LoopsEndInScope
CHECK_DEADLOCK FALSE
