SPECIFICATION Spec
CONSTANTS
    Real <- MCReal
    LinkPaths <- MCLinkPaths
    Remote <- MCRemote
    Backends = {"inotify", "generic", "kqueue"}
    MaxAdds = 2
    MaxDepth = 11
INVARIANTS
    Covered
    NothingLeft
    LoopsEnd
CHECK_DEADLOCK FALSE
