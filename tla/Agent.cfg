CONSTANTS
    Ids = {1, 2}
    Paths = {p}
    MaxRequests = 3
    MaxChanges = 1
    MaxMissed = 1
    MaxPipe = 1
SPECIFICATION FairSpec
INVARIANTS
    MapsAgree
    NoChangeLost
PROPERTIES
    NoEventAfterUnwatch
    ChannelSpec
    Exits
    EventuallyKnown
