CONSTANTS
    Scripts <- MCScripts
    MaxPayloadSize = 24
    ReadSize = 12
    NoRequest = NoRequest
SPECIFICATION Spec
INVARIANTS
    AsSent
    NothingKept
