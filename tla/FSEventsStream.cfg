CONSTANTS
  Clients = {c1, c2}
  Watches = {w1, w2}
  Dirs = {a, b}
  Streams = {s1, s2, s3}
  Careful = TRUE
  Queue = queue
  Owner = owner
  NULL = NULL
SPECIFICATION FairSpec
INVARIANTS ObjectAlive SilentAfterRemove CoveredByStream
PROPERTIES CallsReturn
CHECK_DEADLOCK FALSE
