SPECIFICATION FairSpec
CONSTANTS
  i1 = i1
  i2 = i2
  i3 = i3
  s1 = s1
  ClientIds = {i1, i2}
  ServerIds = {s1}
  Kinds = {"tool", "other", "reply", "note", "anonymous"}
  Setups <- EveryMode
  MaxPending = 2
  MaxBuffer = 1
  Sizes = {1}
  ErrorSize = 1
  MaxMessages = 2
  MaxServer = 1
  NoId = NoId
  MaxFaults = 1
INVARIANTS WireIsKept
PROPERTIES ShutdownEnds RequestsAnswered
CHECK_DEADLOCK FALSE
