SPECIFICATION Spec
CONSTANTS
  i1 = i1
  i2 = i2
  i3 = i3
  s1 = s1
  ClientIds = {i1, i2}
  ServerIds = {}
  Kinds = {"tool"}
  Setups <- ToolsOnly
  MaxPending = 2
  MaxBuffer = 1
  Sizes = {1}
  ErrorSize = 1
  MaxMessages = 2
  MaxServer = 0
  NoId = NoId
  MaxFaults = 0
INVARIANTS ResultsAreGated
CHECK_DEADLOCK FALSE
