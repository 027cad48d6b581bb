SPECIFICATION FairSpec
CONSTANTS
  i1 = i1
  i2 = i2
  i3 = i3
  s1 = s1
  ClientIds = {i1, i2}
  ServerIds = {s1}
  Kinds = {"other", "reply"}
  Setups <- Replying
  MaxPending = 2
  MaxBuffer = 1
  Sizes = {1}
  ErrorSize = 1
  MaxMessages = 3
  MaxServer = 1
  NoId = NoId
  MaxFaults = 0
PROPERTIES EveryRequestAnswered
CHECK_DEADLOCK FALSE
