SPECIFICATION Spec
CONSTANTS
  i1 = i1
  i2 = i2
  i3 = i3
  s1 = s1
  ClientIds = {i1, i2, i3}
  ServerIds = {}
  Kinds = {"tool", "other"}
  Setups <- EnforcingOnly
  MaxPending = 2
  MaxBuffer = 1
  Sizes = {1}
  ErrorSize = 1
  MaxMessages = 3
  MaxServer = 0
  NoId = NoId
  MaxFaults = 0
INVARIANTS IInv ResponsesRetainOrder ResultsAreGatedWhileServing OnlyPermittedForwarded HeldResultsBounded SlotWakeup
PROPERTIES ImplementsOrder
SYMMETRY ClientIdSymmetry
CHECK_DEADLOCK FALSE
