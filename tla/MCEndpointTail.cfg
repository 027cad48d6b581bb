SPECIFICATION Spec
CONSTANTS
  LineKinds = {"file", "net", "blank", "bad"}
  MaxLines = 3
  MaxKills = 2
  MaxTrace = 4
INVARIANTS NothingSkipped ReplayIsStable StoreFollowsTrace RepeatsBounded
PROPERTIES RecordsArrive
CHECK_DEADLOCK FALSE
