SPECIFICATION Spec
CONSTANTS
  Entries = {"gateway"}
  Policies <- WatchingGuardPolicies
  MaxCalls = 2
INVARIANTS DoubtIsApproved
CHECK_DEADLOCK FALSE
