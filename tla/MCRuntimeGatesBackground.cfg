SPECIFICATION Spec
CONSTANTS
  Entries = {"gateway"}
  Policies <- BackgroundPolicies
  MaxCalls = 2
INVARIANTS GuardRestricts
CHECK_DEADLOCK FALSE
