SPECIFICATION Spec
CONSTANTS
  Entries = {"gateway", "hook"}
  Policies <- ModelPolicies
  MaxCalls = 2
INVARIANTS IInv GuardHolds ReviewFailsSafe ShadowIsInert
CHECK_DEADLOCK FALSE
