SPECIFICATION FairSpec
CONSTANTS
  a1 = a1
  w1 = w1
  w2 = w2
  r1 = r1
  Approvals = {a1}
  ResultApprovals = {a1}
  Waiters = {w1, w2}
  Gateway = w1
  Resolvers = {r1}
  Shutdowns = TRUE
  Nobody = Nobody
  MaxFaults = 1
INVARIANTS IInv OutcomeIsTheRow AuditIsTruthful PausedUntilResolved ResolutionIsAudited RecordAgrees
PROPERTIES WaitEnds ImplementsDecision
CHECK_DEADLOCK FALSE
