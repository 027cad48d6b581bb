\* Every configuration, up to MaxEvents captured events per probe and one restart.
CONSTANTS
    ProbeOrder <- ModelOrder
    MaxEvents = 2
    Configs <- ModelConfigs
    MaxRestarts = 1

SPECIFICATION Spec

INVARIANTS
    IInv
    RetainedIsTheTail
    FilesBounded
    EventsAccounted
    CaptureOrder
    StatusIsCovered
    FinalReport
    FailureIsSeen

PROPERTY AgentStops

\* The agent ends and is not started again once MaxRestarts is used up.
CHECK_DEADLOCK FALSE
