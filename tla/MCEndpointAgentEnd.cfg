\* One run of the agent over the Linux collector.
CONSTANTS
    ProbeOrder <- ModelOrder
    MaxEvents = 2
    Configs <- SensingOnly
    MaxRestarts = 0

SPECIFICATION Spec

INVARIANT EndIsReported

\* The agent ends and is not started again once MaxRestarts is used up.
CHECK_DEADLOCK FALSE
