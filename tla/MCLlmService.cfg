\* Two callers and two edits.
CONSTANTS
    Callers = {"a", "b"}
    Uses <- ModelUses
    Editors = {"e1", "e2"}
    Urls = {"u1", "u2"}
    Keys = {"k1", "k2"}
    Models = {"m1", "m2"}
    DefaultUrl = "u1"
    None = None
    Environments <- ModelEnvironments
    Arguments <- ModelArguments
    Saved <- ModelSaved
    Changes <- ModelChanges
    OutputRetries = 1
    MaxTriages = 3

SPECIFICATION Spec

INVARIANTS
    OneProvider
    
    HealthIsExact
    IInv
