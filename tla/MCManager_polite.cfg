SPECIFICATION Spec
CONSTANTS
    MaxLogs = 2
    AutoClose = FALSE
    DefaultTimeout = 1
    NidMod = 5
    MillisMod = 8
    Timeouts <- NoTimeouts
    Watched = FALSE
    ForeignIds = {}
    ClientJobs <- Dismiss
    InitialDisks <- OpenDisks
    Faults = {}
    MaxCalls = 4
    MaxRequests = 2
    MaxTime = 0
    MaxRestarts = 1
INVARIANTS UniqueIds
PROPERTIES KeepsPromise NeverSignalledAgain QueryTrueUntilGone
CHECK_DEADLOCK FALSE
