SPECIFICATION Spec
CONSTANTS
    MaxLogs = 3
    AutoClose = FALSE
    DefaultTimeout = 1
    NidMod = 5
    MillisMod = 8
    Timeouts <- NoTimeouts
    Watched = FALSE
    ForeignIds = {}
    ClientJobs <- NoJobs
    InitialDisks <- FreshDisks
    Faults = {}
    MaxCalls = 4
    MaxRequests = 0
    MaxTime = 0
    MaxRestarts = 0
INVARIANTS MostRecentFirst
CHECK_DEADLOCK FALSE
