SPECIFICATION Spec
CONSTANTS
    MaxLogs = 2
    AutoClose = FALSE
    DefaultTimeout = 1
    NidMod = 5
    MillisMod = 8
    Timeouts <- NoTimeouts
    Watched = TRUE
    ForeignIds = {}
    ClientJobs <- NoJobs
    InitialDisks <- FreshDisks
    Faults = {}
    MaxCalls = 3
    MaxRequests = 0
    MaxTime = 0
    MaxRestarts = 0
PROPERTIES MarkedOnceRead
CHECK_DEADLOCK FALSE
