SPECIFICATION Spec
CONSTANTS
    MaxLogs = 1
    AutoClose = FALSE
    DefaultTimeout = 1
    NidMod = 5
    MillisMod = 8
    Timeouts <- NoTimeouts
    Watched = FALSE
    ForeignIds = {}
    ClientJobs <- NoJobs
    InitialDisks <- FullDisks
    Faults = {}
    MaxCalls = 4
    MaxRequests = 0
    MaxTime = 0
    MaxRestarts = 0
PROPERTIES GrowsWithinMax
CHECK_DEADLOCK FALSE
