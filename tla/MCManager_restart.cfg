SPECIFICATION FairSpec
CONSTANTS
    MaxLogs = 2
    AutoClose = TRUE
    DefaultTimeout = 1
    NidMod = 5
    MillisMod = 8
    Timeouts <- NoTimeouts
    Watched = FALSE
    ForeignIds = {}
    ClientJobs <- NoJobs
    InitialDisks <- OpenDisks
    Faults = {}
    MaxCalls = 1
    MaxRequests = 0
    MaxTime = 2
    MaxRestarts = 0
PROPERTIES EventuallyExpires
CHECK_DEADLOCK FALSE
