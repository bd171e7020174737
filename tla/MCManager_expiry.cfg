SPECIFICATION FairSpec
CONSTANTS
    MaxLogs = 2
    AutoClose = TRUE
    DefaultTimeout = 1
    NidMod = 5
    MillisMod = 8
    Timeouts <- SomeTimeouts
    Watched = FALSE
    ForeignIds = {}
    ClientJobs <- NoJobs
    InitialDisks <- FreshDisks
    Faults = {}
    MaxCalls = 2
    MaxRequests = 1
    MaxTime = 0
    MaxRestarts = 0
INVARIANTS OpenIsArmed
PROPERTIES ExpiresWhenDue EventuallyExpires EventuallySaved
CHECK_DEADLOCK FALSE
