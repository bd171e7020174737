SPECIFICATION Spec
CONSTANTS
    MaxLogs = 2
    AutoClose = FALSE
    DefaultTimeout = 1
    NidMod = 5
    MillisMod = 8
    Timeouts <- NoTimeouts
    Watched = FALSE
    ForeignIds = {}
    ClientJobs <- ForcedFirst
    InitialDisks <- FullDisks
    Faults = {}
    MaxCalls = 4
    MaxRequests = 1
    MaxTime = 0
    MaxRestarts = 0
PROPERTIES ForcedCloseIsSignalled
CHECK_DEADLOCK FALSE
