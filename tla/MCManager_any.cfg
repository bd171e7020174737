SPECIFICATION Spec
CONSTANTS
    MaxLogs = 2
    AutoClose = FALSE
    DefaultTimeout = 1
    NidMod = 4
    MillisMod = 4
    Timeouts <- NoTimeouts
    Watched = TRUE
    ForeignIds = {3}
    ClientJobs <- RudeJobs
    InitialDisks <- AnyDisk
    Faults = {"disk", "socket", "bus"}
    MaxCalls = 4
    MaxRequests = 1
    MaxTime = 0
    MaxRestarts = 1
INVARIANTS TypeOK NeverNoop DirtyCoversChanges IdleIsSaved
PROPERTIES StaysBounded MarksStay PanicsForCause
CHECK_DEADLOCK FALSE
