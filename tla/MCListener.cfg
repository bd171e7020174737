SPECIFICATION FairSpec
CONSTANTS
    Requests = {r1, r2}
    Signallers = {s1}
    Notifications = {n1}
    Watchers = {w1, w2}
    Silent = {w1}
    Pid = {p1, p2}
    Killable = {r2}
    Unreadable = {r2, n1}
    PipeSize = 1
    MaxStarted = 4
INVARIANTS TypeOK AnswersGoHome SameOrder NobodyForgotten
PROPERTIES IsReception ReachesAll AcknowledgedWhenHeard EveryRequestAnswered EveryBroadcastEnds
CHECK_DEADLOCK FALSE
