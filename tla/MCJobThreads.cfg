SPECIFICATION FairSpec
CONSTANTS
    NotifyCalls = {n1, n2}
    TimedCalls = {n2}
    HeardCalls = {n1}
    LongCalls = {n1}
    CloseCalls = {}
    ClientTasks = {t1, t2}
    MaxBegun = 3
INVARIANTS TypeOK NeverNoop NumberedInOrder NoFalseAlarm NobodyStuck
PROPERTIES IsMailbox EveryJobServed DeathSpreads
CHECK_DEADLOCK FALSE
