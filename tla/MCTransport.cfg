CONSTANTS
    Numbers = {"0", "1"}
    Letters = {"x", "lead", "trail"}
    BufSize = 18
    PieceSize = 22
    SendLimit = 20
    Scripts <- AllScripts
SPECIFICATION FairSpec
INVARIANTS TypeOK HeardAsSaid
PROPERTIES WholeReads EveryReadEnds WatcherCatchesUp
CHECK_DEADLOCK FALSE
