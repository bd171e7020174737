CONSTANTS
    Numbers = {"0", "1"}
    Letters = {"x", "lead", "trail"}
    BufSize = 18
    PieceSize = 22
    SendLimit = 20
    Scripts <- ShortWatch
SPECIFICATION Spec
INVARIANT OneLineEach
CHECK_DEADLOCK FALSE
