SPECIFICATION Spec
CONSTANTS
    c1 = c1  c2 = c2  c3 = c3  c4 = c4
    Call = {c1, c2, c3, c4}
    Entry = {"success", "error"}
    NoEntry = NoEntry
    logCap = 2
    rotationLogCASAttempts = 2
    DatabaseErrors = TRUE
SYMMETRY CallSymmetry
INVARIANTS LogIsRecentHistory DroppedOnlyUnderContention
CHECK_DEADLOCK FALSE
