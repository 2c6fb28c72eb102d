SPECIFICATION FairSpec
CONSTANTS
    Worker = {k1, k2}
    Operator = Operator
    MaxThreshold = 1
    OperatorAction = {"DISABLE", "ENABLE", "MARK_DEGRADED", "PAUSE", "RESUME", "CLEAR_FAILURES", "PUT_ENABLED", "PUT_DISABLED"}
INVARIANTS
    TypeOK
PROPERTIES
    DisableIsHonoured
    AutomaticPauseEnds
CHECK_DEADLOCK FALSE
