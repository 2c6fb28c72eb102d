SPECIFICATION Spec
CONSTANTS
    Document = {d1}
    Export = {e1}
    Caller = {c1, c2}
    Worker = {w1, w2}
    MaxReceive = 2
    MaxCrashes = 1
INVARIANTS
    DeletionIsDurable
CHECK_DEADLOCK FALSE
