SPECIFICATION FairSpec
CONSTANTS
    LastEvent = 3
    Pump = {p1, p2}
    Limit = 2
INVARIANTS
    TypeOK
PROPERTY SendsAtLeastOnce
CHECK_DEADLOCK FALSE
