SPECIFICATION FairSpec
CONSTANTS
    Request = {r1, r2}
    Worker = {k1, k2}
    Message = {m1, m2}
    MaxReceive = 3
    MaxFaults = 2
INVARIANTS
    TypeOK
    StillScannable
    CleanHasObject
PROPERTIES
    CleanIsFinal
    ScanEnds
CHECK_DEADLOCK FALSE
