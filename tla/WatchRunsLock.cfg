SPECIFICATION FairSpec
CONSTANTS
    Watch = {w1}
    Run = {r1, r2}
    Source = {s1}
    NoSource = NoSource
    InitialSources = {s1}
    Day = {1}
    Worker = {k1, k2}
    Copy = {c1}
    MaxReceive = 2
    MaxClicks = 2
INVARIANTS
    LockDiscipline
PROPERTIES
    LockIsReleased
CHECK_DEADLOCK FALSE
