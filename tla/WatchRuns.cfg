SPECIFICATION Spec
CONSTANTS
    Watch = {w1}
    Run = {r1}
    Source = {s1, s2}
    NoSource = NoSource
    InitialSources = {s1}
    Day = {}
    Worker = {k1, k2}
    Copy = {c1, c2}
    MaxReceive = 2
    MaxClicks = 1
INVARIANTS
    TypeOK
    NoForgottenRun
    ResultIsTruthful
PROPERTIES
    SucceededIsFinal
SYMMETRY Symmetry
CHECK_DEADLOCK FALSE
