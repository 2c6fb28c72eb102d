SPECIFICATION JobsAndData
CONSTANTS
    Document = {d1}
    Export = {e1}
    Caller = {c1, c2}
    Worker = {w1, w2}
    Message = {m1, m2}
    MaxDeaths = 2
    MaxReceive = 2
    MaxCrashes = 1
INVARIANTS
    TypesOK
    AccountErased
    NoRevival
    FilesMatchObjects
    WaitingHasMessage
    AnalysisHasMessage
    BoughtOnce
    ChargedInFull
    ResultSurvives
    StatusesAgree
SYMMETRY Symmetry
CHECK_DEADLOCK FALSE
