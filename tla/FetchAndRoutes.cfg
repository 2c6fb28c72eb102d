SPECIFICATION FetchAndRoutes
CONSTANTS
    Run = {r1, r2}
    NoRun = NoRun
    Worker = {k1, k2}
    LeaseTime = 1
    CacheTime = 2
    Lifetime = 2
    MaxTime = 6
    MaxChanges = 1
    Routes = 2
    Models = 2
    Cooldown = 1
    MaxClock = 2
INVARIANTS
    TypesOK
    FreshResults
    NotBlockedByItself
    NoFalseOutage
SYMMETRY Symmetry
