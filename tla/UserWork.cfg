SPECIFICATION UserWork
CONSTANTS
    Tailored = {t1, t2}
    Suggestions = {s1, s2}
    Pasted = {j1}
    Message = {m1, m2}
    More = {m3}
    Caller = {c1, c2}
    Worker = {w1, w2}
    Limit = 1
    MaxRows = 2
    MaxReceive = 2
    MaxFaults = 1
    Page = {p1}
    Anonymous = {}
    Terms = {"t1", "t2"}
    Places = {"p1"}
    MaxVersion = 4
    MaxAttempts = 5
    MaxDeliveries = 5
    MaxAccepted = 3
INVARIANTS
    TypesOK
    ArtifactHasMessage
    ProfileHoldsDecisions
    QuotaIsKept
    PageHasMessage
    ExpansionIsOwed
    EndedStaysEnded
    NoForgottenDelivery
PROPERTIES
    EditsSurvive
    SentIsFinal
SYMMETRY Symmetry
CHECK_DEADLOCK FALSE
