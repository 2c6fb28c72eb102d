SPECIFICATION Spec
CONSTANTS
    Page = {p1, p2}
    Anonymous = {p1, p2}
    Message = {m1, m2}
    Caller = {c1, c2}
    Worker = {w1, w2}
    Limit = 2
    MaxReceive = 2
INVARIANTS
    JobsAreDistinct
SYMMETRY Symmetry
CHECK_DEADLOCK FALSE
