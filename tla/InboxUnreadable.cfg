SPECIFICATION Spec
CONSTANTS
    Entry = {e1, e2}
    Application = {a1, a2}
    Caller = {c1, c2}
INVARIANTS
    InboxIsReadable
CHECK_DEADLOCK FALSE
