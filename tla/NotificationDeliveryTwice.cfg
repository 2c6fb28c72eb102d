SPECIFICATION Spec
CONSTANTS
    Copy = {c1}
    Worker = {k1}
    MaxAttempts = 5
    MaxReceive = 5
    MaxAccepted = 3
INVARIANT NotSentTwice
CHECK_DEADLOCK FALSE
