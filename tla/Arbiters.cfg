SPECIFICATION ArbitersSpec
CONSTANTS
    Arbiter = {x1, x2, x3}
    Threshold = 2
INVARIANTS
    CallersCanRetry
CHECK_DEADLOCK FALSE
