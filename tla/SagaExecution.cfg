CONSTANTS
    None = None
    Runner = {r1, r2}
    StepCount = 3
    MaxStops = 1
    MaxSlow = 1
    MaxFailures = 1
SPECIFICATION Spec
CHECK_DEADLOCK FALSE
INVARIANT NeverExecutedTwiceAtOnce
