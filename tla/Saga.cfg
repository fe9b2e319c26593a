CONSTANTS
    None = None
    Runner = {r1, r2}
    StepCount = 3
    MaxStops = 1
    MaxSlow = 1
    MaxFailures = 1
SPECIFICATION FairSpec
CHECK_DEADLOCK FALSE
INVARIANT TypeOK
INVARIANT CompletedIsPrefix
INVARIANT LeaseExclusive
INVARIANT CompletedNeverUndone
INVARIANT OneEffectEscapes
PROPERTY KeepsPromise
PROPERTY SagaEnds
