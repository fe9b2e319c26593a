CONSTANTS
    None = None
    Wallet = w1
    Job = {j1, j2}
    LimitTables <- MCNoLimits
    Requests <- MCUnlimited
    MaxAttempts = 2
    MaxCrashes = 1
SPECIFICATION FairSpec
CHECK_DEADLOCK FALSE
PROPERTY CallerAnswered
