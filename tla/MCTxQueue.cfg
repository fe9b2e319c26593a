CONSTANTS
    None = None
    Wallet = w1
    Job = {j1, j2}
    LimitTables <- MCLimitTables
    Requests <- MCRequests
    MaxAttempts = 2
    MaxCrashes = 1
SPECIFICATION Spec
SYMMETRY JobSymmetry
CHECK_DEADLOCK FALSE
INVARIANT PaidAgainOnlyWhenLost
INVARIANT RetryReplaces
INVARIANT LimitsHoldOneByOne
