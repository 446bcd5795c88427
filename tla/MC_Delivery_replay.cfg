CONSTANTS
    Notifications = {n1, n2}
    Workers = {w1}
    MaxAttempts = 1
    MaxAge = 5
    HTTPHardTimeout = 1
    ResultCommitMargin = 1
    DeadlineClaimBudget = 1
    LeaseTTL = 3
    RecoveryBatch = 1
    RetryBaseDelay = 1
    RetryDelayCap = 1
    RetryAfterCap = 0
    SendDelay = 0
    MaxReplays = 1
    MaxAbandons = 1
    LastIntake = 0
    LastReplay = 0
    MaxTime = 5
SPECIFICATION Spec
INVARIANT ReplayTimeKept
