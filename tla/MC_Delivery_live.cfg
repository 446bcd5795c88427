CONSTANTS
    Notifications = {n1}
    Workers = {w1}
    MaxAttempts = 2
    MaxAge = 6
    HTTPHardTimeout = 1
    ResultCommitMargin = 1
    DeadlineClaimBudget = 1
    LeaseTTL = 3
    RecoveryBatch = 1
    RetryBaseDelay = 1
    RetryDelayCap = 1
    RetryAfterCap = 0
    SendDelay = 0
    MaxReplays = 2
    MaxAbandons = 1
    LastIntake = 0
    LastReplay = 3
    MaxTime = 6
SPECIFICATION FairSpec
INVARIANT OneReplayPerApproval
PROPERTY EventuallySettled
