CONSTANTS
    Notifications = {n1}
    Workers = {w1, w2}
    MaxAttempts = 2
    MaxAge = 6
    HTTPHardTimeout = 1
    ResultCommitMargin = 1
    DeadlineClaimBudget = 1
    LeaseTTL = 3
    RecoveryBatch = 1
    RetryBaseDelay = 1
    RetryDelayCap = 1
    RetryAfterCap = 1
    SendDelay = 1
    MaxReplays = 1
    MaxAbandons = 1
    LastIntake = 0
    LastReplay = 2
    MaxTime = 6
SYMMETRY WorkerSymmetry
SPECIFICATION Spec
INVARIANTS
    TypeOK
    NoOverlappingSends
    SendBudget
    SendsInsideCycle
    AckWithinMarginAccepted
    DeliveredWasAcked
PROPERTY ImplementsOutbox
