SPECIFICATION FairSpec
CONSTANTS
    k1 = k1  i1 = i1
    Keys = {k1}
    Ids = {i1, i2}
    Routes = {r1}
    Workers = {w1, w2}
    NeedsRefresh = {k1}
    Legacy <- OwnTombstone
    MaxAttempts = 2
    MaxRecords = 1
    MaxIds = 1
    MaxEvents = 2
    MaxCrashes = 1
    MaxSlow = 1
INVARIANTS
    SendBudget
    TimelyAnswerAccepted
    TerminalMeansDone
PROPERTY CompletedStays
PROPERTY RoutesSettle
