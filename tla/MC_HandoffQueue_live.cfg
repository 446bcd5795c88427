SPECIFICATION FairSpec
CONSTANTS
    w1 = w1
    w2 = w2
    Events = {"e1"}
    Ids = {}
    Service = {"s1"}
    Direct = {"d1"}
    Configs = {{"s1", "d1"}}
    Workers = {w1}
    Digest <- SharedDigest
    MaxAttempts = 1
    DirectMax = 2
    MaxRecords = 2
    MaxIds = 0
    MaxCycles = 0
    MaxObserved = 1
    MaxFaults = 1
PROPERTY RoutesSettle
PROPERTY LedgersCommit
