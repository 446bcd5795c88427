SPECIFICATION Spec
CONSTANTS
    w1 = w1
    w2 = w2
    Events = {"e1"}
    Ids = {}
    Service = {"s1", "s2"}
    Direct = {}
    Configs = {{"s1"}, {"s2"}}
    Workers = {w1}
    Digest <- SharedDigest
    MaxAttempts = 1
    DirectMax = 1
    MaxRecords = 2
    MaxIds = 0
    MaxCycles = 1
    MaxObserved = 2
    MaxFaults = 1
INVARIANT ActiveBlobKept
