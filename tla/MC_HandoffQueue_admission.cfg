SPECIFICATION Spec
CONSTANTS
    w1 = w1
    w2 = w2
    Events = {"e1", "e2"}
    Ids = {"i1", "i2"}
    Service = {}
    Direct = {"d1", "d2"}
    Configs = {{"d1"}, {"d1", "d2"}}
    Workers = {w1}
    Digest <- SharedDigest
    MaxAttempts = 1
    DirectMax = 1
    MaxRecords = 2
    MaxIds = 1
    MaxCycles = 0
    MaxObserved = 3
    MaxFaults = 0
INVARIANTS
    DeliveryIdsUnique
