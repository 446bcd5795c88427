SPECIFICATION FairSpec
CONSTANTS
    w1 = w1
    w2 = w2
    Events = {"e1"}
    Ids = {}
    Service = {}
    Direct = {"d1"}
    Configs = {{"d1"}}
    Workers = {w1}
    Digest <- SharedDigest
    MaxAttempts = 2
    DirectMax = 1
    MaxRecords = 2
    MaxIds = 0
    MaxCycles = 0
    MaxObserved = 2
    MaxFaults = 0
PROPERTY ObservationsConfirmed
