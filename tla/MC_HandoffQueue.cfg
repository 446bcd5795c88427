SPECIFICATION Spec
CONSTANTS
    w1 = w1
    w2 = w2
    Events = {"e1"}
    Ids = {}
    Service = {"s1"}
    Direct = {}
    Configs = {{"s1"}}
    Workers = {w1, w2}
    Digest <- SharedDigest
    MaxAttempts = 2
    DirectMax = 1
    MaxRecords = 2
    MaxIds = 0
    MaxCycles = 1
    MaxObserved = 1
    MaxFaults = 2
INVARIANTS
    RecordsValid
    ReceiptsAgree
    ActiveBlobKept
PROPERTY AcceptedStays
SYMMETRY WorkerSymmetry
