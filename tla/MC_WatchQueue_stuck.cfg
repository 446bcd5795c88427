SPECIFICATION FairSpec
CONSTANTS
    k1 = k1  i1 = i1
    Keys = {k1}
    Ids = {}
    Routes = {r1, r2}
    Workers = {w1}
    NeedsRefresh = {k1}
    Legacy <- NoTombstones
    MaxAttempts = 2
    MaxRecords = 1
    MaxIds = 1
    MaxEvents = 1
    MaxCrashes = 1
    MaxSlow = 0
PROPERTY Settles
