SPECIFICATION FairSpec
CONSTANTS
    p1 = p1
    p2 = p2
    Tasks = {"t1"}
    Procs = {p1, p2}
    Ops = {"heartbeat", "releaseLease"}
    MaxLeases = 3
    MaxCrashes = 1
INVARIANTS
    OneHolder
PROPERTY EndedStaysEnded
PROPERTY TaskReclaimed
