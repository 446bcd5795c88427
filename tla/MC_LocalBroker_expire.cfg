SPECIFICATION Spec
CONSTANTS
    p1 = p1
    p2 = p2
    Tasks = {"t1"}
    Procs = {p1, p2}
    Ops = {"expireLease"}
    MaxLeases = 3
    MaxCrashes = 0
INVARIANTS
    OneHolder
