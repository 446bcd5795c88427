SPECIFICATION FairSpec
CONSTANTS
    p1 = p1
    p2 = p2
    c1 = c1
    c2 = c2
    Procs = {p1, p2}
    Calls = {c1, c2}
    NActions = 1
    MaxCrashes = 1
    MaxFaults = 0
PROPERTY DeadExecutionReconciled
