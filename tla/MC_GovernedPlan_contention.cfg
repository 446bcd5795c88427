SPECIFICATION FairSpec
CONSTANTS
    p1 = p1
    p2 = p2
    c1 = c1
    c2 = c2
    Procs = {p1}
    Calls = {c1, c2}
    NActions = 1
    MaxCrashes = 0
    MaxFaults = 0
PROPERTY SuccessRecorded
