SPECIFICATION Spec
CONSTANTS
    p1 = p1
    p2 = p2
    c1 = c1
    c2 = c2
    Procs = {p1, p2}
    Calls = {c1, c2}
    NActions = 2
    MaxCrashes = 0
    MaxFaults = 2
INVARIANTS
    OneExecution
    RecordIsTrue
    RunnerIsRecorded
SYMMETRY PlanSymmetry
