CONSTANTS
    Claims = {c1, c2, c3}
    Agents = {c1, c2, c3}
    NoClaim = none
    AgentOf <- OwnAgent
    Repairers = {r1}
    TTL = 1
    Commands = {}
    QuietRepair = FALSE
    TimelyCommands = TRUE
    MaxFaults = 0
    LastCommand = 2
    MaxTime = 2
SPECIFICATION Spec
SYMMETRY Symmetry
INVARIANT OneWinner
CHECK_DEADLOCK FALSE
