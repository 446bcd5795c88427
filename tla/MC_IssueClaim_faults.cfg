CONSTANTS
    Claims = {c1, c2}
    Agents = {c1, c2}
    NoClaim = none
    AgentOf <- OwnAgent
    Repairers = {}
    TTL = 1
    Commands = {"review", "complete"}
    QuietRepair = TRUE
    TimelyCommands = TRUE
    MaxFaults = 2
    LastCommand = 0
    MaxTime = 1
SPECIFICATION Spec
SYMMETRY Symmetry
INVARIANT OneWinner
CHECK_DEADLOCK FALSE
