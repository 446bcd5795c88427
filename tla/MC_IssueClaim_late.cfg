CONSTANTS
    Claims = {c1, c2}
    Agents = {c1, c2}
    NoClaim = none
    AgentOf <- OwnAgent
    Repairers = {r1}
    TTL = 1
    Commands = {"heartbeat", "review", "complete"}
    QuietRepair = TRUE
    TimelyCommands = FALSE
    MaxFaults = 0
    LastCommand = 2
    MaxTime = 3
SPECIFICATION Spec
SYMMETRY Symmetry
INVARIANT OneWinner
CHECK_DEADLOCK FALSE
