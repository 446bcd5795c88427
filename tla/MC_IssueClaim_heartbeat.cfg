CONSTANTS
    Claims = {c1}
    Agents = {c1}
    NoClaim = none
    AgentOf <- OwnAgent
    Repairers = {r1}
    TTL = 1
    Commands = {"heartbeat"}
    QuietRepair = FALSE
    TimelyCommands = FALSE
    MaxFaults = 0
    LastCommand = 2
    MaxTime = 3
SPECIFICATION Spec
PROPERTY ExpiresFromLatestHeartbeat
CHECK_DEADLOCK FALSE
