CONSTANTS
    Claims = {c1, c2}
    Agents = {c1, c2}
    NoClaim = none
    AgentOf <- OwnAgent
    Repairers = {r1}
    TTL = 1
    Commands = {"heartbeat", "review", "complete"}
    QuietRepair = TRUE
    TimelyCommands = TRUE
    MaxFaults = 1
    LastCommand = 1
    MaxTime = 3
SPECIFICATION FairSpec
INVARIANTS
    OneWinner
    OwnerIsHolder
    ClaimableOrOwned
PROPERTY ExpiresFromLatestHeartbeat
PROPERTY RefReleased
CHECK_DEADLOCK FALSE
