SPECIFICATION FairSpec
CONSTANTS
    Procs = {p1, p2, p3}
    MaxTurns = 1
    MaxCrashes = 2
    CrashPoints <- AnyPoint
    WriteFaults = TRUE
    NoFile = NoFile
INVARIANTS
    MutualExclusion
    NoLostUpdate
PROPERTY LiveLockKept
PROPERTY StaleLockRecovers
CHECK_DEADLOCK FALSE
