SPECIFICATION Spec
CONSTANTS
    MaxId = 1
    MaxSeq = 3
    MaxGen = 3
    MaxSeg = 4
    MaxRestarts = 0
    MaxFaults = 0
    MaxWork = 3
    LateFaults = FALSE
    FlushThreshold = 1
    MaxImmutable = 0
    MinEvents = 4
    HardCap = 0
    CompactAfterN = 1
    GroupCommit = FALSE
    DeleteUnknown = FALSE
    Readers = {}
INVARIANT CrashRecoversSynced
CHECK_DEADLOCK FALSE
