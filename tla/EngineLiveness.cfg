SPECIFICATION FairSpec
CONSTANTS
    MaxId = 1
    MaxSeq = 3
    MaxGen = 3
    MaxSeg = 14
    MaxRestarts = 1
    MaxFaults = 2
    MaxWork = 4
    LateFaults = FALSE
    FlushThreshold = 1
    MaxImmutable = 2
    MinEvents = 0
    HardCap = 0
    CompactAfterN = 1
    GroupCommit = FALSE
    DeleteUnknown = FALSE
    Readers = {}
PROPERTY FlushEventuallyReturns
PROPERTY CloseEventuallyEnds
PROPERTY FrozenEventuallyFlushed
CHECK_DEADLOCK FALSE
