SPECIFICATION Spec
CONSTANTS
    MaxId = 2
    MaxSeq = 3
    MaxGen = 2
    MaxSeg = 3
    MaxRestarts = 2
    MaxFaults = 2
    MaxWork = 5
    LateFaults = FALSE
    FlushThreshold = 2
    MaxImmutable = 2
    MinEvents = 4
    HardCap = 2
    CompactAfterN = 0
    GroupCommit = TRUE
    DeleteUnknown = FALSE
    Readers = {}
INVARIANT TypeOK
INVARIANT CrashRecoversSynced
INVARIANT ListedSegmentsExist
INVARIANT EpochsRetryable
INVARIANT RecoveredCountersFresh
PROPERTY ImplementsDurableStore
CHECK_DEADLOCK FALSE
