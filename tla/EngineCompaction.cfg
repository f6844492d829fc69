SPECIFICATION Spec
CONSTANTS
    r1 = r1
    MaxId = 1
    MaxSeq = 4
    MaxGen = 4
    MaxSeg = 6
    MaxRestarts = 0
    MaxFaults = 1
    MaxWork = 5
    LateFaults = TRUE
    FlushThreshold = 1
    MaxImmutable = 0
    MinEvents = 4
    HardCap = 0
    CompactAfterN = 1
    GroupCommit = FALSE
    DeleteUnknown = FALSE
    Readers = {r1}
INVARIANT PublishedReadsLatest
INVARIANT PinnedReadsStable
CHECK_DEADLOCK FALSE
