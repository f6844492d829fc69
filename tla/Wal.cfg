SPECIFICATION FairSpec
CONSTANTS
    MaxWrites = 4
    MaxBatch = 2
    MaxFaults = 2
    MaxRestarts = 2
    Modes = {"group", "immediate"}
    HardCap = 3
    MaxSyncFailures = 2
    FaultModels <- MCFaultModels
CHECK_DEADLOCK FALSE
INVARIANT PromisedSurvive
INVARIANT WritesAtomic
INVARIANT NoHoles
PROPERTY BlockedWriterReturns
PROPERTY AckedBecomesDurable
