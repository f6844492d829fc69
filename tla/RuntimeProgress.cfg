SPECIFICATION FairSpec
CONSTANTS
    Clients = {c1, c2, c3}
    Coordinator = coordinator
    Keys = {k1}
    Kinds = {"query", "write", "flush", "compact", "close"}
    Capacity = 1
    MaxImmutable = 1
    MaxJobs = 1
    MaxCalls = 3
PROPERTY CallsReturn
PROPERTY CloseEnds
CHECK_DEADLOCK FALSE
