SPECIFICATION Spec
CONSTANTS
    Clients = {c1, c2, c3}
    Coordinator = coordinator
    Keys = {k1}
    Kinds = {"query", "write", "flush", "compact", "close"}
    Capacity = 2
    MaxImmutable = 1
    MaxJobs = 1
    MaxCalls = 4
SYMMETRY ClientSymmetry
CHECK_DEADLOCK FALSE
INVARIANT BarrierExcludesMutations
INVARIANT NoWorkAfterClose
INVARIANT CountersExact
INVARIANT OneReplyPerSubmit
INVARIANT SleepersHaveAReason
