SPECIFICATION Spec
CONSTANTS
    Labels = {A, B}
    Keys = {k, l}
    MaxNode = 3
    MaxEdge = 3
    MaxSeq = 3
    MaxSources = 2
    Ends <- MCEnds
    Weights = {TRUE, FALSE}
    MaxPatchParts = 2
    PageLimits = {0, 1}
    ChunkFactor = 1
INVARIANT LookupsExact
INVARIANT NeighborsExact
INVARIANT DegreesExact
INVARIANT PagesExact
PROPERTY MaintenanceInvisible
PROPERTY CascadeReachesLive
CHECK_DEADLOCK FALSE
