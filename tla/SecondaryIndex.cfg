SPECIFICATION FairSpec
CONSTANTS
    Specs = {p}
    MaxIndex = 1
    MaxParts = 4
    MaxTroubles = 1
INVARIANT LookupsComplete
INVARIANT ReadyCovered
PROPERTY BuildingSettles
CHECK_DEADLOCK FALSE
