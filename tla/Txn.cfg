SPECIFICATION TxnSpec
CONSTANTS
    Labels = {A, B}
    Keys = {k}
    MaxNode = 3
    MaxEdge = 2
    MaxSeq = 3
    MaxSources = 2
    Ends <- MCEnds
    Weights = {FALSE}
    MaxPatchParts = 2
    Txns = {t}
    MaxIntents = 3
    MaxWork = 3
PROPERTY FirstCommitterWins
PROPERTY TxnCascadeComplete
INVARIANT ReadYourWrites
CHECK_DEADLOCK FALSE
