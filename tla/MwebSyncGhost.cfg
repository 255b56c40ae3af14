SPECIFICATION Spec
CONSTANTS
    Blocks <- MCForkBlocks
    Output <- MCOutput
    Path <- MCForkPath
    Work <- MCForkWork
    Outs <- MCForkOuts
    Unspent <- MCForkUnspent
    Base = "g"
    None = None
    Sparse = FALSE
    Activation = 1
    PurgeDepth = 10
    Stride = 2
    Dense = 10
    BatchSize = 2
    MaxFaults = 1
    Hazards <- NoHazards
CHECK_DEADLOCK FALSE
INVARIANT FoundIsUnspent
