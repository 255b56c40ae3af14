SPECIFICATION Spec
CONSTANTS
    Blocks <- MCBlocks
    Output <- MCOutput
    Path <- MCPath
    Work <- MCWork
    Outs <- MCOuts
    Unspent <- MCUnspent
    Base = "g"
    None = None
    Sparse = FALSE
    Activation = 1
    PurgeDepth = 10
    Stride = 2
    Dense = 10
    BatchSize = 2
    MaxFaults = 0
    Hazards <- OverlapHazard
CHECK_DEADLOCK FALSE
INVARIANT LeafsetBacked
