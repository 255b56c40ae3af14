SPECIFICATION FairSpec
CONSTANTS
    Blocks <- FanBlocks
    Output <- MCOutput
    Path <- FanPath
    Work <- FanWork
    Outs <- FanOuts
    Unspent <- FanUnspent
    Base = "g"
    None = None
    Sparse = FALSE
    Activation = 1
    PurgeDepth = 1
    Stride = 2
    Dense = 10
    BatchSize = 2
    MaxFaults = 1
    Hazards <- NoHazards
CHECK_DEADLOCK FALSE
INVARIANTS LeafsetBacked MarkCoversFork
PROPERTY CatchesUp
