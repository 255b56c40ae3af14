SPECIFICATION Spec
CONSTANTS
    Blocks <- MCBlocks
    Output <- MCOutput
    Path <- MCPath
    Work <- MCWork
    Outs <- MCOuts
    Unspent <- MCUnspent
    Base = "g"
    None = None
    Sparse = TRUE
    Activation = 0
    PurgeDepth = 10
    Stride = 2
    Dense = 10
    BatchSize = 2
    MaxFaults = 1
    Hazards <- SilentHazards
CHECK_DEADLOCK FALSE
INVARIANTS
    TypeOK
    LeafsetBacked
    MarkCoversFork
    CoinHeightsExact
PROPERTY
    ImplementsChainView
