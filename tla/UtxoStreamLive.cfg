SPECIFICATION FairSpec
CONSTANTS
    Blocks <- MCLineBlocks
    Output <- MCLineOutput
    Path <- MCLinePath
    Work <- MCLineWork
    Outs <- MCLineOuts
    Unspent <- MCLineUnspent
    Base = "g"
    None = None
    Subs <- MCOneSub
    Owned <- MCLineOwned
    From <- MCLineFrom
    MaxTxs = 2
    MaxRounds = 1
    Relays <- LineRelay
    Hazards <- PurgeFail
CHECK_DEADLOCK FALSE
PROPERTIES
    CancelEnds
    MtxReleased
