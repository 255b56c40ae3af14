SPECIFICATION FairSpec
CONSTANTS
    Batches <- OneBatch
    Size <- MCOneSize
    MaxRetries <- MCOneRetries
    NoRetryMax = {}
    Rendezvous <- OneBatch
    Peers <- MCPeers
    Addr <- MCAddr
    Good <- MCGood
    BestScore = 1
    DefaultScore = 1
    WorstScore = 2
    None = None
CHECK_DEADLOCK FALSE
PROPERTY
    StopReturns
