SPECIFICATION QuerySpec
CONSTANTS
    Batches <- MCBatches
    Size <- MCOneEach
    MaxRetries <- MCMaxRetries
    NoRetryMax <- MCNoRetryMax
    Rendezvous <- MCRendezvous
    Peers <- MCBad
    Addr <- MCBadAddr
    Good = {}
    BestScore = 1
    DefaultScore = 1
    WorstScore = 1
    None = None
CHECK_DEADLOCK FALSE
PROPERTY
    QueryReturns
