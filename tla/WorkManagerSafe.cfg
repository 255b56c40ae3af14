SPECIFICATION Spec
CONSTANTS
    Batches <- MCBatches
    Size <- MCSize
    MaxRetries <- MCMaxRetries
    NoRetryMax <- MCNoRetryMax
    Rendezvous <- MCRendezvous
    Peers <- MCBad
    Addr <- MCBadAddr
    Good = {}
    BestScore = 1
    DefaultScore = 1
    WorstScore = 2
    None = None
CHECK_DEADLOCK FALSE
INVARIANTS
    TypeOK
    AnsweredOnce
    JobsAccounted
    WorkersTracked
    SuccessMeansAnswered
