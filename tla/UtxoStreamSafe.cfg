SPECIFICATION Spec
CONSTANTS
    Blocks <- MCBlocks
    Output <- MCOutput
    Path <- MCPath
    Work <- MCWork
    Outs <- MCOuts
    Unspent <- MCUnspent
    Base = "g"
    None = None
    Subs <- MCOneSub
    Owned <- MCOneOwned
    From <- MCOneFrom
    MaxTxs = 1
    MaxRounds = 3
    Relays <- OneRelay
    Hazards <- NoHazards
CHECK_DEADLOCK FALSE
INVARIANTS
    TypeOK
    FieldsGuarded
    FollowsStore
    NothingMissed
    ReplayTruth
    UnconfirmedKnown
PROPERTY
    StoreIsChainView
