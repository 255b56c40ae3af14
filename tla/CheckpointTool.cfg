SPECIFICATION Spec
CONSTANTS
    Blocks <- MCBlocks
    Output <- MCOutput
    Path <- MCPath
    Work <- MCWork
    Outs <- MCOuts
    Unspent <- MCUnspent
    Base = "g"
    None = None
    ByteBits = 8
    Sized <- MCSized
    Fetchers = {f1, f2}
    Main = main
    Torn = Torn
    Attempts = 2
    MaxFaults = 1
    MaxKills = 1
    Unlisted <- MCUnlisted
    PageSize = 2
    ActivationHeight = 5
    Interval = 2
    SafeDepth = 1
    Batch = 2
    MaxPeerMoves = 1
    MinStep = 2
    Word = 16
    MaxMishaps = 1
    Modes <- AllModes
    Wanted <- MCWanted
SYMMETRY FetcherSymmetry
INVARIANTS
    ToolTypeOK
    NothingLost
    OneWriterPerFile
    SnapshotsTrue
    RecoversMissed
    ScanComplete
    LinesTrue
    ArchiveSpaced
    ArchiveTrue
