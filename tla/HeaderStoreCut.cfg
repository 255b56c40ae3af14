SPECIFICATION Spec
CONSTANTS
    Blocks <- MCBlocks
    Base = "g"
    None = None
    Path <- MCPath
    Checkpoints <- MCCheckpoints
    MaxCrashes = 2
    Hazards <- CutHazard
CHECK_DEADLOCK FALSE
INVARIANT IndexNotAhead
