SPECIFICATION FairLife
CONSTANTS
    MaxServes = 2
    Blocks <- MCBlocks
    Base = "g"
    None = None
    Path <- MCPath
    Checkpoints <- MCCheckpoints
    MaxCrashes = 2
    Hazards <- KillHazards
CHECK_DEADLOCK FALSE
INVARIANTS
    LifeTypeOK
    FailsOnlyIfHit
    StoresAgree
    SeedApplied
    ClosedOnce
    OrderlyStop
PROPERTIES
    StopReleases
