SPECIFICATION FairSpec
CONSTANTS
    Connections = 2
    MaxTime = 3
    Batch = 2
    SweepInterval = 2
    DrainTimeout = 1
    None = None
INVARIANT
    TypeOK
    CacheMatchesQueue
    NoDeadlineSleptThrough
    RoundComplete
PROPERTY
    DrainEnds
