SPECIFICATION Spec
CONSTANTS
    MaxUp = 1
    MaxDown = 3
    MaxEmpty = 0
    QuicWindow = 2
    MaxClient = 1
    BodyLimit = 1
    ReadChunk = 2
    MaxResponse = 4
    EventSlots = 2
    FramingRetries = 2
    Faults = {"write", "read", "reset", "stop", "idle"}
INVARIANT
    TypeOK
    InOrder
    BudgetConserved
    CleanMeansComplete
    NothingStranded
PROPERTY
    DownloadIsPipe
