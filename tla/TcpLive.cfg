SPECIFICATION FairSpec
CONSTANTS
    MaxUp = 2
    MaxDown = 1
    MaxEmpty = 0
    QuicWindow = 1
    MaxClient = 1
    BodyLimit = 1
    ReadChunk = 1
    MaxResponse = 2
    EventSlots = 1
    FramingRetries = 1
    Faults = {}
PROPERTY
    UploadArrives
    DownloadArrives
    TunnelEnds
