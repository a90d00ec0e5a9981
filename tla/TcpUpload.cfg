SPECIFICATION Spec
CONSTANTS
    MaxUp = 4
    MaxDown = 0
    MaxEmpty = 4
    QuicWindow = 3
    MaxClient = 2
    BodyLimit = 2
    ReadChunk = 1
    MaxResponse = 1
    EventSlots = 1
    FramingRetries = 2
    Faults = {"write", "reset"}
INVARIANT
    InOrder
    QueueCounted
    NoLostWakeup
PROPERTY
    UploadIsPipe
