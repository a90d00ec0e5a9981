SPECIFICATION Spec
CONSTANTS
    MaxUp = 4
    MaxDown = 4
    Window = 2
    ReadChunk = 2
INVARIANT
    TypeOK
PROPERTY
    UploadIsPipe
    DownloadIsPipe
