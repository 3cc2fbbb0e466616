SPECIFICATION Spec
CONSTANTS
    Blocks = {a, b}
    MaxBlocks = 2
    MaxQueue = 2
    MaxPosted = 1
    NoFile = NoFile
    Hole = Hole
    Here = Here
    Nothing = Nothing
SYMMETRY Symmetry
INVARIANTS
    TypeOK
    ChainAlive
    LiveBuffers
    NothingLeftOpen
PROPERTIES
    DownloadDelivers
    UploadDelivers
CHECK_DEADLOCK FALSE
