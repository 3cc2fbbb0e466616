SPECIFICATION FairSpec
CONSTANTS
    Viewers <- AllViewers
    Updates <- SomeUpdates
    Width = 4
    Height = 3
    Colours = {0, 1}
    Tile = 2
    MinSplit = 6
    MinSolid = 2
    Levels = {1, 6}
    DefaultLevel = 6
    MaxRectSize <- SizeOfLevel
    MaxRectWidth <- WidthOfLevel
    StripSize = 8
    CorreMin = 1
    CorreMax = 3
    CorreStart = 2
    ZlibQueue = 2
    MaxStray = 2
    ZipAbove = 1
    MaxRects = 9
INVARIANTS
    TypeOK
    CountIsKept
    PixelsArrive
    SentOnce
    SolidIsSolid
PROPERTIES
    MessageEnds
CHECK_DEADLOCK FALSE
