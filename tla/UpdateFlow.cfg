SPECIFICATION FairSpec
CONSTANTS
    a = a
    b = b
    Clients = {a}
    CopyRect = {a}
    CacheRect = {a}
    Pipelining = {}
    Refreshing = {}
    Partial = {a}
    Sizes = {1, 2}
    WindowWidth = 1
    Returning = TRUE
    MaxEvents = 2
INVARIANTS
    TypeOK
    DesktopPending
    QuietCellIsRight
    RequestKept
    SizeOnItsWay
PROPERTIES
    EventuallySame
CHECK_DEADLOCK FALSE
