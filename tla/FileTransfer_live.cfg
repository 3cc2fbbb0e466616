SPECIFICATION FairSpec
CONSTANTS
    Blocks = {a}
    MaxBlocks = 1
    MaxQueue = 1
    MaxPosted = 1
    NoFile = NoFile
    Hole = Hole
    Here = Here
    Nothing = Nothing
PROPERTIES
    TransfersEnd
    OfferAnswered
CHECK_DEADLOCK FALSE
