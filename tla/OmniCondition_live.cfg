SPECIFICATION FairSpec
CONSTANTS
    t1 = t1
    t2 = t2
    t3 = t3
    NULL = NULL
    Threads = {t1, t2}
    MaxDepth = 1
PROPERTIES
    ImplementsLiveCondVar
CHECK_DEADLOCK FALSE
