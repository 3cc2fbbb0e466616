SPECIFICATION Spec
CONSTANTS
    t1 = t1
    t2 = t2
    t3 = t3
    NULL = NULL
    Threads = {t1, t2, t3}
    MaxDepth = 1
INVARIANTS
    TypeOK
    ListIntact
    SemaphoreInStep
    DrainNeverBlocks
CHECK_DEADLOCK FALSE
PROPERTIES
    ImplementsCondVar
