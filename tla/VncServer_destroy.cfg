SPECIFICATION Spec
CONSTANTS
    c1 = c1
    c2 = c2
    c3 = c3
    main = main
    pipe = pipe
    desk = desk
    Desktop = desk
    None = None
    Clients = {c1, c2, c3}
    Controllers = {main}
    MaxClients = 3
    Priorities = {1}
    DesktopMayFail = FALSE
    MayDestroy = TRUE
    MayRetry = FALSE
    DisplayChanges = TRUE
SYMMETRY Symmetry
INVARIANTS
    TypeOK
    ListsSound
    AuthSleeperHasReason
CHECK_DEADLOCK FALSE
