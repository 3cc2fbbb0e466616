SPECIFICATION FairSpec
CONSTANTS
    c1 = c1
    c2 = c2
    c3 = c3
    main = main
    pipe = pipe
    desk = desk
    Desktop = desk
    None = None
    Clients = {c1, c2}
    Controllers = {main}
    MaxClients = 3
    Priorities = {0}
    DesktopMayFail = FALSE
    MayDestroy = FALSE
    MayRetry = FALSE
    DisplayChanges = FALSE
PROPERTIES
    LeavingClientGoes
CHECK_DEADLOCK FALSE
