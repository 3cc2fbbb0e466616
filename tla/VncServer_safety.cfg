SPECIFICATION Spec
CONSTANTS
    c1 = c1
    c2 = c2
    c3 = c3
    main = main
    pipe = pipe
    desk = desk
    Desktop = desk
    None = None
    Clients = {c1, c2}
    Controllers = {main}
    MaxClients = 3
    Priorities = {0, 1, 2, 3}
    DesktopMayFail = TRUE
    MayDestroy = FALSE
    MayRetry = TRUE
    DisplayChanges = TRUE
SYMMETRY Symmetry
INVARIANTS
    BufferIsDesktop
    DesktopOnlyWithClients
CHECK_DEADLOCK FALSE
