SPECIFICATION Spec
CONSTANTS
    c1 = c1
    c2 = c2
    desktop = desktop
    Clients = {c1, c2}
    Desktop = desktop
    None = None
    Aims = {"format", "encodings", "leave"}
    Walks = {"changed", "format"}
SYMMETRY Symmetry
INVARIANTS
    TypeOK
    CountIsDepth
    EnableMatchesCount
    GateClosed
    DyingThreadNotTriggered
CHECK_DEADLOCK FALSE
