SPECIFICATION Spec
CONSTANTS
    c1 = c1
    c2 = c2
    desktop = desktop
    Clients = {c1}
    Desktop = desktop
    None = None
    Aims = {"format", "encodings", "leave"}
    Walks = {"changed", "format"}
INVARIANTS
    RemovedHasNoThread
CHECK_DEADLOCK FALSE
