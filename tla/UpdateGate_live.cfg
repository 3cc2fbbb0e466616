SPECIFICATION FairSpec
CONSTANTS
    c1 = c1
    c2 = c2
    desktop = desktop
    Clients = {c1, c2}
    Desktop = desktop
    None = None
    Aims = {"format"}
    Walks = {"changed"}
PROPERTIES
    DisableReturns
    EnableReturnsWhenQuiet
CHECK_DEADLOCK FALSE
