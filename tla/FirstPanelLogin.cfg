SPECIFICATION PanelSpec
CONSTANTS
    Keys = {k1, k2}
    Attempts = {a1, a2, a3, a4}
    Limit = 2
    Window = 2
    MaxTime = 4
    MaxRestarts = 1
    None = None
SYMMETRY Symmetry
PROPERTY LoginLetsIn
CHECK_DEADLOCK FALSE
