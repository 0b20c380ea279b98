CONSTANTS
    c1 = c1  c2 = c2  c3 = c3
    Config = {c1, c2, c3}
    Bad <- NoneBad
    NoFile = NoFile
    Down = Down
    Managers <- Both
    PartialReload = FALSE
    Slot = {1, 2}
    MaxRequests = 3
    MaxOverlaps = 2
    MaxFaults = 0
    MaxCrashes = 0
SPECIFICATION Spec
CHECK_DEADLOCK FALSE
INVARIANT IdleAgrees
