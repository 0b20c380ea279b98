CONSTANTS
    c1 = c1  c2 = c2  c3 = c3
    Config = {c1, c2, c3}
    Bad <- SomeBad
    NoFile = NoFile
    Down = Down
    Managers <- Both
    PartialReload = TRUE
    Slot = {1, 2}
    MaxRequests = 3
    MaxOverlaps = 1
    MaxFaults = 2
    MaxCrashes = 1
SPECIFICATION Spec
CHECK_DEADLOCK FALSE

INVARIANTS TypeOK IdleRunsFile
PROPERTIES UpdatesAreAtomic SuccessMeansApplied FailureRollsBack PassedCheckRunsFile
