SPECIFICATION Spec
CONSTANTS
    Addrs = {a1}
    Logs = {l1, l2}
    Unfit = {}
    Boards <- OneBoard
    MaxScore = 2
    None = None
    MaxAttestRetries = 2
    MaxPerCycle = 2
    MaxRuns = 2
    LastDay = 2
    MaxCrashes = 0
    MaxFaults = 0
    MaxRequeues = 0
    MaxForeign = 0
    Straddle = TRUE
SYMMETRY DayCloseSymmetry
INVARIANTS
    SkippedLosesNothing
CHECK_DEADLOCK FALSE
