SPECIFICATION FairSpec
CONSTANTS
    Addrs = {a1}
    Logs = {l1, l2, l3}
    Unfit = {l3}
    Boards <- TwoDays
    MaxScore = 2
    None = None
    MaxAttestRetries = 2
    MaxPerCycle = 1
    MaxRuns = 2
    LastDay = 3
    MaxCrashes = 1
    MaxFaults = 1
    MaxRequeues = 0
    MaxForeign = 0
    Straddle = FALSE
INVARIANTS
    SkippedLosesNothing
PROPERTIES
    Settles
CHECK_DEADLOCK FALSE
