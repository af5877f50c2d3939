SPECIFICATION Spec
CONSTANTS
    Addrs = {a1, a2}
    Logs = {l1, l2}
    Unfit = {}
    Boards <- OneBoard
    MaxScore = 2
    None = None
    MaxAttestRetries = 2
    MaxPerCycle = 2
    MaxRuns = 2
    LastDay = 2
    MaxCrashes = 1
    MaxFaults = 1
    MaxRequeues = 1
    MaxForeign = 1
    Straddle = FALSE
SYMMETRY DayCloseSymmetry
INVARIANTS
    TypeOK
    AttestedIsOnChain
    BroadcastsAreBounded
PROPERTIES
    NeverWorseAfterBetter
CHECK_DEADLOCK FALSE
