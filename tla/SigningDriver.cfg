SPECIFICATION Spec
CONSTANTS
    Pages = {p1, p2}
    Attempts = {a1, a2}
    NoPage = NoPage
    NoMark = NoMark
    SettleBlocks = 1
    MaxLag = 1
    MaxHeight = 3
    MaxOthers = 1
    MaxEnds = 1
SYMMETRY SigningSymmetry
INVARIANTS
    TypeOK
    NothingSentHolds
    CancelledAsObserved
    OneIsOut
CHECK_DEADLOCK FALSE
