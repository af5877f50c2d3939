SPECIFICATION Spec
CONSTANTS
    Pages = {p1, p2}
    Operations = {o1, o2}
    NoPage = NoPage
    Foreign = Foreign
    MaxForeign = 2
    MaxLag = 1
    MaxEnds = 2
SYMMETRY PublishingSymmetry
INVARIANTS
    TypeOK
    OutIsOnRecord
    NothingSentIsTrue
    OneCanStillRun
PROPERTIES
    ImplementsLedger
CHECK_DEADLOCK FALSE
