SPECIFICATION Spec
CONSTANTS
    Members = {m1, m2}
    K = 2
    Contents = {c1,c2}
    Renderings = {r1}
    Values = {v1}
    MaxSequence = 0
    MaxHeight = 3
    None = None
    Users = {m1}
    Requests = {q1,q2}
    MaxProposals = 2
    MaxLag = 1
    Kinds = {TRUE, FALSE}
    Fallback = FALSE
SYMMETRY SettlingSymmetry
INVARIANTS
    ClosedAsTheChainDid
    ClosedCannotRun
    LegacyIsHistory
PROPERTIES
    MayBroadcastMeansNotRun
    ImplementsLedger
