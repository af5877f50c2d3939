SPECIFICATION Spec
CONSTANTS
    Members = {m1, m2, m3}
    K = 2
    Contents = {c1}
    Renderings = {r1, r2}
    Values = {v1, v2}
    MaxSequence = 0
    MaxHeight = 1
    None = None
    Users = {m1, m2, m3, u1}
    Requests = {q1, q2}
    MaxProposals = 1
    MaxLag = 0
    Kinds = {TRUE}
    Fallback = TRUE
SYMMETRY SigningSymmetry
INVARIANTS
    TypeOK
    QuorumAssembles
    ExportsAgree
PROPERTIES
    ClosedIsFinal
    SignersKeepTheirPlace
