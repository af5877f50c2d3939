SPECIFICATION Spec
CONSTANTS
    NumRuns = 2
    NumQuotes = 2
    Workers = {w1, w2}
    Tokens = {t1, t2, t3, t4, t5, t6}
    NoOwner = NoOwner
    LeaseLength = 1
    QuoteLifetime = 1
    CheckDelays <- OneDelay
    MaxFailures = 1
    MaxAttempts = 1
INVARIANTS
    TypeOK
    OneBroadcast
    OneInDoubt
    SentAsAgreed
    ConfirmedIsAnchored
    FailuresAreBounded
PROPERTIES
    ImplementsAnchorOnce
CHECK_DEADLOCK FALSE
