SPECIFICATION FairSpec
CONSTANTS
    NumRuns = 2
    NumQuotes = 2
    Workers = {w1}
    Tokens = {t1, t2, t3, t4, t5, t6}
    NoOwner = NoOwner
    LeaseLength = 1
    QuoteLifetime = 1
    CheckDelays <- OneDelay
    MaxFailures = 2
    MaxAttempts = 2
PROPERTIES
    EventuallyConfirmed
CHECK_DEADLOCK FALSE
