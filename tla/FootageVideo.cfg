SPECIFICATION FairSpec
CONSTANTS
    v1 = v1
    w1 = w1
    w2 = w2
    None = None
    Videos = {v1}
    Workers = {w1, w2}
    Length = 2
    MaxAttempts = 2
    StaleAfter = 0
    MaxQuiet = 1
    MaxReanalyses = 1
    MaxFaults = 1
INVARIANT TypeOK
INVARIANT ReadyIsComplete
INVARIANT LeftoversAreLate
PROPERTY HeldLostOnlyToEarlier
PROPERTY EveryVideoEnds
CHECK_DEADLOCK FALSE
