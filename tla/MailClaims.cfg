SPECIFICATION FairSpec
CONSTANTS
    m1 = m1
    m2 = m2
    w1 = w1
    w2 = w2
    NoMail = NoMail
    Mails = {m1}
    Workers = {w1, w2}
    MaxAttempts = 2
    Batch = 1
    StaleClaim = 1
    Backoff <- MCBackoff
    MaxPass = 2
    MaxCrashes = 2
    MaxRetries = 1
INVARIANT TypeOK
INVARIANT OneHolder
INVARIANT TwiceOnlyUnrecorded
INVARIANT EffortBounded
PROPERTY SentStays
PROPERTY EveryMailEnds
CHECK_DEADLOCK FALSE
