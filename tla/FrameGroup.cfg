SPECIFICATION FairSpec
CONSTANTS
    w1 = w1
    w2 = w2
    Workers = {w1, w2}
    Nobody = Nobody
    NoFrame = NoFrame
    MaxFrames = 2
    Poison = {1}
    MaxLen = 1
    ReadCount = 1
    IdleClaim = 2
    Block = 1
    MaxDeliveries = 3
    MaxBusy = 3
    MaxFails = 1
    MaxCrashes = 2
    MaxLosses = 1
INVARIANT TypeOK
INVARIANT TwoAtOnceOnlyIfSlow
INVARIANT DeliveredIsPending
PROPERTY ImplementsFrameJobs
PROPERTY EveryFrameSettles
