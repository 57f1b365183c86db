SPECIFICATION Spec
CONSTANTS
    i1 = i1
    i2 = i2
    b1 = b1
    None = None
    Workers = {i1, i2, b1}
    GroupOf <- MCGroupOf
    Cooldown <- MCCooldown
    MaxFrames = 2
    LoiterDwell = 1
    MaxTime = 2
    MaxFaults = 1
INVARIANT TypeOK
INVARIANT ApartByWorker
INVARIANT AccountedFor
CONSTRAINT MCTwoAtATime
SYMMETRY MCSymmetry
CHECK_DEADLOCK FALSE
