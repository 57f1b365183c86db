SPECIFICATION Spec
CONSTANTS
    i1 = i1
    i2 = i2
    b1 = b1
    None = None
    Workers = {b1}
    GroupOf <- MCGroupOf
    Cooldown <- MCCooldown
    MaxFrames = 2
    LoiterDwell = 1
    MaxTime = 3
    MaxFaults = 0
INVARIANT LoiteringIsRaised
CHECK_DEADLOCK FALSE
