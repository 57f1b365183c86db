SPECIFICATION Spec
CONSTANTS
    s1 = s1
    s2 = s2
    d1 = d1
    e1 = e1
    m1 = m1
    m2 = m2
    c1 = c1
    none = none
    EventOf <- MCEventOf
    NoEvent = none
    Sessions = {s1}
    Drones = {}
    Events = {}
    Media = {}
    Commands = {}
    MaxItems = 2
    IsolateLimit = 1
    MaxRows = 3
    MaxBatches = 3
    MaxReadings = 2
    MaxCrashes = 1
    MaxCopies = 2
    Fits = {"ok", "unfit"}
    ReceiptsExpire = TRUE
INVARIANT NothingLost
INVARIANT AppliedOnce
INVARIANT InOrder
CHECK_DEADLOCK FALSE
