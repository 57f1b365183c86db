SPECIFICATION FairSpec
CONSTANTS
    s1 = s1
    s2 = s2
    d1 = d1
    e1 = e1
    m1 = m1
    m2 = m2
    c1 = c1
    none = none
    EventOf <- MCEventOf
    NoEvent = none
    Sessions = {s1}
    Drones = {}
    Events = {}
    Media = {}
    Commands = {}
    MaxItems = 3
    IsolateLimit = 2
    MaxRows = 3
    MaxBatches = 6
    MaxReadings = 2
    MaxCrashes = 1
    MaxCopies = 1
    Fits = {"ok", "unfit", "malformed"}
    ReceiptsExpire = FALSE
INVARIANT TypeOK
INVARIANT OnlyBadSetAside
INVARIANT IInv
PROPERTY Drains
PROPERTY ImplementsDelivery
CHECK_DEADLOCK FALSE
