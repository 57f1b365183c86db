SPECIFICATION Spec
CONSTANTS
    s1 = s1
    s2 = s2
    d1 = d1
    e1 = e1
    m1 = m1
    m2 = m2
    c1 = c1
    none = none
    EventOf <- MCEventOf
    NoEvent = none
    Sessions = {}
    Drones = {d1}
    Events = {e1}
    Media = {m1, m2}
    Commands = {c1}
    MaxItems = 2
    IsolateLimit = 2
    MaxRows = 3
    MaxBatches = 2
    MaxReadings = 1
    MaxCrashes = 1
    MaxCopies = 1
    Fits = {"ok", "unfit"}
    ReceiptsExpire = TRUE
INVARIANT AppliedOnce
INVARIANT UnwantedIsUnwanted
CHECK_DEADLOCK FALSE
