SPECIFICATION Spec
CONSTANTS
    s1 = s1
    s2 = s2
    d1 = d1
    c1 = c1
    c2 = c2
    None = None
    DroneOf <- MCDroneOf
    Sessions = {s1}
    Edge = {s1}
    Commands = {}
    Kinds = {}
    MayFault = FALSE
    LateAnswers = FALSE
    AdapterRaises = TRUE
    MaxUpdates = 3
    MaxCrashes = 1
PROPERTY NoLaunchAfterClosing
CHECK_DEADLOCK FALSE
