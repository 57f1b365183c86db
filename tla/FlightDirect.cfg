SPECIFICATION FairSpec
CONSTANTS
    s1 = s1
    s2 = s2
    d1 = d1
    c1 = c1
    c2 = c2
    None = None
    DroneOf <- MCDroneOf
    Sessions = {s1}
    Edge = {}
    Commands = {c1, c2}
    Kinds = {"CANCEL", "ABORT", "PAUSE", "RESUME"}
    MayFault = TRUE
    LateAnswers = FALSE
    AdapterRaises = TRUE
    MaxUpdates = 3
    MaxCrashes = 1
PROPERTY EveryCommandAnswered
CHECK_DEADLOCK FALSE
