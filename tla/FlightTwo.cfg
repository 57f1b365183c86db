SPECIFICATION Spec
CONSTANTS
    s1 = s1
    s2 = s2
    d1 = d1
    c1 = c1
    c2 = c2
    None = None
    DroneOf <- MCDroneOf
    Sessions = {s1, s2}
    Edge = {s1, s2}
    Commands = {c1}
    Kinds = {"PAUSE"}
    MayFault = FALSE
    LateAnswers = FALSE
    AdapterRaises = TRUE
    MaxUpdates = 2
    MaxCrashes = 1
INVARIANT OneInTheAir
PROPERTY ImplementsPatrolLife
CHECK_DEADLOCK FALSE
SYMMETRY MCSymmetry
