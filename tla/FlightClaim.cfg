SPECIFICATION FairSpec
CONSTANTS
    s1 = s1
    s2 = s2
    d1 = d1
    c1 = c1
    c2 = c2
    None = None
    DroneOf <- MCDroneOf
    Sessions = {s1}
    Edge = {s1}
    Commands = {c1}
    Kinds = {"CANCEL", "ABORT"}
    MayFault = FALSE
    LateAnswers = TRUE
    AdapterRaises = FALSE
    MaxUpdates = 4
    MaxCrashes = 1
INVARIANT TypeOK
INVARIANT ClosedNeverFlew
INVARIANT OneCommander
INVARIANT StopsStop
INVARIANT LateRecordCorrects
PROPERTY EndedStaysEnded
PROPERTY EveryFlightEnds
PROPERTY AnsweredInFlight
CHECK_DEADLOCK FALSE
