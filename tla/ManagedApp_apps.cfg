SPECIFICATION MCSpec
CONSTANTS
    r1 = r1
    r2 = r2
    Ride <- MCRides
    NoRide = NoRide
    MaxAnswers = 1
    MaxBoots = 1
    c1 = c1
    c2 = c2
    Errand <- MCErrands
    Part = {"location"}
    MaxEndpoints = 3
    MaxStarts = 2
CHECK_DEADLOCK FALSE
INVARIANTS
    OnlyOwnRides
    SaidOverIsOver
    ShiftIsKept
PROPERTIES
    EndIsTold
