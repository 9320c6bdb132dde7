SPECIFICATION LiveSpec
CONSTANTS
    d1 = d1
    d2 = d2
    Driver <- MCOneDriver
    Faults <- MCPagesLost
    MaxClock = 3
    Rider = Rider
    NoTask = NoTask
    NoDriver = NoDriver
    Idle = Idle
CHECK_DEADLOCK FALSE
PROPERTIES
    EndReachesRider
    NeverOutdated
