SPECIFICATION MCSpec
CONSTANTS
    d1 = d1
    d2 = d2
    p1 = p1
    p2 = p2
    mast = mast
    Driver <- MCTwoDrivers
    Faults <- Fault
    MaxClock = 1
    Rider = Rider
    NoTask = NoTask
    NoDriver = NoDriver
    Idle = Idle
    Person <- MCPersons
    Address <- MCAddresses
    Behind <- MCBehind
    MaxAuth = 2
    Call = {"create", "request", "estimate", "list"}
    PerSecond = 2
    SecondsOff = 1
    Fresh = 1
    Replay = 6
    Budget <- MCBudget
    Span <- MCSpan
    Account = {p1}
    Term = {0, 1}
    Desk = {1, 2}
    MaxTicks = 9
    MaxArrivals = 2
SYMMETRY
    DriverSymmetry
CHECK_DEADLOCK FALSE
INVARIANTS
    ShownIsSent
    OneDriver
    SingleUse
    OthersDoNotSpend
