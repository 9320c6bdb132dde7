SPECIFICATION MCSpec
CONSTANTS
    r1 = r1
    r2 = r2
    q1 = q1
    q2 = q2
    i1 = i1
    i2 = i2
    i3 = i3
    Ride <- MCRides
    NoRide = NoRide
    MaxCalls = 2
    MaxReloads = 1
    Req <- MCReqs
    Side <- MCSides
    Invoice <- MCInvoices
    Owner <- MCOwner
    Profile <- Ridesharing
    Idle = Idle
    NoInvoice = NoInvoice
    j1 = j1
    j2 = j2
    p1 = p1
    Journey <- MCJourneys
    Passenger <- MCPassenger
    Unread = Unread
    MaxSigned = 2
    MaxRestarts = 1
    MaxPosts = 1
CHECK_DEADLOCK FALSE
INVARIANTS
    LockedWasHeld
    CalmIsRecorded
    StakesOwnRide
PROPERTIES
    KeepsEscrow
    CheckedUpon
    DropOffEnds
    CountsInTheEnd
