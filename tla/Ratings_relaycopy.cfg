SPECIFICATION RatingsSpec
CONSTANTS
    j1 = j1
    j2 = j2
    p1 = p1
    Journey <- MCJourneys
    Passenger <- MCPassenger
    Unread = Unread
    MaxSigned = 2
    MaxRestarts = 0
    MaxPosts = 1
INVARIANTS
    RelayCopyStays
