SPECIFICATION MCSpec
CONSTANTS
    t1 = t1
    t2 = t2
    p1 = p1
    p2 = p2
    s1 = s1
    s2 = s2
    r1 = r1
    r2 = r2
    Task <- MCTasks
    Party <- MCParties
    Domain <- MCRideDomains
    Profile <- Builtin
    State <- MCRideStates
    Fare = {1}
    Role = {"requester"}
    HasStore = FALSE
    Outages = FALSE
    MaxSaving = 1
    NoTask = NoTask
    NoParty = NoParty
    NoDomain = NoDomain
    Relay <- MCRelays
    TaskProfile <- Ridesharing
    RelayOutages = TRUE
    RefuseReplaced = TRUE
    OutboxMax = 3
    RetryBatch = 3
    MaxSnapshots = 3
    MaxSecond = 2
    MaxRestarts = 1
    NoEvent = NoEvent
    NoRecord = NoRecord
    Trip <- MCTasks
    NoTrip = NoTrip
    Socket <- MCSockets
    NoSocket = NoSocket
    MaxPages = 2
    MaxFaults = 1
\* A page that was left opens no socket any more.
CHECK_DEADLOCK FALSE
INVARIANTS
    IndexSound
PROPERTIES
    EndedStaysEnded
    LatestReachesRelay
    FollowsInTheEnd
