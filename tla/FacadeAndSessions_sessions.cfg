SPECIFICATION MCSpec
CONSTANTS
    t1 = t1
    t2 = t2
    p1 = p1
    p2 = p2
    Task <- MCOneTask
    Party <- MCOneParty
    Domain <- MCSomeDomains
    Profile <- Builtin
    State <- MCState
    Fare = {1}
    Role = {"requester"}
    HasStore = TRUE
    Outages = TRUE
    MaxSaving = 1
    NoTask = NoTask
    NoParty = NoParty
    NoDomain = NoDomain
    q1 = q1
    q2 = q2
    rider = rider
    d1 = d1
    d2 = d2
    i0 = i0
    i1 = i1
    i2 = i2
    Req <- MCReqs
    Rider = rider
    Driver <- MCDrivers
    Invoice <- MCInvoices
    Owner <- MCOwner
    Configured <- MCLists
    NodeErrors = TRUE
    None = None
    Slot <- MCReqs
    Deposit <- MCDeposits
    SideOf <- MCSideOf
    Backend = {"lnd", "core-lightning", "btcpay", "alby", "demo"}
    MaxReboots = 1
    MaxDbSaves = 2
    NoDeposit = NoDeposit
    l1 = l1
    l2 = l2
    cash = cash
    Nothing = Nothing
    Lightning <- MCLightning
    Direct <- MCDirect
    MaxFare = 1
    MaxAsked = 2
    MaxPending = 1
    Trips <- MCTrips
    Far = 3
    Starts = {0}
    Target = 3
    Crossings = {1}
    Wanted <- MCWanted
    OrsKey = TRUE
    OffBy = 1
    Nearby = 1
    EtaSlack = 1
    Paces = {1, 2}
    MaxGuides = 2
    MaxReroutes = 2
    MaxDriven = 4
    MaxAwaited = 1
    Nowhere = Nowhere
    operator = operator
    arbiter = arbiter
    g1 = g1
    Hearing <- MCReqs
    Dispute <- MCDisputes
    Operator = operator
    Arbiter <- MCArbiters
    Ruling <- MCRulings
    Unset = Unset
    Ballot <- MCReqs
    Guardian <- MCGuardians
    Proposal <- MCProposals
    Threshold = {1, 2}
    Watchdogs = 2
    Bond = 2
SYMMETRY
    MCPartSymmetry
CHECK_DEADLOCK FALSE
INVARIANTS
    RideIndexComplete
    CompletedPaysBack
    RoutedToIssuer
    FailedMeansUnpaid
    PaysOnce
    SaysWhatWasDone
    GuidanceIsWhole
    StakesFollowRulings
    VotesDecide
PROPERTIES
    KeepsEscrow
